-------------------------- MODULE SensorPoll_proofs --------------------------
(***************************************************************************)
(* Safety of the polls on a shared serial bus, for any number of channels, *)
(* slaves, registers and attempts.                                         *)
(***************************************************************************)
EXTENDS SensorPoll, SequenceTheorems, TLAPS

USE DEF pollVars, busVars

\* What the assumption says of one channel.
LEMMA ChannelFacts ==
    ASSUME NEW c \in Channels
    PROVE  /\ SlaveOf[c] \in Slaves
           /\ Len(RegsOf[c]) \in Nat \ {0}
           /\ \A i \in 1..Len(RegsOf[c]) : RegsOf[c][i] \in Regs
           /\ \A i, j \in 1..Len(RegsOf[c]) :
                 RegsOf[c][i] = RegsOf[c][j] => i = j
  BY PollAssumption DEF Slaves, Regs

\* What the return of a set of reads does to one channel: nothing, another
\* attempt, the next measurement, or the end of the loop.
LEMMA ReturnEffect ==
    ASSUME TypeOK, NEW rcs, Return(rcs), NEW c \in Channels
    PROVE  /\ c \notin DOMAIN rcs =>
                /\ pc'[c] = pc[c] /\ meas'[c] = meas[c]
                /\ attempt'[c] = attempt[c]
                /\ allOK'[c] <=> allOK[c]
                /\ doubtful'[c] <=> doubtful[c]
           /\ c \in DOMAIN rcs =>
                \/ /\ rcs[c] # "OK" /\ pc'[c] = "ask" /\ meas'[c] = meas[c]
                   /\ attempt'[c] = attempt[c] + 1 /\ attempt[c] + 1 < Attempts
                   /\ allOK'[c] <=> allOK[c]
                \/ /\ attempt'[c] \in {0, attempt[c]}
                   /\ allOK'[c] <=> allOK[c] /\ rcs[c] = "OK"
                   /\ \/ /\ pc'[c] = "ask" /\ meas'[c] = meas[c] + 1
                         /\ meas[c] < Len(RegsOf[c])
                      \/ /\ pc'[c] = "save" /\ meas'[c] = meas[c]
                         /\ meas[c] = Len(RegsOf[c])
<1> USE ChannelFacts
<1>1. meas[c] \in Nat /\ meas[c] \in 1..Len(RegsOf[c])
  BY DEF TypeOK
<1>2. CASE c \notin DOMAIN rcs
  BY <1>2 DEF Return, TypeOK
<1>3. CASE c \in DOMAIN rcs /\ rcs[c] # "OK" /\ Retried(rcs[c], attempt[c] + 1)
  BY <1>1, <1>3 DEF Return, TypeOK, Retried
<1>4. CASE /\ c \in DOMAIN rcs /\ ~(rcs[c] # "OK" /\ Retried(rcs[c], attempt[c] + 1))
           /\ meas[c] < Len(RegsOf[c])
  BY <1>1, <1>4 DEF Return, TypeOK, Failed
<1>5. CASE /\ c \in DOMAIN rcs /\ ~(rcs[c] # "OK" /\ Retried(rcs[c], attempt[c] + 1))
           /\ ~(meas[c] < Len(RegsOf[c]))
  <2>1. meas[c] = Len(RegsOf[c])
    BY <1>1, <1>5
  <2> QED
    BY <2>1, <1>5 DEF Return, TypeOK, Failed
<1> QED
  BY <1>2, <1>3, <1>4, <1>5

\* The variables of the polls keep their types when reads return.
LEMMA ReturnTypes ==
    ASSUME TypeOK, NEW rcs, Return(rcs)
    PROVE  /\ pc' \in [Channels -> Pcs]
           /\ meas' \in [Channels -> Nat]
           /\ \A c \in Channels : meas'[c] \in 1..Len(RegsOf[c])
           /\ attempt' \in [Channels -> 0..Attempts - 1]
           /\ allOK' \in [Channels -> BOOLEAN]
           /\ doubtful' \in [Channels -> BOOLEAN]
<1>1. ASSUME NEW c \in Channels
      PROVE  /\ pc'[c] \in Pcs
             /\ meas'[c] \in Nat /\ meas'[c] \in 1..Len(RegsOf[c])
             /\ attempt'[c] \in 0..Attempts - 1
  <2>1. /\ pc[c] \in Pcs /\ meas[c] \in Nat /\ meas[c] \in 1..Len(RegsOf[c])
        /\ attempt[c] \in 0..Attempts - 1
        /\ Len(RegsOf[c]) \in Nat /\ Attempts \in Nat \ {0}
    BY ChannelFacts, PollAssumption DEF TypeOK
  <2>2. pc'[c] \in Pcs
    BY <2>1, ReturnEffect DEF Pcs
  <2>3. meas'[c] \in {meas[c], meas[c] + 1} /\ meas'[c] \in 1..Len(RegsOf[c])
    BY <2>1, ReturnEffect
  <2>4. attempt'[c] \in 0..Attempts - 1
    BY <2>1, ReturnEffect
  <2> QED
    BY <2>1, <2>2, <2>3, <2>4
<1>2. /\ pc' = [c \in Channels |-> pc'[c]]
      /\ meas' = [c \in Channels |-> meas'[c]]
      /\ attempt' = [c \in Channels |-> attempt'[c]]
  BY Zenon DEF Return
<1>3. allOK' \in [Channels -> BOOLEAN] /\ doubtful' \in [Channels -> BOOLEAN]
  BY DEF Return, TypeOK
<1> QED
  BY <1>1, <1>2, <1>3

\* A poll's progress survives the return of its read, if the read appended a
\* value for its register exactly when it returned OK.
LEMMA ReturnProgress ==
    ASSUME TypeOK, Progress, NEW rcs, Return(rcs), NEW c \in Channels,
           pc[c] # "save",
           c \in DOMAIN rcs,
           rcs[c] # "OK" => values'[c] = values[c],
           rcs[c] = "OK" => \E w : w.reg = Reg(c) /\ values'[c] = values[c] \cup {w}
    PROVE  /\ \A v \in values'[c] : \E i \in 1..Tried(c)' : v.reg = RegsOf[c][i]
           /\ allOK'[c] <=> \A i \in 1..Tried(c)' :
                               \E v \in values'[c] : v.reg = RegsOf[c][i]
<1> DEFINE m == meas[c]
           L == Len(RegsOf[c])
           Has(V, i) == \E v \in V : v.reg = RegsOf[c][i]
<1>1. m \in Nat /\ m \in 1..L /\ L \in Nat /\ Tried(c) = m - 1
  BY ChannelFacts DEF TypeOK, Tried
<1>2. /\ \A v \in values[c] : \E i \in 1..(m - 1) : v.reg = RegsOf[c][i]
      /\ allOK[c] <=> \A i \in 1..(m - 1) : Has(values[c], i)
  BY <1>1 DEF Progress
<1>3. CASE /\ rcs[c] # "OK" /\ pc'[c] = "ask" /\ meas'[c] = m
           /\ allOK'[c] <=> allOK[c]
  <2>1. Tried(c)' = m - 1
    BY <1>3 DEF Tried
  <2> QED
    BY <2>1, <1>2, <1>3
<1>4. CASE /\ allOK'[c] <=> allOK[c] /\ rcs[c] = "OK"
           /\ \/ pc'[c] = "ask" /\ meas'[c] = m + 1
              \/ pc'[c] = "save" /\ meas'[c] = m /\ m = L
  <2>1. Tried(c)' = m
    BY <1>1, <1>4 DEF Tried
  <2>2. /\ \A i \in 1..m : i \in 1..(m - 1) \/ i = m
        /\ \A i \in 1..(m - 1) : i \in 1..m /\ i # m /\ i \in 1..L
        /\ m \in 1..m
    BY <1>1
  <2>3. CASE rcs[c] = "OK"
    <3>1. PICK w : w.reg = RegsOf[c][m] /\ values'[c] = values[c] \cup {w}
      BY <2>3 DEF Reg
    <3>2. \A i \in 1..(m - 1) : Has(values'[c], i) <=> Has(values[c], i)
      <4>1. \A i \in 1..(m - 1) : RegsOf[c][i] # RegsOf[c][m]
        BY <1>1, <2>2, ChannelFacts
      <4> QED
        BY <3>1, <4>1
    <3>3. Has(values'[c], m)
      BY <3>1
    <3>4. \A v \in values'[c] : \E i \in 1..m : v.reg = RegsOf[c][i]
      BY <1>2, <2>2, <3>1
    <3>5. allOK'[c] <=> \A i \in 1..m : Has(values'[c], i)
      BY <1>2, <1>4, <2>2, <2>3, <3>2, <3>3
    <3> QED
      BY <2>1, <3>4, <3>5
  <2>4. CASE rcs[c] # "OK"
    <3>1. values'[c] = values[c] /\ ~allOK'[c]
      BY <2>4, <1>4
    <3>2. ~Has(values[c], m)
      BY <1>1, <1>2, <2>2, ChannelFacts
    <3>3. \A v \in values'[c] : \E i \in 1..m : v.reg = RegsOf[c][i]
      BY <1>2, <2>2, <3>1
    <3> QED
      BY <2>1, <2>2, <3>1, <3>2, <3>3
  <2> QED
    BY <2>3, <2>4
<1> QED
  BY <1>3, <1>4, ReturnEffect

\* A step that leaves the polls alone and puts nothing on the bus keeps OnlyMine
\* and the parts about the values.
LEMMA PollKept ==
    ASSUME IInv, UNCHANGED <<meas, values, allOK, busVars, doubtful>>,
           \A c \in Channels : /\ pc'[c] = "wait" => pc[c] = "wait"
                               /\ pc'[c] = "save" <=> pc[c] = "save"
    PROVE  OnlyMine' /\ ReadingIsOwn' /\ Progress'
  BY DEF IInv, OnlyMine, ReadingIsOwn, Progress, Tried, Reg

\* Frames keep their order and lose their first when one is read.
LEMMA TailMine ==
    ASSUME NEW S, NEW s \in Seq(S), s # <<>>
    PROVE  /\ Tail(s) \in Seq(S)
           /\ Head(s) = s[1] /\ Head(s) \in S /\ 1 \in 1..Len(s)
           /\ \A i \in 1..Len(Tail(s)) : i + 1 \in 1..Len(s) /\ Tail(s)[i] = s[i + 1]
<1>1. Len(s) \in Nat /\ Len(s) # 0
  BY EmptySeq, LenProperties
<1> QED
  BY <1>1, HeadTailProperties

\* A read of the channels in the domain of rcs that returns without a value
\* keeps the invariant; frames may have been lost from the front or altogether.
LEMMA ReturnEmpty ==
    ASSUME IInv, NEW rcs, Return(rcs), UNCHANGED <<values, cancelled, pending>>,
           \A c \in DOMAIN rcs : rcs[c] # "OK" /\ pc[c] # "save",
           \/ rx' = rx
           \/ rx' = <<>>
           \/ rx # <<>> /\ rx' = Tail(rx)
    PROVE  IInv'
<1> USE DEF IInv
<1>1. /\ rx' \in Seq(Frames)
      /\ \A i \in 1..Len(rx') : \E j \in 1..Len(rx) : rx'[i] = rx[j]
  <2>1. rx \in Seq(Frames)
    BY DEF TypeOK
  <2>2. CASE rx' = rx
    BY <2>1, <2>2
  <2>3. CASE rx' = <<>>
    BY <2>3
  <2>4. CASE rx # <<>> /\ rx' = Tail(rx)
    <3>1. /\ Tail(rx) \in Seq(Frames)
          /\ \A i \in 1..Len(Tail(rx)) :
                i + 1 \in 1..Len(rx) /\ Tail(rx)[i] = rx[i + 1]
      BY <2>1, <2>4, TailMine
    <3> QED
      BY <2>4, <3>1
  <2> QED
    BY <2>2, <2>3, <2>4
<1>2. TypeOK'
  BY <1>1, ReturnTypes DEF TypeOK
<1>3. OnlyMine'
  <2> SUFFICES ASSUME NEW c \in Channels, pc'[c] = "wait", ~doubtful'[c]
               PROVE  /\ \A i \in 1..Len(pending[SlaveOf[c]]) :
                            pending[SlaveOf[c]][i] = Reg(c)'
                      /\ \A i \in 1..Len(rx') :
                            rx'[i].kind = "data" /\ rx'[i].slave = SlaveOf[c]
                              => rx'[i].reg = Reg(c)'
    BY DEF OnlyMine
  <2>1. /\ pc[c] = "wait" /\ ~doubtful[c] /\ meas'[c] = meas[c]
    BY ReturnEffect
  <2>2. Reg(c)' = Reg(c)
    BY <2>1 DEF Reg
  <2> QED
    BY <2>1, <2>2, <1>1 DEF OnlyMine
<1>4. ReadingIsOwn'
  BY DEF ReadingIsOwn
<1>5. Progress'
  <2> SUFFICES ASSUME NEW c \in Channels
        PROVE  /\ \A v \in values'[c] : \E i \in 1..Tried(c)' : v.reg = RegsOf[c][i]
               /\ allOK'[c] <=> \A i \in 1..Tried(c)' :
                                   \E v \in values'[c] : v.reg = RegsOf[c][i]
    BY DEF Progress
  <2>1. CASE c \in DOMAIN rcs
    BY <2>1, ReturnProgress
  <2>2. CASE c \notin DOMAIN rcs
    <3>1. /\ Tried(c)' = Tried(c) /\ values'[c] = values[c]
          /\ allOK'[c] <=> allOK[c]
      BY <2>2, ReturnEffect DEF Tried
    <3> QED
      BY <3>1 DEF Progress
  <2> QED
    BY <2>1, <2>2
<1> QED
  BY <1>2, <1>3, <1>4, <1>5

\* The invariant holds at the start.
LEMMA IInvInit == Init => IInv
<1> SUFFICES ASSUME Init PROVE IInv
  OBVIOUS
<1>1. TypeOK
  <2>1. ASSUME NEW c \in Channels PROVE 1 \in 1..Len(RegsOf[c])
    BY ChannelFacts
  <2>2. 0 \in 0..Attempts - 1
    BY PollAssumption
  <2>3. pending \in [Slaves -> Seq(Regs)] /\ rx \in Seq(Frames)
    BY DEF Init
  <2>4. /\ meas \in [Channels -> Nat]
        /\ \A c \in Channels : meas[c] \in 1..Len(RegsOf[c])
    BY <2>1 DEF Init
  <2>5. /\ pc \in [Channels -> Pcs]
        /\ attempt \in [Channels -> 0..Attempts - 1]
        /\ allOK \in [Channels -> BOOLEAN] /\ cancelled \in BOOLEAN
        /\ doubtful \in [Channels -> BOOLEAN]
        /\ values \in [Channels -> SUBSET [reg : Regs, slave : Slaves, got : Regs,
                                           doubtful : BOOLEAN]]
    BY <2>2 DEF Init, Pcs
  <2> QED
    BY <2>3, <2>4, <2>5 DEF TypeOK
<1> QED
  BY <1>1 DEF IInv, Init, OnlyMine, ReadingIsOwn, Progress, Tried

\* The ticker, the context and the end of a goroutine touch neither the values
\* nor the bus.
LEMMA OuterSteps ==
    ASSUME IInv,
           \/ \E c \in Channels : StartPoll(c) \/ CloseChannel(c)
           \/ Cancel \/ AllClosed \/ UNCHANGED vars
    PROVE  IInv'
<1>1. TypeOK'
  BY DEF IInv, TypeOK, StartPoll, CloseChannel, Cancel, AllClosed, vars, Pcs
<1>2. /\ UNCHANGED <<meas, values, allOK, busVars, doubtful>>
      /\ \A c \in Channels : /\ pc'[c] = "wait" => pc[c] = "wait"
                             /\ pc'[c] = "save" <=> pc[c] = "save"
  BY DEF IInv, TypeOK, StartPoll, CloseChannel, Cancel, AllClosed, vars
<1> QED
  BY <1>1, <1>2, PollKept DEF IInv

\* The end of pollOnce starts the next poll from nothing.
LEMMA EndPollKeeps ==
    ASSUME IInv, NEW c \in Channels, EndPoll(c)
    PROVE  IInv'
<1> USE DEF IInv
<1>1. TypeOK'
  <2>1. 1 \in 1..Len(RegsOf[c]) /\ 0 \in 0..Attempts - 1
    BY ChannelFacts, PollAssumption
  <2> QED
    BY <2>1 DEF TypeOK, EndPoll, Pcs
<1>2. OnlyMine' /\ ReadingIsOwn'
  BY DEF TypeOK, EndPoll, OnlyMine, ReadingIsOwn, Reg
<1>3. Progress'
  <2> SUFFICES ASSUME NEW d \in Channels
        PROVE  /\ \A v \in values'[d] : \E i \in 1..Tried(d)' : v.reg = RegsOf[d][i]
               /\ allOK'[d] <=> \A i \in 1..Tried(d)' :
                                   \E v \in values'[d] : v.reg = RegsOf[d][i]
    BY DEF Progress
  <2>1. CASE d = c
    <3>1. values'[d] = {} /\ allOK'[d] /\ Tried(d)' = 0
      BY <2>1 DEF TypeOK, EndPoll, Tried
    <3> QED
      BY <3>1
  <2>2. CASE d # c
    <3>1. /\ Tried(d)' = Tried(d) /\ values'[d] = values[d]
          /\ allOK'[d] <=> allOK[d]
      BY <2>2 DEF TypeOK, EndPoll, Tried
    <3> QED
      BY <3>1 DEF Progress
  <2> QED
    BY <2>1, <2>2
<1> QED
  BY <1>1, <1>2, <1>3

\* A request empties the buffer; whoever else waits for the same slave, or finds
\* it busy, is in doubt from then on.
LEMMA SendKeeps ==
    ASSUME IInv, NEW c \in Channels, SendRequest(c)
    PROVE  IInv'
<1> USE DEF IInv
<1> DEFINE s == SlaveOf[c]
           q == Append(pending[s], Reg(c))
<1>1. /\ s \in Slaves /\ Reg(c) \in Regs /\ pending[s] \in Seq(Regs)
      /\ rx' = <<>> /\ pending' = [pending EXCEPT ![s] = q]
      /\ pc[c] = "ask" /\ pc' = [pc EXCEPT ![c] = "wait"]
      /\ UNCHANGED <<meas, attempt, values, allOK, cancelled>>
  BY ChannelFacts DEF TypeOK, SendRequest, Reg
<1>2. q \in Seq(Regs) /\ (pending[s] = <<>> => Len(q) = 1 /\ q[1] = Reg(c))
  BY <1>1, AppendProperties, EmptySeq
<1>3. TypeOK'
  <2>1. doubtful' \in [Channels -> BOOLEAN]
    BY DEF SendRequest, TypeOK
  <2>2. pending' \in [Slaves -> Seq(Regs)] /\ rx' \in Seq(Frames)
    BY <1>1, <1>2 DEF TypeOK
  <2> QED
    BY <1>1, <2>1, <2>2 DEF TypeOK, Pcs
<1>4. OnlyMine'
  <2> SUFFICES ASSUME NEW d \in Channels, pc'[d] = "wait", ~doubtful'[d]
               PROVE  \A i \in 1..Len(pending'[SlaveOf[d]]) :
                         pending'[SlaveOf[d]][i] = Reg(d)'
    BY <1>1 DEF OnlyMine
  <2>1. Reg(d)' = Reg(d) /\ SlaveOf[d] \in Slaves
    BY <1>1, ChannelFacts DEF Reg
  <2>2. CASE d = c
    <3>1. pending[s] = <<>>
      BY <2>2 DEF SendRequest
    <3> QED
      BY <1>1, <1>2, <2>1, <2>2, <3>1 DEF TypeOK
  <2>3. CASE d # c
    <3>1. pc[d] = "wait"
      BY <1>1, <2>3 DEF TypeOK
    <3>2. SlaveOf[d] # s /\ ~doubtful[d]
      BY <2>3, <3>1 DEF SendRequest
    <3> QED
      BY <1>1, <2>1, <3>1, <3>2 DEF OnlyMine, TypeOK
  <2> QED
    BY <2>2, <2>3
<1>5. ReadingIsOwn' /\ Progress'
  <2>1. \A d \in Channels : Tried(d)' = Tried(d)
    BY <1>1 DEF Tried, TypeOK
  <2> QED
    BY <1>1, <2>1 DEF ReadingIsOwn, Progress
<1> QED
  BY <1>3, <1>4, <1>5

\* Reads that return without a value.
LEMMA EmptyReads ==
    ASSUME IInv, NEW c \in Channels,
           \/ SendFails(c) \/ ReadFails(c) \/ ReadTimesOut(c)
           \/ \E d \in Channels : TornFrame(c, d)
    PROVE  IInv'
<1>1. CASE SendFails(c)
  BY <1>1, ReturnEmpty DEF SendFails
<1>2. CASE ReadFails(c)
  BY <1>2, ReturnEmpty DEF ReadFails
<1>3. CASE ReadTimesOut(c)
  BY <1>3, ReturnEmpty DEF ReadTimesOut
<1>4. ASSUME NEW d \in Channels, TornFrame(c, d) PROVE IInv'
  <2>1. PICK rcs \in [{c, d} -> {"CRC", "TIMEOUT"}] : Return(rcs)
    BY <1>4 DEF TornFrame
  <2>2. \A e \in DOMAIN rcs : rcs[e] # "OK" /\ pc[e] # "save"
    BY <1>4, <2>1 DEF TornFrame
  <2> QED
    BY <1>4, <2>1, <2>2, ReturnEmpty DEF TornFrame
<1> QED
  BY <1>1, <1>2, <1>3, <1>4

\* A frame that is accepted is of the channel's own slave, and answers the
\* channel's request unless the channel is in doubt.
LEMMA ReadFrameKeeps ==
    ASSUME IInv, NEW c \in Channels, ReadFrame(c)
    PROVE  IInv'
<1> USE DEF IInv
<1> DEFINE f == Head(rx)
           rcs == [d \in {c} |-> Outcome(c, f)]
           w == [reg |-> Reg(c), slave |-> f.slave, got |-> f.reg,
                 doubtful |-> doubtful[c]]
<1>1. /\ pc[c] = "wait" /\ rx # <<>> /\ Return(rcs) /\ rx' = Tail(rx)
      /\ UNCHANGED <<cancelled, pending>>
      /\ DOMAIN rcs = {c} /\ rcs[c] = Outcome(c, f)
  BY DEF ReadFrame
<1>2. CASE Outcome(c, f) # "OK"
  <2>1. values' = values
    BY <1>2 DEF ReadFrame
  <2> QED
    BY <1>1, <1>2, <2>1, ReturnEmpty
<1>3. CASE Outcome(c, f) = "OK"
  <2>1. values' = [values EXCEPT ![c] = @ \cup {w}]
    BY <1>3 DEF ReadFrame
  <2>2. /\ rx \in Seq(Frames) /\ f = rx[1] /\ f \in Frames /\ 1 \in 1..Len(rx)
        /\ Tail(rx) \in Seq(Frames)
        /\ \A i \in 1..Len(Tail(rx)) :
              i + 1 \in 1..Len(rx) /\ Tail(rx)[i] = rx[i + 1]
    BY <1>1, TailMine DEF TypeOK
  <2>3. f.kind = "data" /\ f.slave = SlaveOf[c] /\ f.slave \in Slaves /\ f.reg \in Regs
    BY <1>3, <2>2 DEF Outcome, Frames
  <2>4. f.reg = Reg(c) \/ doubtful[c]
    BY <1>1, <2>2, <2>3 DEF OnlyMine
  <2>5. w \in [reg : Regs, slave : Slaves, got : Regs, doubtful : BOOLEAN]
    BY <2>3, ChannelFacts DEF TypeOK, Reg
  <2>6. TypeOK'
    <3>1. values' \in [Channels -> SUBSET [reg : Regs, slave : Slaves, got : Regs,
                                          doubtful : BOOLEAN]]
      BY <2>1, <2>5 DEF TypeOK
    <3> QED
      BY <1>1, <2>2, <3>1, ReturnTypes DEF TypeOK
  <2>7. OnlyMine'
    <3> SUFFICES ASSUME NEW d \in Channels, pc'[d] = "wait", ~doubtful'[d]
                 PROVE  /\ \A i \in 1..Len(pending[SlaveOf[d]]) :
                              pending[SlaveOf[d]][i] = Reg(d)'
                        /\ \A i \in 1..Len(rx') :
                              rx'[i].kind = "data" /\ rx'[i].slave = SlaveOf[d]
                                => rx'[i].reg = Reg(d)'
      BY <1>1 DEF OnlyMine
    <3>1. pc[d] = "wait" /\ ~doubtful[d] /\ meas'[d] = meas[d]
      BY <1>1, ReturnEffect
    <3>2. Reg(d)' = Reg(d)
      BY <3>1 DEF Reg
    <3> QED
      BY <1>1, <2>2, <3>1, <3>2 DEF OnlyMine
  <2>8. ReadingIsOwn'
    BY <2>1, <2>3, <2>4 DEF ReadingIsOwn, TypeOK
  <2>9. Progress'
    <3> SUFFICES ASSUME NEW d \in Channels
          PROVE  /\ \A v \in values'[d] : \E i \in 1..Tried(d)' : v.reg = RegsOf[d][i]
                 /\ allOK'[d] <=> \A i \in 1..Tried(d)' :
                                     \E v \in values'[d] : v.reg = RegsOf[d][i]
      BY DEF Progress
    <3>1. CASE d = c
      <4>1. w.reg = Reg(d) /\ values'[d] = values[d] \cup {w}
        BY <2>1, <3>1 DEF TypeOK
      <4>2. /\ Return(rcs) /\ d \in DOMAIN rcs /\ rcs[d] = "OK"
            /\ pc[d] # "save"
            /\ \E x : x.reg = Reg(d) /\ values'[d] = values[d] \cup {x}
        BY <1>1, <1>3, <3>1, <4>1
      <4> HIDE DEF rcs
      <4> QED
        BY <4>2, ReturnProgress
    <3>2. CASE d # c
      <4>1. /\ Tried(d)' = Tried(d) /\ values'[d] = values[d]
            /\ allOK'[d] <=> allOK[d]
        BY <1>1, <2>1, <3>2, ReturnEffect DEF Tried, TypeOK
      <4> QED
        BY <4>1 DEF Progress
    <3> QED
      BY <3>1, <3>2
  <2> QED
    BY <2>6, <2>7, <2>8, <2>9
<1> QED
  BY <1>2, <1>3

\* What a slave puts on the bus answers a request it was asked.
LEMMA SlaveKeeps ==
    ASSUME IInv, NEW s \in Slaves, SlaveAnswers(s) \/ SlaveSilent(s)
    PROVE  IInv'
<1> USE DEF IInv
<1> DEFINE data == [kind |-> "data", slave |-> s, reg |-> Head(pending[s])]
<1>1. /\ pending[s] \in Seq(Regs) /\ pending[s] # <<>> /\ rx \in Seq(Frames)
      /\ pending' = [pending EXCEPT ![s] = Tail(@)]
      /\ UNCHANGED <<pollVars, cancelled, doubtful>>
  BY DEF SlaveAnswers, SlaveSilent, TypeOK
<1>2. /\ Tail(pending[s]) \in Seq(Regs) /\ Head(pending[s]) \in Regs
      /\ Head(pending[s]) = pending[s][1] /\ 1 \in 1..Len(pending[s])
      /\ \A i \in 1..Len(Tail(pending[s])) :
            i + 1 \in 1..Len(pending[s]) /\ Tail(pending[s])[i] = pending[s][i + 1]
  BY <1>1, TailMine
<1>3. \/ rx' = rx
      \/ \E f \in Frames : rx' = Append(rx, f) /\ (f.kind = "data" => f = data)
  <2>1. CASE SlaveSilent(s)
    BY <2>1 DEF SlaveSilent
  <2>2. CASE SlaveAnswers(s)
    <3>1. PICK f \in {data, [kind |-> "exception"], [kind |-> "damaged"]} :
            rx' = Append(rx, f)
      BY <2>2 DEF SlaveAnswers
    <3>2. f \in Frames /\ (f.kind = "data" => f = data)
      BY <1>2, <3>1 DEF Frames
    <3> QED
      BY <3>1, <3>2
  <2> QED
    BY <2>1, <2>2
<1>4. /\ rx' \in Seq(Frames)
      /\ \A i \in 1..Len(rx') :
            \/ i \in 1..Len(rx) /\ rx'[i] = rx[i]
            \/ rx'[i].kind = "data" => rx'[i] = data
  <2>1. CASE rx' = rx
    BY <1>1, <2>1
  <2>2. ASSUME NEW f \in Frames, rx' = Append(rx, f), f.kind = "data" => f = data
        PROVE  <1>4!1 /\ <1>4!2
    <3>1. /\ Append(rx, f) \in Seq(Frames)
          /\ Len(Append(rx, f)) = Len(rx) + 1 /\ Len(rx) \in Nat
          /\ \A i \in 1..Len(rx) : Append(rx, f)[i] = rx[i]
          /\ Append(rx, f)[Len(rx) + 1] = f
      BY <1>1, AppendProperties, LenProperties
    <3> QED
      BY <2>2, <3>1
  <2> QED
    BY <1>3, <2>1, <2>2
<1>5. TypeOK'
  BY <1>1, <1>2, <1>4 DEF TypeOK
<1>6. OnlyMine'
  <2> SUFFICES ASSUME NEW c \in Channels, pc[c] = "wait", ~doubtful[c]
               PROVE  /\ \A i \in 1..Len(pending'[SlaveOf[c]]) :
                            pending'[SlaveOf[c]][i] = Reg(c)
                      /\ \A i \in 1..Len(rx') :
                            rx'[i].kind = "data" /\ rx'[i].slave = SlaveOf[c]
                              => rx'[i].reg = Reg(c)
    BY <1>1 DEF OnlyMine, Reg
  <2>1. /\ \A i \in 1..Len(pending[SlaveOf[c]]) : pending[SlaveOf[c]][i] = Reg(c)
        /\ \A i \in 1..Len(rx) : rx[i].kind = "data" /\ rx[i].slave = SlaveOf[c]
                                   => rx[i].reg = Reg(c)
    BY DEF OnlyMine
  <2>2. SlaveOf[c] = s => Head(pending[s]) = Reg(c)
    BY <1>2, <2>1
  <2>3. \A i \in 1..Len(pending'[SlaveOf[c]]) : pending'[SlaveOf[c]][i] = Reg(c)
    <3>1. CASE SlaveOf[c] = s
      <4>1. pending'[s] = Tail(pending[s])
        BY <1>1 DEF TypeOK
      <4> QED
        BY <1>2, <2>1, <3>1, <4>1
    <3>2. CASE SlaveOf[c] # s
      BY <1>1, <2>1, <3>2, ChannelFacts DEF TypeOK
    <3> QED
      BY <3>1, <3>2
  <2> QED
    BY <1>4, <2>1, <2>2, <2>3
<1>7. ReadingIsOwn' /\ Progress'
  BY <1>1 DEF ReadingIsOwn, Progress, Tried
<1> QED
  BY <1>5, <1>6, <1>7

\* IInv is inductive.
LEMMA IInvStep == IInv /\ [Next]_vars => IInv'
  BY OuterSteps, EndPollKeeps, SendKeeps, EmptyReads, ReadFrameKeeps, SlaveKeeps
     DEF Next, ChannelStep

\* The inductive invariant holds throughout.
THEOREM InductiveInvariant == Spec => []IInv
  BY IInvInit, IInvStep, PTL DEF Spec

\* The variables of the polls, the slaves and the bus keep their types.
THEOREM TypeCorrect == Spec => []TypeOK
  BY InductiveInvariant, PTL DEF IInv

\* However many channels share the bus, and in whatever order their requests,
\* answers and flushes happen: a value that is reported came from the channel's
\* own slave, and is that of its register unless the slave had another request
\* to answer.
THEOREM ReadingIsOwnHolds == Spec => []ReadingIsOwn
  BY InductiveInvariant, PTL DEF IInv

\* SetSensorHealth is told TRUE exactly if every measurement of the profile has
\* a value, for every profile and number of attempts.
THEOREM GoodPollIsCompleteHolds == Spec => []GoodPollIsComplete
<1>1. IInv => GoodPollIsComplete
  BY DEF IInv, Progress, Tried, GoodPollIsComplete
<1> QED
  BY <1>1, InductiveInvariant, PTL
===============================================================================
