------------------------------ MODULE SensorPoll ------------------------------
(***************************************************************************)
(* The polling of Modbus sensors: one goroutine per channel runs pollOnce  *)
(* (gateway/internal/sensor/sensor.go) and reads its registers one after   *)
(* the other with gw_rs485_modbus_read (hal/src/rs485.c).                  *)
(*                                                                         *)
(* Every channel opens the serial device itself, and the sample            *)
(* configuration puts all of them on one adapter: they share the bus and   *)
(* its input buffer, and no lock orders their requests.  The answer of a   *)
(* slave names the slave, the function and the length, not the register.   *)
(*                                                                         *)
(* All reads are one register long with function code 3, as in the         *)
(* profiles of the repository, so frames are told apart by slave only.     *)
(* The value of a register stands for itself; scale, offset and quality    *)
(* are left out.  Publishing the values is in the modules Presence and     *)
(* LocalQueue; the table sensor_health, which records whether polls were   *)
(* good, is read by no program and left out.                               *)
(***************************************************************************)
EXTENDS Naturals, Sequences

CONSTANTS Channels,   \* sensor channels with an open descriptor on the bus
          SlaveOf,    \* [Channels -> slave ids]: slave_id
          RegsOf,     \* [Channels -> Seq(registers)]: the profile's measurements
          Attempts,   \* reads tried per measurement (3 in the code)
          MaxPending, \* bound: requests a slave has not answered yet
          MaxFrames   \* bound: frames in the input buffer

ASSUME PollAssumption ==
    /\ \A c \in Channels :
          /\ c \in DOMAIN SlaveOf
          /\ Len(RegsOf[c]) \in Nat \ {0}
          \* A register stands for the measurement that is read from it.
          /\ \A i, j \in 1..Len(RegsOf[c]) : RegsOf[c][i] = RegsOf[c][j] => i = j
    /\ Attempts \in Nat \ {0}
    /\ MaxPending \in Nat
    /\ MaxFrames \in Nat

VARIABLES
    pc,        \* [Channels -> Pcs]: where the goroutine of the channel is
    meas,      \* [Channels -> Nat]: index of the measurement being read
    attempt,   \* [Channels -> Nat]: reads of it that have failed
    values,    \* [Channels -> set of readings]: what this poll has accepted
    allOK,     \* [Channels -> BOOLEAN]
    cancelled, \* BOOLEAN: main has cancelled the context
    pending,   \* [Slaves -> Seq(registers)]: requests not answered yet
    rx         \* the input buffer of the adapter, a sequence of frames
\* History, read by no action of the code.
VARIABLE
    doubtful   \* [Channels -> BOOLEAN]: the channel waits, and its slave has had
               \* another request to answer meanwhile

pollVars == <<pc, meas, attempt, values, allOK>>
busVars  == <<pending, rx>>
vars == <<pollVars, cancelled, busVars, doubtful>>

Slaves == {SlaveOf[c] : c \in Channels}
Regs   == UNION {{RegsOf[c][i] : i \in 1..Len(RegsOf[c])} : c \in Channels}

Pcs == {"select", "ask", "wait", "save", "closed"}

\* An answer with data; what it is for is known to the slave alone.  An
\* exception and a damaged frame carry nothing.
Frames == [kind : {"data"}, slave : Slaves, reg : Regs]
            \cup [kind : {"exception", "damaged"}]

\* The register a channel is asking for.
Reg(c) == RegsOf[c][meas[c]]

Init ==
    /\ pc = [c \in Channels |-> "select"]
    /\ meas = [c \in Channels |-> 1]
    /\ attempt = [c \in Channels |-> 0]
    /\ values = [c \in Channels |-> {}]
    /\ allOK = [c \in Channels |-> TRUE]
    /\ cancelled = FALSE
    /\ pending = [s \in Slaves |-> <<>>]
    /\ rx = <<>>
    /\ doubtful = [c \in Channels |-> FALSE]
-------------------------------------------------------------------------------
(* pollOnce *)

\* The ticker fires.
StartPoll(c) ==
    /\ pc[c] = "select"
    /\ pc' = [pc EXCEPT ![c] = "ask"]
    /\ UNCHANGED <<meas, attempt, values, allOK, cancelled, busVars, doubtful>>

\* Whether pollOnce reads again after n reads, the last of which returned rc.
Retried(rc, n) == rc # "TIMEOUT" /\ n < Attempts

\* Mutant of Failed: the poll counts as good when its last measurement is.
FailedLast(c, rc) == meas[c] = Len(RegsOf[c]) /\ rc # "OK"

\* The measurement is given up: allOK becomes FALSE.
Failed(c, rc) == rc # "OK"

\* The reads of the channels in the domain of rcs return: again, the next
\* measurement, or the end of the loop.
Return(rcs) ==
    LET Back  == DOMAIN rcs
        again == {c \in Back : rcs[c] # "OK" /\ Retried(rcs[c], attempt[c] + 1)}
        more  == {c \in Back \ again : meas[c] < Len(RegsOf[c])}
    IN  /\ pc' = [c \in Channels |->
                    CASE c \in again \cup more -> "ask"
                      [] c \in Back \ (again \cup more) -> "save"
                      [] OTHER -> pc[c]]
        /\ meas' = [c \in Channels |-> IF c \in more THEN meas[c] + 1 ELSE meas[c]]
        /\ attempt' = [c \in Channels |-> CASE c \in again -> attempt[c] + 1
                                             [] c \in more -> 0
                                             [] OTHER -> attempt[c]]
        /\ allOK' = [c \in Channels |->
                       allOK[c] /\ ~(c \in Back \ again /\ Failed(c, rcs[c]))]
        /\ doubtful' = [c \in Channels |-> doubtful[c] /\ c \notin Back]

\* The end of pollOnce: SetSensorHealth is told allOK, the values are published,
\* and the variables of the call are gone.
EndPoll(c) ==
    /\ pc[c] = "save"
    /\ pc' = [pc EXCEPT ![c] = "select"]
    /\ meas' = [meas EXCEPT ![c] = 1]
    /\ attempt' = [attempt EXCEPT ![c] = 0]
    /\ values' = [values EXCEPT ![c] = {}]
    /\ allOK' = [allOK EXCEPT ![c] = TRUE]
    /\ UNCHANGED <<cancelled, busVars, doubtful>>

Cancel ==
    /\ ~cancelled
    /\ cancelled' = TRUE
    /\ UNCHANGED <<pollVars, busVars, doubtful>>

\* runChannel sees ctx.Done and returns; RS485Close.
CloseChannel(c) ==
    /\ cancelled
    /\ pc[c] = "select"
    /\ pc' = [pc EXCEPT ![c] = "closed"]
    /\ UNCHANGED <<meas, attempt, values, allOK, cancelled, busVars, doubtful>>
-------------------------------------------------------------------------------
(* gw_rs485_modbus_read *)

\* tcflush discards what has arrived, for whomever it was; then the request is
\* written.  An answer to an earlier request may still be on its way: one that comes
\* between the two calls comes after this step.  (It is never INVALID: the
\* descriptor is open, and the schema of the profiles has function codes 3 and 4 and
\* lengths from 1 to 125.)
SendRequest(c) ==
    LET s == SlaveOf[c] IN
    /\ pc[c] = "ask"
    /\ Len(pending[s]) < MaxPending
    /\ pc' = [pc EXCEPT ![c] = "wait"]
    /\ rx' = <<>>
    /\ pending' = [pending EXCEPT ![s] = Append(@, Reg(c))]
    /\ doubtful' = [d \in Channels |->
                      CASE d = c -> pending[s] # <<>>
                        [] d # c /\ SlaveOf[d] = s -> pc[d] = "wait"
                        [] OTHER -> doubtful[d]]
    /\ UNCHANGED <<meas, attempt, values, allOK, cancelled>>

\* The write fails or is short, after the flush.
SendFails(c) ==
    /\ pc[c] = "ask"
    /\ rx' = <<>>
    /\ Return([d \in {c} |-> "IO"])
    /\ UNCHANGED <<values, cancelled, pending>>

\* Mutant of Outcome: the slave address of the answer is not compared.
OutcomeOfAny(c, f) ==
    CASE f.kind = "damaged"   -> "CRC"
      [] f.kind = "exception" -> "IO"
      [] OTHER                -> "OK"

\* What the read returns for frame f; an exception is not checked for its slave.
Outcome(c, f) ==
    CASE f.kind = "damaged"   -> "CRC"
      [] f.kind = "exception" -> "IO"
      [] f.kind = "data"      -> IF f.slave = SlaveOf[c] THEN "OK" ELSE "CRC"

\* The channel reads a whole frame; pollOnce appends the value of a good one.
ReadFrame(c) ==
    /\ pc[c] = "wait"
    /\ rx # <<>>
    /\ LET f  == Head(rx)
           rc == Outcome(c, f)
       IN  /\ Return([d \in {c} |-> rc])
           /\ values' = IF rc # "OK" THEN values
                        ELSE [values EXCEPT ![c] = @ \cup
                               {[reg |-> Reg(c), slave |-> f.slave,
                                 got |-> f.reg, doubtful |-> doubtful[c]]}]
    /\ rx' = Tail(rx)
    /\ UNCHANGED <<cancelled, pending>>

\* Two channels read bytes of the same frame: garbage, or too few, for each.
TornFrame(c, d) ==
    /\ c # d
    /\ pc[c] = "wait"
    /\ pc[d] = "wait"
    /\ rx # <<>>
    /\ rx' = Tail(rx)
    /\ \E rcs \in [{c, d} -> {"CRC", "TIMEOUT"}] : Return(rcs)
    /\ UNCHANGED <<values, cancelled, pending>>

\* select or read reports an error, or read finds that another descriptor has
\* taken the bytes.
ReadFails(c) ==
    /\ pc[c] = "wait"
    /\ Return([d \in {c} |-> "IO"])
    /\ UNCHANGED <<values, cancelled, busVars>>

\* Mutant of ReadTimesOut: select is called without a timeout.
ReadBlocks(c) == FALSE

\* 200 ms without a byte.
ReadTimesOut(c) ==
    /\ pc[c] = "wait"
    /\ rx = <<>>
    /\ Return([d \in {c} |-> "TIMEOUT"])
    /\ UNCHANGED <<values, cancelled, busVars>>
-------------------------------------------------------------------------------
(* the slaves *)

\* A slave answers its oldest request, whoever still waits for it.
SlaveAnswers(s) ==
    /\ pending[s] # <<>>
    /\ Len(rx) < MaxFrames
    /\ \E f \in {[kind |-> "data", slave |-> s, reg |-> Head(pending[s])],
                 [kind |-> "exception"], [kind |-> "damaged"]} :
          rx' = Append(rx, f)
    /\ pending' = [pending EXCEPT ![s] = Tail(@)]
    /\ UNCHANGED <<pollVars, cancelled, doubtful>>

\* The slave is off, or the request collided with another on the bus.
SlaveSilent(s) ==
    /\ pending[s] # <<>>
    /\ pending' = [pending EXCEPT ![s] = Tail(@)]
    /\ UNCHANGED <<pollVars, cancelled, rx, doubtful>>
-------------------------------------------------------------------------------
ChannelStep(c) ==
    \/ StartPoll(c) \/ EndPoll(c) \/ CloseChannel(c)
    \/ SendRequest(c) \/ SendFails(c)
    \/ ReadFrame(c) \/ ReadFails(c) \/ ReadTimesOut(c)
    \/ \E d \in Channels : TornFrame(c, d)

AllClosed == (\A c \in Channels : pc[c] = "closed") /\ UNCHANGED vars

Next ==
    \/ \E c \in Channels : ChannelStep(c)
    \/ \E s \in Slaves : SlaveAnswers(s) \/ SlaveSilent(s)
    \/ Cancel
    \/ AllClosed

Spec == Init /\ [][Next]_vars

\* A goroutine inside a poll goes on: a read gets a frame or times out.  A select
\* that finds the context cancelled time and again takes that branch.  A request
\* does not stay with its slave for ever, but no slave has to answer.
Fairness ==
    /\ \A c \in Channels :
          /\ WF_vars(SendRequest(c))
          /\ WF_vars(ReadFrame(c) \/ ReadTimesOut(c))
          /\ WF_vars(EndPoll(c))
          /\ SF_vars(CloseChannel(c))
    /\ \A s \in Slaves : WF_vars(SlaveAnswers(s) \/ SlaveSilent(s))

FairSpec == Spec /\ Fairness
-------------------------------------------------------------------------------
(* Properties *)

\* Type invariant.
TypeOK ==
    /\ pc \in [Channels -> Pcs]
    /\ meas \in [Channels -> Nat]
    /\ \A c \in Channels : meas[c] \in 1..Len(RegsOf[c])
    /\ attempt \in [Channels -> 0..Attempts - 1]
    /\ values \in [Channels -> SUBSET [reg : Regs, slave : Slaves, got : Regs,
                                      doubtful : BOOLEAN]]
    /\ allOK \in [Channels -> BOOLEAN]
    /\ cancelled \in BOOLEAN
    /\ pending \in [Slaves -> Seq(Regs)]
    /\ rx \in Seq(Frames)
    /\ doubtful \in [Channels -> BOOLEAN]

\* A value that pollOnce reports for a register came from the channel's own
\* slave, whatever the channels on the bus read of each other's answers; and it
\* is the value of that register, unless the slave still had another request to
\* answer, since a late answer does not say which register it is for.
ReadingIsOwn ==
    \A c \in Channels : \A v \in values[c] :
        /\ v.slave = SlaveOf[c]
        /\ v.got = v.reg \/ v.doubtful

\* What SetSensorHealth is told: the poll was good exactly if every measurement
\* of the profile has a value in the telemetry message, through retries,
\* timeouts, foreign and torn frames.
GoodPollIsComplete ==
    \A c \in Channels : pc[c] = "save" =>
        (allOK[c] <=> \A i \in 1..Len(RegsOf[c]) :
                         \E v \in values[c] : v.reg = RegsOf[c][i])

\* Once main cancels the context every channel's goroutine ends, and main's
\* wg.Wait with it, even if no slave ever answers again and the channels keep
\* taking each other's bytes.
CancelEndsPolling ==
    cancelled ~> \A c \in Channels : pc[c] = "closed"
-------------------------------------------------------------------------------
(* The inductive invariant behind ReadingIsOwn and GoodPollIsComplete. *)

\* While a channel waits and its slave has had nothing else to answer, every
\* request with the slave and every answer of it on the bus is for the register
\* the channel asked for.
OnlyMine ==
    \A c \in Channels : pc[c] = "wait" /\ ~doubtful[c] =>
        /\ \A i \in 1..Len(pending[SlaveOf[c]]) : pending[SlaveOf[c]][i] = Reg(c)
        /\ \A i \in 1..Len(rx) :
              rx[i].kind = "data" /\ rx[i].slave = SlaveOf[c]
                => rx[i].reg = Reg(c)

\* The measurements of a poll that have been read or given up.
Tried(c) == IF pc[c] = "save" THEN Len(RegsOf[c]) ELSE meas[c] - 1

\* The values of a poll are values of measurements that were tried, and allOK
\* says whether each of those has one.
Progress ==
    \A c \in Channels :
        /\ \A v \in values[c] : \E i \in 1..Tried(c) : v.reg = RegsOf[c][i]
        /\ allOK[c] <=> \A i \in 1..Tried(c) :
                           \E v \in values[c] : v.reg = RegsOf[c][i]

\* Why an accepted frame is the channel's own, and allOK honest.
IInv == TypeOK /\ OnlyMine /\ ReadingIsOwn /\ Progress
===============================================================================
