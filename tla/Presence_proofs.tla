--------------------------- MODULE Presence_proofs ---------------------------
(***************************************************************************)
(* Proofs about Presence, for every threshold Old and every bound: IInv is *)
(* inductive, and last_seen_at is never later than the last contact.       *)
(***************************************************************************)
EXTENDS Presence, TLAPS

(* Ages *)

\* A tick keeps an age within its range and the order of two ages.
LEMMA OlderType ==
    ASSUME NEW a \in 0..Old
    PROVE  Older(a) \in 0..Old
BY PresenceAssumption DEF Older

LEMMA OlderMonotone ==
    ASSUME NEW a \in 0..Old, NEW b \in 0..Old, a >= b
    PROVE  Older(a) >= Older(b)
BY PresenceAssumption DEF Older

\* What a tick does to a message.
LEMMA AgedMsg ==
    ASSUME NEW m \in Msgs
    PROVE  /\ Aged(m) \in Msgs
           /\ Aged(m).kind = m.kind
           /\ m.kind \in Stamped => Aged(m).age = Older(m.age) /\ m.age \in 0..Old
<1>1. CASE m \in [kind : Stamped, age : 0..Old]
  <2>1. m.kind \in Stamped /\ m.age \in 0..Old
    BY <1>1
  <2>2. Aged(m) = [kind |-> m.kind, age |-> Older(m.age)]
    BY <1>1, <2>1 DEF Aged
  <2> QED
    BY <2>1, <2>2, OlderType DEF Msgs
<1>2. CASE m \in [kind : Unstamped, age : {0}]
  <2>1. m.kind \notin Stamped
    BY <1>2 DEF Stamped, Unstamped
  <2> QED
    BY <2>1 DEF Aged
<1> QED
  BY <1>1, <1>2 DEF Msgs

\* The same for what a handler holds.
LEMMA AgedJob ==
    ASSUME NEW j \in Jobs
    PROVE  /\ Aged(j) \in Jobs
           /\ Aged(j).kind = j.kind
           /\ j.kind \in Stamped => Aged(j).age = Older(j.age) /\ j.age \in 0..Old
<1>1. CASE j \in [kind : Stamped, age : 0..Old, seen : Statuses]
  <2>1. j.kind \in Stamped /\ j.age \in 0..Old /\ j.seen \in Statuses
    BY <1>1
  <2>2. Aged(j) = [kind |-> j.kind, age |-> Older(j.age), seen |-> j.seen]
    BY <1>1, <2>1 DEF Aged
  <2> QED
    BY <2>1, <2>2, OlderType DEF Jobs
<1>2. CASE j \in [kind : Unstamped, age : {0}, seen : Statuses]
  <2>1. j.kind \notin Stamped
    BY <1>2 DEF Stamped, Unstamped
  <2> QED
    BY <2>1 DEF Aged
<1> QED
  BY <1>1, <1>2 DEF Jobs

\* A message just published is of the type, and as young as can be.
LEMMA MsgType ==
    ASSUME NEW k \in Stamped \cup Unstamped
    PROVE  Msg(k) \in Msgs /\ Msg(k).age = 0 /\ Msg(k).kind = k
BY PresenceAssumption DEF Msg, Msgs
-------------------------------------------------------------------------------
(* Messages under way *)

\* A message or a job that is not younger than c; a queue of such messages.
NotYounger(m, c) == m.kind \in Stamped => m.age >= c

WireOK(w, c) ==
    /\ w \in Seq(Msgs)
    /\ \A i \in 1..Len(w) : NotYounger(w[i], c)

\* Routing a message adds at most that message.
LEMMA WireRoute ==
    ASSUME NEW c \in 0..Old, NEW m \in Msgs, NotYounger(m, c),
           WireOK(wire, c), Route(m)
    PROVE  WireOK(wire', c)
<1>1. CASE worker = "up"
  BY <1>1 DEF Route, WireOK
<1>2. CASE worker # "up"
  BY <1>2 DEF Route, WireOK
<1> QED
  BY <1>1, <1>2

\* What the worker takes off the queue, and what it leaves.
LEMMA WireTake ==
    ASSUME NEW c \in 0..Old, NEW w, WireOK(w, c), w # <<>>
    PROVE  Head(w) \in Msgs /\ NotYounger(Head(w), c) /\ WireOK(Tail(w), c)
BY DEF WireOK

LEMMA WireEmpty ==
    ASSUME NEW c \in 0..Old
    PROVE  WireOK(<<>>, c)
BY DEF WireOK

LEMMA WireSingle ==
    ASSUME NEW c \in 0..Old, NEW m \in Msgs, NotYounger(m, c)
    PROVE  WireOK(<<m>>, c)
BY DEF WireOK

\* Everything is at least 0 old.
LEMMA NotYoungerThanZero ==
    ASSUME NEW m \in Msgs \cup Jobs \cup {NoMsg, NoJob}
    PROVE  NotYounger(m, 0)
BY PresenceAssumption DEF NotYounger, Msgs, Jobs, NoMsg, NoJob, Stamped, Unstamped

LEMMA WireZero ==
    ASSUME NEW w \in Seq(Msgs)
    PROVE  WireOK(w, 0)
BY NotYoungerThanZero DEF WireOK

\* A tick ages the queue with the contact.
LEMMA WireTick ==
    ASSUME NEW c \in 0..Old, NEW w, WireOK(w, c)
    PROVE  /\ [i \in 1..Len(w) |-> Aged(w[i])] \in Seq(Msgs)
           /\ WireOK([i \in 1..Len(w) |-> Aged(w[i])], Older(c))
<1> DEFINE v == [i \in 1..Len(w) |-> Aged(w[i])]
<1>1. \A i \in 1..Len(w) : w[i] \in Msgs /\ NotYounger(w[i], c)
  BY DEF WireOK
<1>2. \A i \in 1..Len(w) : Aged(w[i]) \in Msgs
  BY <1>1, AgedMsg
<1>3. v \in Seq(Msgs) /\ Len(v) = Len(w)
  BY <1>2 DEF WireOK
<1>4. \A i \in 1..Len(v) : NotYounger(v[i], Older(c))
  <2> SUFFICES ASSUME NEW i \in 1..Len(w), Aged(w[i]).kind \in Stamped
               PROVE  Aged(w[i]).age >= Older(c)
    BY <1>3 DEF NotYounger
  <2> QED
    BY <1>1, AgedMsg, OlderMonotone DEF NotYounger
<1> QED
  BY <1>3, <1>4 DEF WireOK
-------------------------------------------------------------------------------
(* The inductive invariant *)

LEMMA InitInv == Init => IInv
<1> SUFFICES ASSUME Init PROVE IInv
  OBVIOUS
<1>1. AgentTypeOK
  BY DEF Init, AgentTypeOK
<1>2. BrokerTypeOK
  <2>1. <<>> \in Seq(Msgs)
    OBVIOUS
  <2> QED
    BY <2>1, Zenon DEF Init, BrokerTypeOK
<1>3. ServerTypeOK
  BY PresenceAssumption DEF Init, ServerTypeOK, Statuses
<1>4. NoYounger
  BY DEF Init, NoYounger, NoMsg, NoJob, Stamped
<1>5. contact \in 0..Old /\ LastSeenIsContact
  BY PresenceAssumption DEF Init, LastSeenIsContact
<1>6. TypeOK
  BY <1>1, <1>2, <1>3, <1>5, Zenon DEF Init, TypeOK
<1>7. session = FALSE /\ link # "up"
  BY DEF Init
<1> QED
  BY <1>4, <1>5, <1>6, <1>7, Zenon DEF IInv

\* What the invariant says of the messages, in terms of the lemmas above.
LEMMA FromIInv ==
    ASSUME IInv
    PROVE  /\ contact \in 0..Old /\ last_seen \in 0..Old
           /\ WireOK(wire, contact)
           /\ NotYounger(retained, contact) /\ NotYounger(job, contact)
BY DEF IInv, TypeOK, BrokerTypeOK, ServerTypeOK, NoYounger, WireOK, NotYounger

\* The invariant from its parts.
LEMMA ToIInv ==
    ASSUME TypeOK', link' = "up" => session', session' => contact' = 0,
           WireOK(wire', contact'), NotYounger(retained', contact'),
           NotYounger(job', contact'), ~byWill' => last_seen' >= contact'
    PROVE  IInv'
BY DEF IInv, NoYounger, WireOK, NotYounger, LastSeenIsContact

\* A step of the gateway process alone.
LEMMA AgentStep ==
    ASSUME IInv, AgentTypeOK', link' = "up" => session, crossed' \in BOOLEAN,
           UNCHANGED <<brokerVars, serverVars, contact, byWill>>
    PROVE  IInv'
<1> USE DEF brokerVars, serverVars
<1>1. BrokerTypeOK' /\ ServerTypeOK'
  BY DEF IInv, TypeOK, BrokerTypeOK, ServerTypeOK
<1>2. TypeOK'
  BY <1>1 DEF IInv, TypeOK
<1> QED
  BY <1>2, FromIInv, ToIInv DEF IInv, LastSeenIsContact

\* A step of the gateway or the broker in which m is published, retained or not,
\* and which changes nothing of the server.
LEMMA PublishStep ==
    ASSUME IInv, NEW m \in Msgs, NotYounger(m, contact),
           Route(m) \/ UNCHANGED wire,
           retained' = m \/ UNCHANGED retained,
           AgentTypeOK', session' \in BOOLEAN,
           session' => session, link' = "up" => session',
           UNCHANGED <<serverVars, histVars>>
    PROVE  IInv'
<1> USE DEF serverVars, histVars
<1>1. WireOK(wire', contact)
  BY FromIInv, WireRoute
<1>2. NotYounger(retained', contact)
  BY FromIInv
<1>3. BrokerTypeOK'
  BY <1>1 DEF IInv, TypeOK, BrokerTypeOK, WireOK
<1>4. ServerTypeOK'
  BY DEF IInv, TypeOK, ServerTypeOK
<1>5. TypeOK'
  BY <1>3, <1>4 DEF IInv, TypeOK
<1> QED
  BY <1>1, <1>2, <1>5, FromIInv, ToIInv DEF IInv, LastSeenIsContact

\* Messages of the agent are new, and it is connected when it publishes.
LEMMA AgentPublishes ==
    ASSUME IInv, NEW k \in Stamped \cup Unstamped,
           k \in Stamped => link = "up"
    PROVE  Msg(k) \in Msgs /\ NotYounger(Msg(k), contact)
BY MsgType, FromIInv DEF IInv, NotYounger

\* PublishState is a publish or nothing.
LEMMA PublishStateStep ==
    ASSUME IInv, NEW k \in Stamped \cup Unstamped, PublishState(k),
           AgentTypeOK', link' = link,
           UNCHANGED <<session, serverVars, histVars>>
    PROVE  IInv'
<1>1. CASE IsConnected
  <2>1. Msg(k) \in Msgs /\ NotYounger(Msg(k), contact)
    BY <1>1, AgentPublishes DEF IsConnected
  <2> QED
    BY <1>1, <2>1, PublishStep
       DEF PublishState, PublishRetained, IInv, TypeOK, BrokerTypeOK
<1>2. CASE ~IsConnected
  <2>1. UNCHANGED <<retained, wire>>
    BY <1>2 DEF PublishState
  <2>2. crossed' \in BOOLEAN
    BY DEF IInv, TypeOK, histVars
  <2> QED
    BY <2>1, <2>2, AgentStep DEF brokerVars, histVars, IInv
<1> QED
  BY <1>1, <1>2

\* A CONNECT that is accepted is a contact, so that every age will do.
LEMMA AcceptStep ==
    ASSUME IInv, Accept, agent' \in {"setup", agent},
           UNCHANGED <<connected, hook, serverVars, byWill, crossed>>
    PROVE  IInv'
<1> USE DEF serverVars
<1>1. /\ link' = "up" /\ session' = TRUE /\ contact' = 0
      /\ callbacks' = [callbacks EXCEPT !["connect"] = @ + 1]
  BY DEF Accept, Spawn
<1>2. AgentTypeOK'
  <2>1. callbacks' \in [Callbacks -> Nat]
    BY <1>1 DEF IInv, TypeOK, AgentTypeOK, Callbacks
  <2>2. agent' \in {"off", "setup", "running", "stopping", "draining", "closing"}
    BY DEF IInv, TypeOK, AgentTypeOK
  <2> QED
    BY <1>1, <2>1, <2>2, Zenon DEF IInv, TypeOK, AgentTypeOK
<1>3. Msg("lwt") \in Msgs /\ NotYounger(Msg("lwt"), contact)
  BY AgentPublishes DEF Stamped, Unstamped
<1>4. wire' \in Seq(Msgs) /\ retained' \in Msgs \cup {NoMsg}
  <2>1. CASE session
    BY <2>1, <1>3, FromIInv, WireRoute DEF Accept, PublishRetained, WireOK
  <2>2. CASE ~session
    BY <2>2 DEF Accept, IInv, TypeOK, BrokerTypeOK
  <2> QED
    BY <2>1, <2>2
<1>5. BrokerTypeOK'
  BY <1>1, <1>4, Zenon DEF BrokerTypeOK
<1>6. ServerTypeOK'
  BY DEF IInv, TypeOK, ServerTypeOK
<1>7. TypeOK'
  <2>1. contact' \in 0..Old
    BY <1>1, PresenceAssumption
  <2> QED
    BY <1>2, <1>5, <1>6, <2>1, Zenon DEF IInv, TypeOK
<1>8. WireOK(wire', 0) /\ NotYounger(retained', 0) /\ NotYounger(job', 0)
  BY <1>4, <1>6, WireZero, NotYoungerThanZero DEF ServerTypeOK
<1>9. last_seen' >= 0
  BY <1>6 DEF ServerTypeOK
<1> QED
  BY <1>1, <1>7, <1>8, <1>9, ToIInv

\* The handler takes the message with its age.
LEMMA WorkerReadsStep == IInv /\ WorkerReads => IInv'
<1> SUFFICES ASSUME IInv, WorkerReads PROVE IInv'
  OBVIOUS
<1> USE DEF agentVars, histVars
<1>1. /\ wire # <<>> /\ wire' = Tail(wire)
      /\ job' = [kind |-> Head(wire).kind, age |-> Head(wire).age, seen |-> status]
      /\ UNCHANGED <<agent, link, connected, hook, callbacks, session, retained,
                     worker, status, last_seen, faults, contact, byWill,
                     crossed>>
  BY DEF WorkerReads
<1>2. /\ Head(wire) \in Msgs /\ NotYounger(Head(wire), contact)
      /\ WireOK(wire', contact)
  BY <1>1, FromIInv, WireTake
<1>3. status \in Statuses
  BY DEF IInv, TypeOK, ServerTypeOK
<1>4. job' \in Jobs /\ NotYounger(job', contact)
  BY <1>1, <1>2, <1>3 DEF Msgs, Jobs, NotYounger
<1>5. AgentTypeOK' /\ BrokerTypeOK' /\ ServerTypeOK'
  <2>1. AgentTypeOK'
    BY <1>1, Zenon DEF IInv, TypeOK, AgentTypeOK
  <2>2. BrokerTypeOK'
    BY <1>1, <1>2, Zenon DEF IInv, TypeOK, BrokerTypeOK, WireOK
  <2>3. ServerTypeOK'
    BY <1>1, <1>4 DEF IInv, TypeOK, ServerTypeOK
  <2> QED
    BY <2>1, <2>2, <2>3
<1>6. TypeOK'
  BY <1>1, <1>5, Zenon DEF IInv, TypeOK
<1> QED
  BY <1>1, <1>2, <1>4, <1>6, FromIInv, ToIInv DEF IInv, LastSeenIsContact

\* The commit: last_seen_at becomes the age of the message, or is that of a last
\* will.
LEMMA WorkerCommitsStep == IInv /\ WorkerCommits => IInv'
<1> SUFFICES ASSUME IInv, WorkerCommits PROVE IInv'
  OBVIOUS
<1> USE DEF agentVars, brokerVars
<1>1. /\ job # NoJob /\ job' = NoJob
      /\ last_seen' = NewLastSeen
      /\ byWill' = (job.kind = "lwt" \/ (byWill /\ job.kind \notin Stamped))
      /\ status' \in {status, NewStatus(job.kind, job.seen)}
      /\ UNCHANGED <<agent, link, connected, hook, callbacks, session, retained,
                     wire, worker, faults, contact, crossed>>
  BY DEF WorkerCommits
<1>2. job \in Jobs
  BY <1>1 DEF IInv, TypeOK, ServerTypeOK
<1>3. /\ job.kind \in Stamped \cup Unstamped /\ job.seen \in Statuses
      /\ job.kind \in Stamped => job.age \in 0..Old
  BY <1>2 DEF Jobs, Stamped, Unstamped
<1>4. status' \in Statuses
  <2>1. NewStatus(job.kind, job.seen) \in Statuses
    BY <1>3 DEF NewStatus, Statuses, Stamped, Unstamped
  <2> QED
    BY <1>1, <2>1 DEF IInv, TypeOK, ServerTypeOK
<1>5. last_seen' \in 0..Old
  BY <1>1, <1>3, FromIInv, PresenceAssumption DEF NewLastSeen
<1>6. ~byWill' => last_seen' >= contact
  BY <1>1, <1>3, FromIInv DEF NewLastSeen, NotYounger, IInv, LastSeenIsContact
<1>7. byWill' \in BOOLEAN
  BY <1>1, Zenon DEF IInv, TypeOK
<1>8. AgentTypeOK' /\ BrokerTypeOK' /\ ServerTypeOK'
  <2>1. AgentTypeOK' /\ BrokerTypeOK'
    BY <1>1, Zenon DEF IInv, TypeOK, AgentTypeOK, BrokerTypeOK
  <2>2. ServerTypeOK'
    BY <1>1, <1>4, <1>5 DEF IInv, TypeOK, ServerTypeOK
  <2> QED
    BY <2>1, <2>2
<1>9. TypeOK'
  BY <1>1, <1>7, <1>8, Zenon DEF IInv, TypeOK
<1>10. NotYounger(job', contact)
  BY <1>1 DEF NotYounger, NoJob, Stamped
<1> QED
  BY <1>1, <1>6, <1>9, <1>10, FromIInv, ToIInv DEF IInv

\* A step that forgets the job, or the messages under way, or delivers the
\* retained one again: failures and restarts of the worker.
LEMMA WorkerFaultStep ==
    ASSUME IInv, job' \in {job, NoJob}, worker' \in {"up", "zombie"},
           faults' \in 0..MaxFaults,
           wire' \in {wire, <<>>} \/ (retained # NoMsg /\ wire' = <<retained>>),
           UNCHANGED <<agentVars, session, retained, status, last_seen, histVars>>
    PROVE  IInv'
<1> USE DEF agentVars, histVars
<1>1. WireOK(wire', contact)
  <2>1. CASE retained # NoMsg /\ wire' = <<retained>>
    BY <2>1, FromIInv, WireSingle DEF IInv, TypeOK, BrokerTypeOK
  <2>2. CASE wire' \in {wire, <<>>}
    BY <2>2, FromIInv, WireEmpty
  <2> QED
    BY <2>1, <2>2
<1>2. NotYounger(job', contact)
  BY FromIInv DEF NotYounger, NoJob, Stamped
<1>3. AgentTypeOK' /\ BrokerTypeOK' /\ ServerTypeOK'
  <2>1. AgentTypeOK'
    BY Zenon DEF IInv, TypeOK, AgentTypeOK
  <2>2. BrokerTypeOK'
    BY <1>1, Zenon DEF IInv, TypeOK, BrokerTypeOK, WireOK
  <2>3. ServerTypeOK'
    BY DEF IInv, TypeOK, ServerTypeOK
  <2> QED
    BY <2>1, <2>2, <2>3
<1>4. TypeOK'
  BY <1>3, Zenon DEF IInv, TypeOK
<1> QED
  BY <1>1, <1>2, <1>4, FromIInv, ToIInv DEF IInv, LastSeenIsContact

\* Time passes: every age grows with the contact, or the contact is now.
LEMMA TickStep == IInv /\ Tick => IInv'
<1> SUFFICES ASSUME IInv, Tick PROVE IInv'
  OBVIOUS
<1> USE DEF agentVars
<1>1. /\ retained' = Aged(retained) /\ job' = Aged(job)
      /\ wire' = [i \in 1..Len(wire) |-> Aged(wire[i])]
      /\ last_seen' = Older(last_seen)
      /\ contact' = IF session THEN 0 ELSE Older(contact)
      /\ UNCHANGED <<agent, link, connected, hook, callbacks, session, worker,
                     status, faults, byWill, crossed>>
  BY DEF Tick
<1> DEFINE c == Older(contact)
<1>2. c \in 0..Old /\ last_seen' \in 0..Old /\ contact' \in 0..Old
  BY <1>1, FromIInv, OlderType, PresenceAssumption
<1>3. wire' \in Seq(Msgs) /\ WireOK(wire', c)
  BY <1>1, FromIInv, WireTick
<1>4. retained' \in Msgs \cup {NoMsg} /\ NotYounger(retained', c)
  <2>1. CASE retained \in Msgs
    BY <1>1, <2>1, FromIInv, AgedMsg, OlderMonotone DEF NotYounger
  <2>2. CASE retained = NoMsg
    BY <1>1, <2>2 DEF Aged, NoMsg, NotYounger, Stamped
  <2> QED
    BY <2>1, <2>2 DEF IInv, TypeOK, BrokerTypeOK
<1>5. job' \in Jobs \cup {NoJob} /\ NotYounger(job', c)
  <2>1. CASE job \in Jobs
    BY <1>1, <2>1, FromIInv, AgedJob, OlderMonotone DEF NotYounger
  <2>2. CASE job = NoJob
    BY <1>1, <2>2 DEF Aged, NoJob, NotYounger, Stamped
  <2> QED
    BY <2>1, <2>2 DEF IInv, TypeOK, ServerTypeOK
<1>6. ~byWill' => last_seen' >= c
  BY <1>1, FromIInv, OlderMonotone DEF IInv, LastSeenIsContact
<1>7. AgentTypeOK' /\ BrokerTypeOK' /\ ServerTypeOK'
  <2>1. AgentTypeOK'
    BY <1>1, Zenon DEF IInv, TypeOK, AgentTypeOK
  <2>2. BrokerTypeOK'
    BY <1>1, <1>3, <1>4, Zenon DEF IInv, TypeOK, BrokerTypeOK
  <2>3. ServerTypeOK'
    BY <1>1, <1>2, <1>5 DEF IInv, TypeOK, ServerTypeOK
  <2> QED
    BY <2>1, <2>2, <2>3
<1>8. TypeOK'
  BY <1>1, <1>2, <1>7, Zenon DEF IInv, TypeOK
<1>9. CASE session
  <2>1. contact' = 0
    BY <1>1, <1>9
  <2>2. WireOK(wire', 0) /\ NotYounger(retained', 0) /\ NotYounger(job', 0)
    BY <1>3, <1>4, <1>5, WireZero, NotYoungerThanZero
  <2> QED
    BY <1>1, <1>2, <1>8, <2>1, <2>2, ToIInv DEF IInv
<1>10. CASE ~session
  <2>1. contact' = c
    BY <1>1, <1>10
  <2> QED
    BY <1>1, <1>3, <1>4, <1>5, <1>6, <1>8, <1>10, <2>1, ToIInv DEF IInv
<1> QED
  BY <1>9, <1>10

\* Every step keeps the invariant.
LEMMA NextInv == IInv /\ [Next]_vars => IInv'
<1> SUFFICES ASSUME IInv, [Next]_vars PROVE IInv'
  OBVIOUS
<1>0. /\ AgentTypeOK /\ session \in BOOLEAN /\ crossed \in BOOLEAN
      /\ faults \in 0..MaxFaults /\ worker \in {"up", "zombie"}
      /\ link = "up" => session
  BY DEF IInv, TypeOK, BrokerTypeOK, ServerTypeOK
<1>1. ASSUME UNCHANGED vars PROVE IInv'
  <2>1. AgentTypeOK' /\ link' = link /\ crossed' = crossed
    BY <1>0, <1>1, Zenon DEF vars, agentVars, histVars, AgentTypeOK
  <2> QED
    BY <1>0, <1>1, <2>1, AgentStep DEF vars, histVars
<1>2. ASSUME ConnectOK \/ Reconnect PROVE IInv'
  BY <1>2, AcceptStep DEF ConnectOK, Reconnect
<1>3. ASSUME ConnectFails \/ StartGoroutines \/ SetHook \/ Signal PROVE IInv'
  <2>1. AgentTypeOK' /\ link' = link /\ crossed' = crossed
    BY <1>0, <1>3 DEF ConnectFails, StartGoroutines, SetHook, Signal, histVars, AgentTypeOK
  <2> QED
    BY <1>0, <1>3, <2>1, AgentStep
       DEF ConnectFails, StartGoroutines, SetHook, Signal, histVars
<1>4. ASSUME LinkLost PROVE IInv'
  <2>1. AgentTypeOK'
    BY <1>0, <1>4 DEF LinkLost, Spawn, AgentTypeOK, Callbacks
  <2> QED
    BY <1>0, <1>4, <2>1, AgentStep DEF LinkLost, histVars
<1>5. ASSUME ConnectCallback \/ LostCallback PROVE IInv'
  <2>1. callbacks' \in [Callbacks -> Nat]
    BY <1>0, <1>5 DEF ConnectCallback, LostCallback, AgentTypeOK, Callbacks
  <2>2. AgentTypeOK' /\ link' = link /\ crossed' \in BOOLEAN
    BY <1>0, <1>5, <2>1, Zenon DEF ConnectCallback, LostCallback, AgentTypeOK
  <2> QED
    BY <1>0, <1>5, <2>2, AgentStep DEF ConnectCallback, LostCallback
<1>6. ASSUME PublishOnline PROVE IInv'
  <2>1. callbacks' \in [Callbacks -> Nat]
    BY <1>0, <1>6 DEF PublishOnline, AgentTypeOK, Callbacks
  <2>2. AgentTypeOK' /\ link' = link
    BY <1>0, <1>6, <2>1, Zenon DEF PublishOnline, AgentTypeOK
  <2> QED
    BY <1>6, <2>2, PublishStateStep DEF PublishOnline, Stamped
<1>7. ASSUME HealthStops \/ DisconnectPublishes PROVE IInv'
  <2>1. AgentTypeOK' /\ link' = link
    BY <1>0, <1>7 DEF HealthStops, DisconnectPublishes, AgentTypeOK
  <2> QED
    BY <1>7, <2>1, PublishStateStep
       DEF HealthStops, DisconnectPublishes, Unstamped
<1>8. ASSUME Heartbeat \/ Telemetry PROVE IInv'
  <2>1. PICK k \in {"heartbeat", "telemetry"} : Route(Msg(k))
    BY <1>8 DEF Heartbeat, Telemetry
  <2>2. Msg(k) \in Msgs /\ NotYounger(Msg(k), contact)
    BY <1>8, <2>1, AgentPublishes DEF Heartbeat, Telemetry, IsConnected, Stamped
  <2>3. /\ link' = link /\ UNCHANGED <<session, retained, serverVars, histVars>>
        /\ UNCHANGED agentVars
    BY <1>8 DEF Heartbeat, Telemetry, agentVars
  <2>4. AgentTypeOK'
    BY <1>0, <2>3, Zenon DEF agentVars, AgentTypeOK
  <2> QED
    BY <1>0, <2>1, <2>2, <2>3, <2>4, PublishStep
<1>9. ASSUME BrokerDetectsLoss PROVE IInv'
  <2>1. Msg("lwt") \in Msgs /\ NotYounger(Msg("lwt"), contact)
    BY AgentPublishes DEF Stamped, Unstamped
  <2>2. /\ link' = link /\ link # "up" /\ session' = FALSE
        /\ UNCHANGED <<agentVars, serverVars, histVars>>
    BY <1>9 DEF BrokerDetectsLoss, agentVars
  <2>3. AgentTypeOK'
    BY <1>0, <2>2, Zenon DEF agentVars, AgentTypeOK
  <2> QED
    BY <1>9, <2>1, <2>2, <2>3, PublishStep DEF BrokerDetectsLoss, PublishRetained
<1>10. ASSUME DisconnectCloses \/ Crash PROVE IInv'
  <2>1. AgentTypeOK' /\ link' = "none"
    <3>1. Gone
      BY <1>10, Zenon DEF DisconnectCloses, Crash
    <3>2. callbacks' \in [Callbacks -> Nat]
      BY <3>1 DEF Gone
    <3> QED
      BY <3>1, <3>2, Zenon DEF Gone, AgentTypeOK
  <2>2. CASE Crash
    BY <1>0, <2>1, <2>2, AgentStep DEF Crash, histVars
  <2>3. CASE DisconnectCloses
    <3>1. session' \in BOOLEAN /\ (session' => session)
      BY <1>0, <2>3, Zenon DEF DisconnectCloses
    <3>2. Msg("lwt") \in Msgs /\ NotYounger(Msg("lwt"), contact)
      BY AgentPublishes DEF Stamped, Unstamped
    <3> QED
      BY <2>1, <2>3, <3>1, <3>2, PublishStep DEF DisconnectCloses
  <2> QED
    BY <1>10, <2>2, <2>3
<1>11. ASSUME WorkerFails \/ WorkerLosesBroker \/ WorkerRestarts PROVE IInv'
  <2>1. faults' \in 0..MaxFaults
    BY <1>0, <1>11, PresenceAssumption
       DEF WorkerFails, WorkerLosesBroker, WorkerRestarts
  <2> QED
    BY <1>0, <1>11, <2>1, WorkerFaultStep
       DEF WorkerFails, WorkerLosesBroker, WorkerRestarts, brokerVars
<1>12. ASSUME OfflineDetector PROVE IInv'
  <2>1. AgentTypeOK' /\ BrokerTypeOK'
    BY <1>12, Zenon DEF OfflineDetector, agentVars, brokerVars, IInv, TypeOK,
       AgentTypeOK, BrokerTypeOK
  <2>2. ServerTypeOK'
    BY <1>12 DEF OfflineDetector, IInv, TypeOK, ServerTypeOK, Statuses
  <2>3. TypeOK'
    BY <1>12, <2>1, <2>2, Zenon DEF OfflineDetector, histVars, IInv, TypeOK
  <2> QED
    BY <1>12, <2>3, FromIInv, ToIInv
       DEF OfflineDetector, agentVars, brokerVars, histVars, IInv, LastSeenIsContact
<1> QED
  BY <1>1, <1>2, <1>3, <1>4, <1>5, <1>6, <1>7, <1>8, <1>9, <1>10, <1>11, <1>12,
     WorkerReadsStep, WorkerCommitsStep, TickStep DEF Next

\* The inductive invariant holds in every reachable state.
THEOREM InductiveInvariant == Spec => []IInv
  BY InitInv, NextInv, PTL DEF Spec

\* The variables of the gateway, the broker and the server keep their types,
\* whatever is delivered late, twice or not at all.
THEOREM TypeCorrect == Spec => []TypeOK
<1>1. IInv => TypeOK
  BY DEF IInv
<1> QED
  BY <1>1, InductiveInvariant, PTL

\* Except for a last will, the worker's handlers never move last_seen_at past the
\* last moment at which the broker held a session of the gateway.
THEOREM LastSeenIsContactHolds == Spec => []LastSeenIsContact
<1>1. IInv => LastSeenIsContact
  BY DEF IInv
<1> QED
  BY <1>1, InductiveInvariant, PTL
===============================================================================
