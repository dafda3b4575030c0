---------------------------- MODULE Server_proofs -----------------------------
(***************************************************************************)
(* The server's processes, for every value of the constants:               *)
(*                                                                         *)
(*  - commands: what a row of commands says of a command is true;          *)
(*  - the event loop of the backend: a withdrawn key is served for the     *)
(*    time of the cache and of one fetch at most, a refusal has a cause,   *)
(*    and the watchdog is late by three bursts at most;                    *)
(*  - systemd: a process that is ready is connected, and the starts of a   *)
(*    unit are too far apart for systemd to give it up.                    *)
(***************************************************************************)
EXTENDS CommandLifecycle, Auth, Services, SequenceTheorems, TLAPS
-------------------------------------------------------------------------------
(* commands: CommandLifecycle *)

\* NoJob has no field msg: it is not a job.
LEMMA JobsDiffer ==
    \A j \in [phase : {"read"}, msg : Response, seen : Statuses] : j # NoJob
  BY DEF NoJob

\* Initially there is nothing.
LEMMA IInvInit == Init => IInv
  BY LifecycleAssumption
  DEF Init, IInv, TypeOK, NothingBeforeInsert, AnswersTrue, AnswersStored,
      ExecutedIsReal, StatusMatchesResponse, SettledIsComplete, ApiPcs,
      Statuses, Answers, Settled

\* The steps of issue_command.
LEMMA BackendSteps ==
    ASSUME IInv, NEW c \in Commands,
           \/ InsertPending(c) \/ PublishRequest(c) \/ PublishFails(c)
           \/ CommitPublished(c) \/ CommitFails(c)
    PROVE  IInv'
<1> USE LifecycleAssumption
    DEF IInv, TypeOK, NothingBeforeInsert, AnswersTrue, AnswersStored,
        ExecutedIsReal, StatusMatchesResponse, SettledIsComplete, ApiPcs,
        Statuses, Answers, Settled
<1>1. CASE InsertPending(c)
  BY <1>1 DEF InsertPending
<1>2. CASE PublishRequest(c) \/ PublishFails(c) \/ CommitFails(c)
  BY <1>2 DEF PublishRequest, PublishFails, CommitFails
<1>3. CASE CommitPublished(c)
  BY <1>3 DEF CommitPublished
<1> QED
  BY <1>1, <1>2, <1>3

\* Execution, refusal and stray answers only add messages.
LEMMA GatewaySteps ==
    ASSUME IInv, NEW c \in Commands,
           \/ GatewayExecutes(c) \/ GatewayRefuses(c)
           \/ \E g \in Gateways, s \in Answers : StrayResponse(c, g, s)
    PROVE  IInv'
<1> USE LifecycleAssumption
    DEF IInv, TypeOK, NothingBeforeInsert, AnswersTrue, AnswersStored,
        ExecutedIsReal, StatusMatchesResponse, SettledIsComplete, Response,
        Statuses, Answers, Settled
<1>1. CASE GatewayExecutes(c)
  BY <1>1 DEF GatewayExecutes, Answer, Keep
<1>2. CASE GatewayRefuses(c)
  BY <1>2 DEF GatewayRefuses, Answer, Keep
<1>3. ASSUME NEW g \in Gateways, NEW s \in Answers, StrayResponse(c, g, s)
      PROVE  IInv'
  BY <1>3 DEF StrayResponse
<1> QED
  BY <1>1, <1>2, <1>3

\* The worker reads a row and writes it.
LEMMA WorkerSteps ==
    ASSUME IInv,
           \/ \E m \in responses : WorkerReads(m)
           \/ WorkerCommits \/ WorkerFails
    PROVE  IInv'
<1> USE LifecycleAssumption, JobsDiffer
    DEF IInv, TypeOK, NothingBeforeInsert, AnswersTrue, AnswersStored,
        ExecutedIsReal, StatusMatchesResponse, SettledIsComplete, Response,
        Statuses, Answers, Settled
<1>1. ASSUME NEW m \in responses, WorkerReads(m) PROVE IInv'
  BY <1>1 DEF WorkerReads, FromOwnGateway, Keep
<1>2. CASE WorkerCommits
  <2> DEFINE c == job.msg.command
             s == job.msg.status
  <2>1. /\ job # NoJob
        /\ job \in [phase : {"read"}, msg : Response, seen : Statuses]
        /\ c \in Commands /\ s \in Answers /\ s # "none"
    BY <1>2 DEF WorkerCommits
  <2>2. /\ status' = IF s # job.seen THEN [status EXCEPT ![c] = s] ELSE status
        /\ response' = [response EXCEPT ![c] = s]
        /\ completed' = completed \cup {c}
        /\ job' = NoJob
        /\ UNCHANGED <<api, requests, responses, expired, gwExpired, effects,
                       lateCommit>>
    BY <1>2 DEF WorkerCommits
  <2>3. /\ response'[c] = s
        /\ c \notin lateCommit => status'[c] = s
        /\ status'[c] \in Answers => status'[c] = s
    BY <2>1, <2>2
  <2>4. \A d \in Commands \ {c} : status'[d] = status[d] /\ response'[d] = response[d]
    BY <2>1, <2>2
  <2>5. TypeOK'
    BY <2>1, <2>2
  <2>6. NothingBeforeInsert'
    BY <2>1, <2>2, <2>4
  <2>7. AnswersTrue'
    BY <2>2
  <2>8. AnswersStored' /\ StatusMatchesResponse'
    BY <2>1, <2>2, <2>3, <2>4
  <2>9. ExecutedIsReal'
    BY <2>1, <2>2, <2>3, <2>4
  <2>10. SettledIsComplete'
    BY <2>1, <2>2, <2>3, <2>4
  <2> QED
    BY <2>5, <2>6, <2>7, <2>8, <2>9, <2>10
<1>3. CASE WorkerFails
  BY <1>3 DEF WorkerFails
<1> QED
  BY <1>1, <1>2, <1>3

\* The timeout sweep and the clocks.
LEMMA ClockSteps ==
    ASSUME IInv,
           \/ CommandTimeout \/ UNCHANGED vars
           \/ \E c \in Commands : ServerClock(c) \/ GatewayClock(c)
    PROVE  IInv'
<1> USE LifecycleAssumption
    DEF IInv, TypeOK, NothingBeforeInsert, AnswersTrue, AnswersStored,
        ExecutedIsReal, StatusMatchesResponse, SettledIsComplete,
        Statuses, Answers, Settled
<1>1. CASE CommandTimeout
  <2>1. /\ UNCHANGED <<api, response, requests, responses, job, expired,
                       gwExpired, effects, lateCommit>>
        /\ completed' = completed \cup TimedOut
        /\ TimedOut \subseteq Commands
        /\ status' \in [Commands -> Statuses]
    BY <1>1 DEF CommandTimeout, TimedOut
  <2>2. \A d \in Commands :
           \/ status'[d] = status[d]
           \/ /\ status[d] \in {"pending", "published"}
              /\ status'[d] = "timeout"
              /\ d \in TimedOut /\ d \in expired
    BY <1>1 DEF CommandTimeout, TimedOut
  <2>3. TypeOK'
    BY <2>1
  <2>4. NothingBeforeInsert' /\ AnswersTrue'
    BY <2>1, <2>2
  <2>5. AnswersStored'
    <3>1. \A d \in Commands : status'[d] \in Answers => response'[d] = status'[d]
      BY <2>1, <2>2
    <3>2. job # NoJob =>
            /\ job \in [phase : {"read"}, msg : Response, seen : Statuses]
            /\ job.msg.command \in Commands
      BY DEF Response
    <3> QED
      BY <2>1, <2>2, <3>1, <3>2
  <2>6. StatusMatchesResponse'
    BY <2>1, <2>2
  <2>7. ExecutedIsReal' /\ SettledIsComplete'
    BY <2>1, <2>2
  <2> QED
    BY <2>3, <2>4, <2>5, <2>6, <2>7
<1>2. CASE UNCHANGED vars
  BY <1>2 DEF vars
<1>3. ASSUME NEW c \in Commands, ServerClock(c) \/ GatewayClock(c) PROVE IInv'
  BY <1>3 DEF ServerClock, GatewayClock
<1> QED
  BY <1>1, <1>2, <1>3

\* The inductive invariant holds in every state.
THEOREM InductiveInvariant == Spec => []IInv
<1>1. IInv /\ [Next]_vars => IInv'
  BY BackendSteps, GatewaySteps, WorkerSteps, ClockSteps DEF Next
<1> QED
  BY IInvInit, <1>1, PTL DEF Spec

\* Backend, worker, gateways and clocks keep their types for any number of commands.
THEOREM TypeCorrect == Spec => []TypeOK
  BY InductiveInvariant, PTL DEF IInv

\* Any number of commands and gateways: "executed" in a row is never invented.
THEOREM ExecutedIsRealHolds == Spec => []ExecutedIsReal
  BY InductiveInvariant, PTL DEF IInv

\* Any number of commands: only the backend's late "published" parts the status
\* from the stored response.
THEOREM StatusMatchesResponseHolds == Spec => []StatusMatchesResponse
  BY InductiveInvariant, PTL DEF IInv

\* A settled row is complete, and a timed-out one had expired.
THEOREM SettledIsCompleteHolds == Spec => []SettledIsComplete
  BY InductiveInvariant, PTL DEF IInv
-------------------------------------------------------------------------------
(* who may call: Auth *)

\* What the requests of an iteration may still add to the time since WATCHDOG=1.
Remaining == Len(ready) * FETCH_TIMEOUT

Bursts == [asleep |-> 1, due |-> 2, woken |-> 2, running |-> 3]

\* The delay, by the stage of the timer; an iteration has BURST requests at most.
Delay ==
    /\ Len(ready) <= BURST
    /\ since + Remaining <= INTERVAL + Bursts[beat] * (BURST * FETCH_TIMEOUT)

\* A key that is published is not withdrawn.
PublishedFresh == \A k \in published : withdrawn[k] = 0

AuthInv ==
    /\ AuthTypeOK /\ PublishedFresh /\ CacheLagsByTtl
    /\ ServedKeyIsRecent /\ RefusedForCause /\ Delay

\* The invariant holds at the start.
LEMMA AuthInvInit == AuthInit => AuthInv
<1> SUFFICES ASSUME AuthInit PROVE AuthInv
  OBVIOUS
<1> USE DEF AuthInit
<1>1. AuthTypeOK
  BY AuthAssumption DEF AuthTypeOK
<1>2. PublishedFresh /\ CacheLagsByTtl
  BY DEF PublishedFresh, CacheLagsByTtl
<1>3. ServedKeyIsRecent /\ RefusedForCause
  BY DEF ServedKeyIsRecent, RefusedForCause, NoAnswer
<1>4. BURST * FETCH_TIMEOUT \in Nat
  BY AuthAssumption
<1>5. Delay
  BY <1>4, AuthAssumption DEF Delay, Remaining, Bursts
<1> QED
  BY <1>1, <1>2, <1>3, <1>5 DEF AuthInv

\* Time that passes makes no key more withdrawn than it lets the cache age.
LEMMA PassWithdrawn ==
    ASSUME AuthTypeOK, NEW d \in Nat, Pass(d), published' \subseteq published
    PROVE  /\ withdrawn' \in [Kids -> 0..MaxAge]
           /\ \A k \in Kids : withdrawn'[k] <= withdrawn[k] + d
           /\ PublishedFresh'
           /\ since' \in Nat /\ since' = since + d
<1>1. \A k \in Kids : withdrawn[k] \in Nat /\ Least(withdrawn[k] + d, MaxAge) \in 0..MaxAge
                      /\ Least(withdrawn[k] + d, MaxAge) <= withdrawn[k] + d
  <2> SUFFICES ASSUME NEW k \in Kids
               PROVE  withdrawn[k] \in Nat /\ Least(withdrawn[k] + d, MaxAge) \in 0..MaxAge
                      /\ Least(withdrawn[k] + d, MaxAge) <= withdrawn[k] + d
    OBVIOUS
  <2>1. withdrawn[k] \in 0..MaxAge /\ MaxAge \in Nat
    BY AuthAssumption DEF AuthTypeOK
  <2> QED
    BY <2>1 DEF Least
<1>2. MaxAge \in Nat
  BY AuthAssumption
<1> QED
  BY <1>1, <1>2 DEF Pass, AuthTypeOK, PublishedFresh

\* The types of what a request asks the cache to do.
LEMMA AuthenticateCache ==
    ASSUME AuthTypeOK, NEW token \in Headers, NEW d \in 0..FETCH_TIMEOUT, Authenticate(token, d)
    PROVE  /\ cached' \subseteq Kids
           /\ age' \in 0..(TTL + 1)
           /\ published' \subseteq published
           /\ \/ cached' = published /\ age' = 0
              \/ cached' = cached /\ (age' <= TTL => age' = age + d)
<1>1. TTL \in Nat /\ FETCH_TIMEOUT \in Nat /\ d \in Nat /\ age \in Nat
  BY AuthAssumption DEF AuthTypeOK
<1>2. Least(age + d, TTL + 1) \in 0..(TTL + 1)
      /\ (Least(age + d, TTL + 1) < TTL + 1 => Least(age + d, TTL + 1) = age + d)
  BY <1>1 DEF Least
<1>3. CASE verify /\ token.kid # NoKid
  BY <1>1, <1>2, <1>3 DEF Authenticate, GetKey, AuthTypeOK
<1>4. CASE ~(verify /\ token.kid # NoKid)
  BY <1>1, <1>4 DEF Authenticate, AuthTypeOK
<1> QED
  BY <1>3, <1>4

\* What a request changes besides the cache.
LEMMA HandleEffect ==
    ASSUME AuthTypeOK, HandleRequest
    PROVE  \E d \in 0..FETCH_TIMEOUT :
              /\ Head(ready) \in Headers
              /\ Authenticate(Head(ready), d) /\ Pass(d)
              /\ published' \subseteq published
              /\ ready' \in Seq(Headers) /\ Len(ready') = Len(ready) - 1
              /\ Len(ready) \in Nat \ {0}
<1>1. PICK d \in 0..FETCH_TIMEOUT : Authenticate(Head(ready), d) /\ Pass(d)
  BY DEF HandleRequest
<1>2. /\ Head(ready) \in Headers /\ Len(ready) \in Nat \ {0}
      /\ ready' \in Seq(Headers) /\ Len(ready') = Len(ready) - 1
  BY DEF HandleRequest, AuthTypeOK
<1>3. published' \subseteq published
  BY <1>1, <1>2, AuthenticateCache
<1> QED
  BY <1>1, <1>2, <1>3

\* The types are preserved.
LEMMA AuthTypeStep == ASSUME AuthTypeOK, [AuthNext]_authVars PROVE AuthTypeOK'
<1> USE DEF AuthTypeOK
<1>1. CASE Iterate
  <2>1. PICK n \in 0..BURST : ready' \in [1..n -> Headers]
    BY <1>1 DEF Iterate
  <2>2. ready' \in Seq(Headers)
    BY <2>1, AuthAssumption
  <2> QED
    BY <1>1, <2>2 DEF Iterate, envVars
<1>2. CASE HandleRequest
  <2>1. PICK d \in 0..FETCH_TIMEOUT :
              /\ Head(ready) \in Headers
              /\ Authenticate(Head(ready), d) /\ Pass(d)
              /\ published' \subseteq published
              /\ ready' \in Seq(Headers)
    BY <1>2, HandleEffect
  <2>2. d \in Nat
    BY AuthAssumption
  <2>3. cached' \subseteq Kids /\ age' \in 0..(TTL + 1)
    BY <2>1, AuthenticateCache
  <2>4. withdrawn' \in [Kids -> 0..MaxAge] /\ since' \in Nat
    BY <2>1, <2>2, PassWithdrawn
  <2>5. answer' \in [token : Headers, reachable : BOOLEAN, status : {200, 401, 403, 500}]
    BY <2>1 DEF Authenticate, AnswersTo, UserStatus
  <2> QED
    BY <1>2, <2>1, <2>3, <2>4, <2>5 DEF HandleRequest, envVars
<1>3. CASE TimerFires
  BY <1>3 DEF TimerFires, envVars
<1>4. CASE SendWatchdog
  BY <1>4 DEF SendWatchdog, envVars
<1>5. CASE Wait
  <2> published' = published
    BY <1>5 DEF Wait, envVars
  <2>1. withdrawn' \in [Kids -> 0..MaxAge] /\ since' \in Nat
    BY <1>5, PassWithdrawn DEF Wait
  <2>2. age' \in 0..(TTL + 1)
    BY <1>5, AuthAssumption DEF Wait, Least
  <2> QED
    BY <1>5, <2>1, <2>2 DEF Wait, envVars
<1>6. CASE Restart
  BY <1>6, AuthAssumption DEF Restart
<1>7. CASE Outside
  <2>1. /\ published' \subseteq Kids /\ users' \subseteq Subs
        /\ withdrawn' \in [Kids -> 0..MaxAge]
    BY <1>7, AuthAssumption DEF Outside, ReachChanges, Publish, Withdraw, Provision
  <2>2. reachable' \in BOOLEAN
    BY <1>7, Zenon DEF Outside, ReachChanges, Publish, Withdraw, Provision
  <2> QED
    BY <1>7, <2>1, <2>2 DEF Outside
<1>8. CASE UNCHANGED authVars
  BY <1>8 DEF authVars, envVars
<1> QED
  BY <1>1, <1>2, <1>3, <1>4, <1>5, <1>6, <1>7, <1>8 DEF AuthNext

\* Published keys stay fresh.
LEMMA FreshStep == ASSUME AuthTypeOK, PublishedFresh, [AuthNext]_authVars PROVE PublishedFresh'
<1>1. CASE HandleRequest
  <2>1. PICK d \in 0..FETCH_TIMEOUT : Pass(d) /\ published' \subseteq published
    BY <1>1, HandleEffect
  <2> QED
    BY <2>1, PassWithdrawn, AuthAssumption
<1>2. CASE Wait
  BY <1>2, PassWithdrawn DEF Wait, envVars
<1>3. CASE Outside
  BY <1>3 DEF Outside, ReachChanges, Publish, Withdraw, Provision, PublishedFresh, AuthTypeOK
<1>4. CASE Iterate \/ TimerFires \/ SendWatchdog \/ Restart \/ UNCHANGED authVars
  BY <1>4 DEF Iterate, TimerFires, SendWatchdog, Restart, authVars, envVars, PublishedFresh
<1> QED
  BY <1>1, <1>2, <1>3, <1>4 DEF AuthNext

\* The cache lags by its age, and by the fetch that filled it.
LEMMA CacheStep ==
    ASSUME AuthTypeOK, PublishedFresh, CacheLagsByTtl, [AuthNext]_authVars
    PROVE  CacheLagsByTtl'
<1> USE DEF CacheLagsByTtl
<1>1. CASE HandleRequest
  <2>1. PICK d \in 0..FETCH_TIMEOUT :
              /\ Head(ready) \in Headers /\ Authenticate(Head(ready), d) /\ Pass(d)
              /\ published' \subseteq published
    BY <1>1, HandleEffect
  <2>2. d \in Nat /\ age \in Nat /\ TTL \in Nat /\ FETCH_TIMEOUT \in Nat
        /\ d <= FETCH_TIMEOUT /\ MaxAge \in Nat
    BY AuthAssumption DEF AuthTypeOK
  <2>3. /\ \/ cached' = published /\ age' = 0
           \/ cached' = cached /\ (age' <= TTL => age' = age + d)
        /\ cached' \subseteq Kids
    BY <2>1, AuthenticateCache
  <2>4. /\ \A k \in Kids : withdrawn'[k] <= withdrawn[k] + d
        /\ withdrawn' \in [Kids -> 0..MaxAge]
    BY <2>1, <2>2, PassWithdrawn
  <2> SUFFICES ASSUME NEW k \in cached', age' <= TTL
               PROVE  withdrawn'[k] <= age' + FETCH_TIMEOUT
    OBVIOUS
  <2>5. k \in Kids /\ withdrawn[k] \in Nat /\ withdrawn'[k] \in Nat
        /\ withdrawn'[k] <= withdrawn[k] + d
    BY <2>2, <2>3, <2>4 DEF AuthTypeOK
  <2>6. CASE cached' = published /\ age' = 0
    BY <2>2, <2>5, <2>6 DEF PublishedFresh
  <2>7. CASE cached' = cached /\ (age' <= TTL => age' = age + d)
    <3>1. age' = age + d /\ age <= TTL
      BY <2>2, <2>7
    <3>2. withdrawn[k] <= age + FETCH_TIMEOUT
      BY <2>7, <3>1
    <3> QED
      BY <2>2, <2>5, <3>1, <3>2
  <2> QED
    BY <2>3, <2>6, <2>7
<1>2. CASE Wait
  <2> SUFFICES ASSUME NEW k \in cached, age' <= TTL
               PROVE  withdrawn'[k] <= age' + FETCH_TIMEOUT
    BY <1>2 DEF Wait
  <2>1. /\ withdrawn'[k] <= withdrawn[k] + 1
        /\ withdrawn' \in [Kids -> 0..MaxAge]
    BY <1>2, PassWithdrawn DEF Wait, envVars, AuthTypeOK
  <2>2. age' = age + 1 /\ age <= TTL /\ age \in Nat
    BY <1>2, AuthAssumption DEF Wait, Least, AuthTypeOK
  <2>3. k \in Kids /\ withdrawn[k] \in 0..MaxAge /\ withdrawn'[k] \in 0..MaxAge
    BY <2>1 DEF AuthTypeOK
  <2>4. withdrawn[k] <= age + FETCH_TIMEOUT
    BY <2>2
  <2> QED
    BY <2>1, <2>2, <2>3, <2>4, AuthAssumption
<1>3. CASE Restart
  BY <1>3 DEF Restart
<1>4. CASE Outside
  <2> SUFFICES ASSUME NEW k \in cached, age <= TTL
               PROVE  withdrawn'[k] <= age + FETCH_TIMEOUT
    BY <1>4, AuthAssumption DEF Outside
  <2>1. k \in Kids /\ withdrawn[k] <= age + FETCH_TIMEOUT /\ 0 <= age + FETCH_TIMEOUT
    BY AuthAssumption DEF AuthTypeOK
  <2> QED
    BY <1>4, <2>1 DEF Outside, ReachChanges, Publish, Withdraw, Provision, AuthTypeOK
<1>5. CASE Iterate \/ TimerFires \/ SendWatchdog \/ UNCHANGED authVars
  BY <1>5 DEF Iterate, TimerFires, SendWatchdog, authVars
<1> QED
  BY <1>1, <1>2, <1>3, <1>4, <1>5 DEF AuthNext

\* Nothing but a request leaves an answer.
LEMMA NoAnswerStep ==
    ASSUME [AuthNext]_authVars, ~HandleRequest, ~UNCHANGED authVars
    PROVE  answer' = NoAnswer
BY DEF AuthNext, Iterate, TimerFires, SendWatchdog, Wait, Restart, Outside

\* A request that is accepted has a key that was published within TTL and one fetch.
LEMMA ServedStep ==
    ASSUME AuthTypeOK, PublishedFresh, CacheLagsByTtl, ServedKeyIsRecent,
           [AuthNext]_authVars
    PROVE  ServedKeyIsRecent'
<1>1. CASE HandleRequest
  <2> SUFFICES ASSUME verify, answer'.status = 200
               PROVE  withdrawn'[answer'.token.kid] <= TTL + FETCH_TIMEOUT
    BY <1>1 DEF ServedKeyIsRecent, HandleRequest
  <2>1. PICK d \in 0..FETCH_TIMEOUT :
              /\ Head(ready) \in Headers /\ Authenticate(Head(ready), d) /\ Pass(d)
              /\ published' \subseteq published
    BY <1>1, HandleEffect
  <2> DEFINE kid == Head(ready).kid
  <2>2. answer'.token.kid = kid /\ Decoded(Head(ready))
    BY <2>1 DEF Authenticate, AnswersTo
  <2>3. kid # NoKid /\ KeyFound(kid)
    BY <2>2 DEF Decoded
  <2>4. d \in Nat /\ age \in Nat /\ TTL \in Nat /\ MaxAge \in Nat
        /\ FETCH_TIMEOUT \in Nat /\ d <= FETCH_TIMEOUT
    BY AuthAssumption DEF AuthTypeOK
  <2>5. /\ \A k \in Kids : withdrawn'[k] <= withdrawn[k] + d
        /\ withdrawn' \in [Kids -> 0..MaxAge]
    BY <2>1, <2>4, PassWithdrawn
  <2>6. kid \in Kids /\ withdrawn[kid] <= TTL + FETCH_TIMEOUT - d
    <3>1. CASE NeedsFetch(kid)
      <4>1. kid \in Kids /\ withdrawn[kid] = 0
        BY <2>3, <3>1 DEF KeyFound, AuthTypeOK, PublishedFresh
      <4> QED
        BY <2>4, <4>1
    <3>2. CASE ~NeedsFetch(kid)
      <4>1. kid \in cached /\ age <= TTL
        BY <2>3, <2>4, <3>2 DEF NeedsFetch, KeyFound
      <4>2. d = 0
        BY <2>1, <2>3, <3>2 DEF Authenticate, GetKey
      <4>3. kid \in Kids /\ withdrawn[kid] <= age + FETCH_TIMEOUT /\ withdrawn[kid] \in Nat
        BY <4>1, <2>4 DEF AuthTypeOK, CacheLagsByTtl
      <4> QED
        BY <2>4, <4>1, <4>2, <4>3
    <3> QED
      BY <3>1, <3>2
  <2>7. withdrawn[kid] \in Nat /\ withdrawn'[kid] \in Nat
        /\ withdrawn'[kid] <= withdrawn[kid] + d
    BY <2>4, <2>5, <2>6 DEF AuthTypeOK
  <2> HIDE DEF kid
  <2> QED
    BY <2>2, <2>4, <2>6, <2>7
<1>2. CASE UNCHANGED authVars
  BY <1>2 DEF authVars, envVars, ServedKeyIsRecent
<1>3. CASE ~HandleRequest /\ ~UNCHANGED authVars
  BY <1>3, NoAnswerStep DEF NoAnswer, ServedKeyIsRecent
<1> QED
  BY <1>1, <1>2, <1>3

\* A request that is refused is refused for a cause.
LEMMA RefusedStep ==
    ASSUME AuthTypeOK, RefusedForCause, [AuthNext]_authVars
    PROVE  RefusedForCause'
<1>1. CASE HandleRequest
  <2>1. PICK d \in 0..FETCH_TIMEOUT :
              /\ Head(ready) \in Headers /\ Authenticate(Head(ready), d) /\ Pass(d)
              /\ published' \subseteq published
    BY <1>1, HandleEffect
  <2> DEFINE token == Head(ready)
  <2>2. /\ answer'.token = token
        /\ answer'.reachable = reachable
        /\ answer'.status \in AnswersTo(token)
    BY <2>1 DEF Authenticate
  <2>3. verify' = verify /\ users' = users
    BY <1>1 DEF HandleRequest
  <2> SUFFICES ASSUME answer'.status \in {401, 403},
                      token.flaw = "none" \/ (~verify /\ token.flaw = "signature"),
                      token.sub \in users,
                      verify => token.kid # NoKid
               PROVE  verify /\ (~reachable \/ token.kid \notin published')
    BY <2>2, <2>3 DEF RefusedForCause
  <2>4. token # NoBearer
    <3>1. token.flaw \in {"none", "signature"}
      OBVIOUS
    <3>2. NoBearer.flaw = "no bearer"
      BY DEF NoBearer
    <3> HIDE DEF token
    <3> QED
      BY <3>1, <3>2
  <2>5. token.flaw # "roles"
    OBVIOUS
  <2>6. UserStatus(token.sub) = {200, 500}
    BY NamesAssumption DEF UserStatus, AuthTypeOK
  <2>7. ~(verify /\ LookupRaises(token.kid)) /\ ~Decoded(token)
    <3> HIDE DEF token
    <3> QED
      BY <2>2, <2>4, <2>5, <2>6 DEF AnswersTo
  <2>8. CASE ~verify
    BY <2>7, <2>8 DEF Decoded
  <2>9. CASE verify
    <3>1. ~KeyFound(token.kid) /\ ~LookupRaises(token.kid)
      BY <2>7, <2>9 DEF Decoded
    <3>2. CASE NeedsFetch(token.kid)
      BY <2>1, <2>9, <3>1, <3>2 DEF KeyFound
    <3>3. CASE ~NeedsFetch(token.kid)
      BY <3>1, <3>3 DEF KeyFound, NeedsFetch, LookupRaises
    <3> QED
      BY <3>2, <3>3
  <2> QED
    BY <2>8, <2>9
<1>2. CASE UNCHANGED authVars
  BY <1>2 DEF authVars, envVars, RefusedForCause
<1>3. CASE ~HandleRequest /\ ~UNCHANGED authVars
  BY <1>3, NoAnswerStep DEF NoAnswer, RefusedForCause
<1> QED
  BY <1>1, <1>2, <1>3

\* One request fewer takes one timeout off what remains.
LEMMA Products ==
    ASSUME NEW n \in Nat, NEW b \in Nat, NEW f \in Nat
    PROVE  /\ n * f \in Nat
           /\ n <= b => n * f <= b * f
           /\ (n - 1) * f = n * f - f
OBVIOUS

\* The time since WATCHDOG=1 stays within the bursts of the timer's stage.
LEMMA DelayStep == ASSUME AuthTypeOK, Delay, [AuthNext]_authVars PROVE Delay'
<1> DEFINE burst == BURST * FETCH_TIMEOUT
<1>1. /\ BURST \in Nat /\ FETCH_TIMEOUT \in Nat /\ INTERVAL \in Nat /\ burst \in Nat
      /\ since \in Nat /\ Len(ready) \in Nat /\ Remaining \in Nat
  BY AuthAssumption, Products DEF AuthTypeOK, Remaining
<1>2. /\ beat = "asleep" => Bursts[beat] = 1
      /\ beat \in {"due", "woken"} => Bursts[beat] = 2
      /\ beat = "running" => Bursts[beat] = 3
      /\ beat \in {"asleep", "due", "woken", "running"}
  BY DEF Bursts, AuthTypeOK
<1>3. /\ beat' = "asleep" => Bursts[beat'] = 1
      /\ beat' \in {"due", "woken"} => Bursts[beat'] = 2
      /\ beat' = "running" => Bursts[beat'] = 3
      /\ beat' \in {"asleep", "due", "woken", "running"}
  BY AuthTypeStep DEF Bursts, AuthTypeOK
<1>4. Len(ready) <= BURST /\ since + Remaining <= INTERVAL + Bursts[beat] * burst
  BY DEF Delay
<1> HIDE DEF burst
<1>5. CASE Iterate
  <2>1. PICK n \in 0..BURST : ready' \in [1..n -> Headers]
    BY <1>5 DEF Iterate
  <2>2. Len(ready') = n /\ n \in Nat
    BY <2>1, <1>1
  <2>3. Remaining' <= burst /\ Remaining' \in Nat
    BY <2>2, <1>1, Products DEF Remaining, burst
  <2>4. Remaining = 0
    BY <1>1, <1>5 DEF Iterate, Between, Remaining
  <2>5. since' + Remaining' <= INTERVAL + Bursts[beat'] * burst
    BY <1>1, <1>2, <1>3, <1>4, <1>5, <2>3, <2>4 DEF Iterate, Between
  <2> QED
    BY <2>1, <2>2, <2>5 DEF Delay, burst
<1>6. CASE HandleRequest
  <2>1. PICK d \in 0..FETCH_TIMEOUT :
              /\ Pass(d)
              /\ Len(ready') = Len(ready) - 1
    BY <1>6, HandleEffect
  <2>2. d \in Nat /\ d <= FETCH_TIMEOUT /\ since' = since + d
    BY <2>1, <1>1 DEF Pass
  <2>3. Remaining' = Remaining - FETCH_TIMEOUT
    BY <2>1, <1>1, Products DEF Remaining
  <2>4. beat' = beat
    BY <1>6 DEF HandleRequest
  <2>5. Bursts[beat] * burst \in Nat
    BY <1>1, <1>2
  <2>6. since' + Remaining' <= INTERVAL + Bursts[beat'] * burst
    BY <1>1, <1>4, <2>2, <2>3, <2>4, <2>5
  <2> QED
    BY <1>1, <1>4, <2>1, <2>6 DEF Delay, burst
<1>7. CASE TimerFires
  BY <1>1, <1>2, <1>3, <1>4, <1>7 DEF TimerFires, Delay, Remaining, burst
<1>8. CASE SendWatchdog
  <2>1. ready' = ready /\ Remaining' = 0 /\ since' = 0 /\ beat' = "asleep"
    BY <1>8, <1>1 DEF SendWatchdog, Remaining
  <2> QED
    BY <1>1, <1>3, <1>4, <2>1 DEF Delay, burst
<1>9. CASE Wait
  <2>1. ready' = ready /\ Remaining' = 0 /\ since' <= INTERVAL /\ since' \in Nat /\ beat' = "asleep"
    BY <1>9, <1>1 DEF Wait, Between, Remaining, Pass
  <2> QED
    BY <1>1, <1>3, <1>4, <2>1 DEF Delay, burst
<1>10. CASE Restart
  <2>1. Len(ready') = 0 /\ Remaining' = 0 /\ since' = 0 /\ beat' = "asleep"
    BY <1>10, <1>1 DEF Restart, Remaining
  <2> QED
    BY <1>1, <1>3, <1>4, <2>1 DEF Delay, burst
<1>11. CASE Outside \/ UNCHANGED authVars
  BY <1>11 DEF Outside, authVars, Delay, Remaining
<1> QED
  BY <1>5, <1>6, <1>7, <1>8, <1>9, <1>10, <1>11 DEF AuthNext

\* The inductive invariant of the backend's event loop and its key cache holds.
THEOREM AuthInvariant == AuthSpec => []AuthInv
<1>1. AuthInit => AuthInv
  BY AuthInvInit
<1>2. AuthInv /\ [AuthNext]_authVars => AuthInv'
  BY AuthTypeStep, FreshStep, CacheStep, ServedStep, RefusedStep, DelayStep DEF AuthInv
<1> QED
  BY <1>1, <1>2, PTL DEF AuthSpec

\* Every variable keeps its type, for every burst, TTL and fetch timeout.
THEOREM AuthTypeCorrect == AuthSpec => []AuthTypeOK
<1>1. AuthInv => AuthTypeOK
  BY DEF AuthInv
<1> QED
  BY <1>1, AuthInvariant, PTL

\* get_key hands a withdrawn key out for the time to live of the cache and of the
\* fetch that filled it at most.
THEOREM CacheLagsHolds == AuthSpec => []CacheLagsByTtl
<1>1. AuthInv => CacheLagsByTtl
  BY DEF AuthInv
<1> QED
  BY <1>1, AuthInvariant, PTL

\* get_current_user accepts no token whose key was withdrawn longer ago.
THEOREM ServedKeyIsRecentHolds == AuthSpec => []ServedKeyIsRecent
<1>1. AuthInv => ServedKeyIsRecent
  BY DEF AuthInv
<1> QED
  BY <1>1, AuthInvariant, PTL

\* get_current_user refuses no good token without a cause at Keycloak.
THEOREM RefusedForCauseHolds == AuthSpec => []RefusedForCause
<1>1. AuthInv => RefusedForCause
  BY DEF AuthInv
<1> QED
  BY <1>1, AuthInvariant, PTL

\* watchdog_loop is late by three bursts of blocking fetches at most.
THEOREM WatchdogDelayHolds == AuthSpec => []WatchdogDelayBounded
<1>1. ASSUME AuthTypeOK, Delay PROVE WatchdogDelayBounded
  <2>1. /\ BURST \in Nat /\ FETCH_TIMEOUT \in Nat /\ INTERVAL \in Nat
        /\ BURST * FETCH_TIMEOUT \in Nat
        /\ since \in Nat /\ Remaining \in Nat
    BY <1>1, AuthAssumption, Products DEF AuthTypeOK, Remaining
  <2>2. Bursts[beat] \in 1..3
    BY <1>1 DEF Bursts, AuthTypeOK
  <2>3. Bursts[beat] * (BURST * FETCH_TIMEOUT) <= 3 * (BURST * FETCH_TIMEOUT)
    BY <2>1, <2>2
  <2>4. 3 * BURST * FETCH_TIMEOUT = 3 * (BURST * FETCH_TIMEOUT)
    BY <2>1
  <2> QED
    BY <1>1, <2>1, <2>2, <2>3, <2>4 DEF Delay, WatchdogDelayBounded
<1>2. AuthInv => WatchdogDelayBounded
  BY <1>1 DEF AuthInv
<1> QED
  BY <1>2, AuthInvariant, PTL
-------------------------------------------------------------------------------
(* the processes under systemd *)

\* A process that says it is ready is connected: the invariant is inductive as it
\* stands.
LEMMA ConnectedStep ==
    ASSUME ReadyMeansConnected, [ServicesNext]_servicesVars
    PROVE  ReadyMeansConnected'
<1> USE DEF ReadyMeansConnected
<1>1. CASE StartUnit
  BY <1>1 DEF StartUnit
<1>2. CASE BackendReady \/ WorkerReady
  BY <1>2 DEF BackendReady, WorkerReady
<1>3. CASE BackendFails \/ WorkerGivesUp \/ Killed
  BY <1>3 DEF BackendFails, WorkerGivesUp, Killed, Exit
<1>4. CASE ConsumerEnds
  BY <1>4 DEF ConsumerEnds
<1>5. CASE SchedulerReady \/ JobRuns
  BY <1>5 DEF SchedulerReady, JobRuns
<1>6. CASE Tick \/ DatabaseChanges
  BY <1>6 DEF Tick, DatabaseChanges
<1>7. CASE BrokerChanges
  BY <1>7 DEF BrokerChanges
<1>8. CASE UNCHANGED servicesVars
  BY <1>8 DEF servicesVars
<1> QED
  BY <1>1, <1>2, <1>3, <1>4, <1>5, <1>6, <1>7, <1>8 DEF ServicesNext, Step

\* Whatever the broker does, READY=1 of the backend and of the worker was sent over a
\* connection that was up.
THEOREM ReadyMeansConnectedHolds == ServicesSpec => []ReadyMeansConnected
<1>1. ServicesInit => ReadyMeansConnected
  BY DEF ServicesInit, ReadyMeansConnected
<1> QED
  BY <1>1, ConnectedStep, PTL DEF ServicesSpec

\* Ticks between two starts of a unit, at least: the restart delay, and for a worker
\* that is not killed also the time it waits for its subscription.
Spacing == IF unit = "worker" /\ kills = 0 THEN 13 ELSE IF unit = "scheduler" THEN 2 ELSE 1

\* Ticks since the last start of the unit, at least.
Elapsed ==
    IF Spacing = 13
    THEN CASE state = "waiting" -> 12 + timer [] state = "starting" -> timer [] OTHER -> 0
    ELSE IF state = "waiting" THEN timer ELSE 0

\* The starts in the window of the start limit are spaced.
Spaced ==
    \/ window.age > LimitTicks
    \/ window.starts >= 1 /\ window.age >= Spacing * (window.starts - 1) + Elapsed

Limits ==
    /\ unit \in Units /\ state \in {"waiting", "starting", "active", "failed"}
    /\ timer \in Nat /\ kills \in Nat /\ honoured \in BOOLEAN
    /\ window \in [age : Nat, starts : Nat]

ServicesInv == Limits /\ Spaced /\ NeverGivenUp

\* The constants of the unit files, unit by unit.
LEMMA UnitFacts ==
    ASSUME Limits
    PROVE  /\ unit \in {"backend", "worker", "scheduler"}
           /\ RestartTicks[unit] = IF unit = "scheduler" THEN 2 ELSE 1
           /\ StartLimit[unit] = IF unit = "scheduler" THEN 3 ELSE 5
           /\ LimitTicks = IF honoured /\ unit # "scheduler" THEN 60 ELSE 2
           /\ Spacing \in {1, 2, 13}
           /\ unit = "scheduler" => Spacing = 2
           /\ unit = "backend" => Spacing = 1
           /\ unit = "worker" /\ kills = 0 => Spacing = 13
           /\ unit = "worker" /\ kills # 0 => Spacing = 1
<1>1. unit \in {"backend", "worker", "scheduler"}
  BY ServicesAssumption DEF Limits
<1> QED
  BY <1>1 DEF RestartTicks, StartLimit, LimitTicks, Spacing

\* A unit that is started again was last started long enough ago; so it is not given up.
LEMMA SpacedStart ==
    ASSUME ServicesInv, StartUnit
    PROVE  ServicesInv'
<1> USE DEF ServicesInv
<1>1. /\ window.age \in Nat /\ window.starts \in Nat /\ timer >= RestartTicks[unit]
      /\ state = "waiting" /\ UNCHANGED <<unit, honoured, kills>> /\ timer' = 0
  BY DEF StartUnit, Limits
<1>2. LimitTicks' = LimitTicks /\ Spacing' = Spacing
  BY <1>1 DEF LimitTicks, Spacing
<1>3. window.age > LimitTicks \/ (window.starts >= 1 /\ window.age >= Spacing * window.starts)
  <2> SUFFICES ASSUME window.starts >= 1,
                      window.age >= Spacing * (window.starts - 1) + Elapsed
               PROVE  window.age >= Spacing * window.starts
    BY DEF Spaced
  <2>1. timer \in Nat
    BY DEF Limits
  <2>2. Elapsed >= Spacing
    BY <1>1, <2>1, UnitFacts DEF Elapsed
  <2>3. Elapsed \in Nat
    BY <1>1, <2>1 DEF Elapsed
  <2>4. CASE Spacing = 1
    BY <1>1, <2>2, <2>3, <2>4
  <2>5. CASE Spacing = 2
    BY <1>1, <2>2, <2>3, <2>5
  <2>6. CASE Spacing = 13
    BY <1>1, <2>2, <2>3, <2>6
  <2> QED
    BY <2>4, <2>5, <2>6, UnitFacts
<1>4. CASE state' = "starting"
  <2>1. \/ window.age > LimitTicks /\ window' = [age |-> 0, starts |-> 1]
        \/ window.age <= LimitTicks /\ window' = [window EXCEPT !.starts = @ + 1]
    BY <1>1, <1>4, UnitFacts DEF StartUnit
  <2>2. Elapsed' = 0
    BY <1>1, <1>4 DEF Elapsed
  <2>3. Limits'
    BY <1>1, <1>4, <2>1 DEF Limits
  <2>4. Spaced'
    <3>1. CASE window' = [age |-> 0, starts |-> 1]
      BY <1>2, <2>2, <3>1, UnitFacts DEF Spaced
    <3>2. CASE window.age <= LimitTicks /\ window' = [window EXCEPT !.starts = @ + 1]
      <4>1. window'.age = window.age /\ window'.starts = window.starts + 1
        BY <3>2 DEF Limits
      <4>2. window.starts >= 1 /\ window.age >= Spacing * window.starts
        BY <1>1, <1>3, <3>2, UnitFacts
      <4>3. window'.starts - 1 = window.starts
        BY <1>1, <4>1
      <4> QED
        BY <1>1, <1>2, <2>2, <4>1, <4>2, <4>3, UnitFacts DEF Spaced
    <3> QED
      BY <2>1, <3>1, <3>2
  <2> QED
    BY <1>4, <2>3, <2>4 DEF NeverGivenUp
<1>5. CASE state' = "failed"
  <2>1. window.age <= LimitTicks /\ window.starts >= StartLimit[unit] /\ window' = window
    BY <1>1, <1>5, UnitFacts DEF StartUnit
  <2>2. window.age >= Spacing * window.starts
    BY <1>1, <1>3, <2>1, UnitFacts
  <2>3. NeverGivenUp'
    <3>1. CASE unit = "worker" /\ kills = 0
      BY <1>1, <2>1, <2>2, <3>1, UnitFacts
    <3>2. CASE unit = "scheduler"
      BY <1>1, <2>1, <2>2, <3>2, UnitFacts
    <3>3. CASE unit = "backend" /\ ~honoured
      BY <1>1, <2>1, <2>2, <3>3, UnitFacts
    <3> QED
      BY <1>1, <3>1, <3>2, <3>3, UnitFacts DEF NeverGivenUp
  <2>4. Limits'
    BY <1>1, <1>5, <2>1 DEF Limits
  <2>5. Spaced'
    <3>1. Elapsed' = 0
      BY <1>5 DEF Elapsed
    <3>2. window.starts >= 1
      BY <1>1, <2>1, UnitFacts
    <3>3. CASE Spacing = 1
      BY <1>1, <1>2, <2>1, <2>2, <3>1, <3>2, <3>3 DEF Spaced
    <3>4. CASE Spacing = 2
      BY <1>1, <1>2, <2>1, <2>2, <3>1, <3>2, <3>4 DEF Spaced
    <3>5. CASE Spacing = 13
      BY <1>1, <1>2, <2>1, <2>2, <3>1, <3>2, <3>5 DEF Spaced
    <3> QED
      BY <3>3, <3>4, <3>5, UnitFacts
  <2> QED
    BY <2>3, <2>4, <2>5
<1> QED
  BY <1>4, <1>5 DEF StartUnit

\* The worker ends after its 60 seconds, the backend when it is refused, and any unit
\* when it is killed.
LEMMA SpacedExit ==
    ASSUME ServicesInv, BackendFails \/ WorkerGivesUp \/ Killed
    PROVE  ServicesInv'
<1> USE DEF ServicesInv
<1>1. /\ window.age \in Nat /\ window.starts \in Nat /\ timer \in Nat /\ kills \in Nat
      /\ state \in {"starting", "active"}
      /\ state' = "waiting" /\ timer' = 0 /\ UNCHANGED <<unit, honoured, window>>
      /\ kills' \in {kills, kills + 1}
  BY DEF BackendFails, WorkerGivesUp, Killed, Exit, Limits
<1>2. Limits' /\ NeverGivenUp'
  BY <1>1 DEF Limits, NeverGivenUp
<1>3. LimitTicks' = LimitTicks
  BY <1>1 DEF LimitTicks
<1>4. CASE WorkerGivesUp
  <2>1. kills' = kills /\ unit = "worker" /\ state = "starting" /\ timer >= 12
    BY <1>1, <1>4, ServicesAssumption DEF WorkerGivesUp
  <2>2. Spacing' = Spacing
    BY <1>1, <2>1 DEF Spacing
  <2>3. CASE Spacing = 13
    <3>1. Elapsed = timer /\ Elapsed' = 12
      BY <1>1, <2>1, <2>2, <2>3 DEF Elapsed
    <3> QED
      BY <1>1, <1>2, <1>3, <2>1, <2>2, <2>3, <3>1 DEF Spaced
  <2>4. CASE Spacing = 1
    <3>1. Elapsed = 0 /\ Elapsed' = 0
      BY <1>1, <2>1, <2>2, <2>4 DEF Elapsed
    <3> QED
      BY <1>1, <1>2, <1>3, <2>1, <2>2, <2>4, <3>1 DEF Spaced
  <2> QED
    BY <2>1, <2>3, <2>4, UnitFacts
<1>5. CASE BackendFails \/ Killed
  <2>1. Spacing' \in {1, 2} /\ Spacing' <= Spacing
    <3>1. unit = "backend" \/ kills' = kills + 1
      BY <1>5 DEF BackendFails, Killed
    <3> QED
      BY <1>1, <3>1, UnitFacts DEF Spacing
  <2>2. Elapsed' = 0 /\ Elapsed \in Nat
    BY <1>1, <2>1 DEF Elapsed
  <2>3. Spacing \in {1, 2, 13}
    BY UnitFacts
  <2>4. CASE window.age > LimitTicks
    BY <1>1, <1>2, <1>3, <2>4 DEF Spaced
  <2>5. CASE window.starts >= 1 /\ window.age >= Spacing * (window.starts - 1) + Elapsed
    <3>1. window.starts - 1 \in Nat
      BY <1>1, <2>5
    <3>2. PICK m \in Nat : m = window.starts - 1
      BY <3>1
    <3>3. Spacing * m >= Spacing' * m
      <4>1. CASE Spacing' = 1
        BY <2>1, <2>3, <3>2, <4>1
      <4>2. CASE Spacing' = 2
        BY <2>1, <2>3, <3>2, <4>2
      <4> QED
        BY <2>1, <4>1, <4>2
    <3>4. Spacing * m \in Nat /\ Spacing' * m \in Nat
      BY <2>1, <2>3, <3>2
    <3>5. window.age >= Spacing' * m
      BY <1>1, <2>2, <2>5, <3>2, <3>3, <3>4
    <3> QED
      BY <1>1, <1>2, <2>2, <2>5, <3>2, <3>4, <3>5 DEF Spaced
  <2> QED
    BY <1>1, <2>4, <2>5 DEF Spaced
<1> QED
  BY <1>4, <1>5

\* Nothing else but the clock touches the window and the restart delay.
LEMMA SpacedQuiet ==
    ASSUME ServicesInv, UNCHANGED <<unit, honoured, window, kills>>,
           \/ UNCHANGED <<state, timer>>
           \/ state = "starting" /\ state' = "active" /\ timer' = 0
    PROVE  ServicesInv'
<1> USE DEF ServicesInv
<1>1. window.age \in Nat /\ window.starts \in Nat /\ timer \in Nat
  BY DEF Limits
<1>2. Limits' /\ NeverGivenUp'
  BY DEF Limits, NeverGivenUp
<1>3. LimitTicks' = LimitTicks /\ Spacing' = Spacing
  BY DEF LimitTicks, Spacing
<1>4. Elapsed' \in Nat /\ Elapsed \in Nat /\ Elapsed' <= Elapsed
  BY <1>1, <1>3 DEF Elapsed
<1>5. Spacing * (window.starts - 1) \in Int
  BY <1>1, UnitFacts
<1> QED
  BY <1>1, <1>2, <1>3, <1>4, <1>5 DEF Spaced

\* The clock: the window ages as fast as the delays.
LEMMA SpacedTick ==
    ASSUME ServicesInv, Tick
    PROVE  ServicesInv'
<1> USE DEF ServicesInv
<1>1. /\ window.age \in Nat /\ window.starts \in Nat /\ timer \in Nat
      /\ UNCHANGED <<unit, honoured, kills, state>>
      /\ timer' = IF state = "active" THEN 0 ELSE timer + 1
      /\ window' = [window EXCEPT !.age = IF @ > LimitTicks THEN @ ELSE @ + 1]
  BY DEF Tick, Limits
<1>2. Limits' /\ NeverGivenUp'
  BY <1>1 DEF Limits, NeverGivenUp
<1>3. LimitTicks' = LimitTicks /\ Spacing' = Spacing /\ LimitTicks \in Nat
  BY <1>1 DEF LimitTicks, Spacing
<1>4. /\ window'.starts = window.starts
      /\ window'.age = IF window.age > LimitTicks THEN window.age ELSE window.age + 1
  BY <1>1 DEF Limits
<1>5. Elapsed' \in Nat /\ Elapsed \in Nat /\ Elapsed' <= Elapsed + 1
  BY <1>1, <1>3 DEF Elapsed
<1>6. Spacing * (window.starts - 1) \in Int
  BY <1>1, UnitFacts
<1> QED
  BY <1>1, <1>2, <1>3, <1>4, <1>5, <1>6 DEF Spaced

\* For any number of kills: systemd never gives up on a worker or a scheduler that is
\* not killed, nor on a backend whose start limit is the default one.
THEOREM NeverGivenUpHolds == ServicesSpec => []NeverGivenUp
<1>1. ServicesInit => ServicesInv
  <2> SUFFICES ASSUME ServicesInit PROVE ServicesInv
    OBVIOUS
  <2>1. unit \in {"backend", "worker", "scheduler"} /\ LimitTicks \in Nat
    BY ServicesAssumption DEF ServicesInit, LimitTicks
  <2>2. Limits
    BY <2>1 DEF ServicesInit, Limits, RestartTicks
  <2>3. window.age > LimitTicks
    BY <2>1 DEF ServicesInit
  <2> QED
    BY <2>2, <2>3 DEF ServicesInit, ServicesInv, Spaced, NeverGivenUp
<1>2. ServicesInv /\ [ServicesNext]_servicesVars => ServicesInv'
  <2> SUFFICES ASSUME ServicesInv, [ServicesNext]_servicesVars PROVE ServicesInv'
    OBVIOUS
  <2>1. CASE StartUnit
    BY <2>1, SpacedStart
  <2>2. CASE BackendFails \/ WorkerGivesUp \/ Killed
    BY <2>2, SpacedExit
  <2>3. CASE Tick
    BY <2>3, SpacedTick
  <2>4. CASE BackendReady \/ WorkerReady \/ SchedulerReady
    BY <2>4, SpacedQuiet DEF BackendReady, WorkerReady, SchedulerReady
  <2>5. CASE ConsumerEnds \/ JobRuns \/ BrokerChanges \/ DatabaseChanges \/ UNCHANGED servicesVars
    BY <2>5, SpacedQuiet DEF ConsumerEnds, JobRuns, BrokerChanges, DatabaseChanges, servicesVars
  <2> QED
    BY <2>1, <2>2, <2>3, <2>4, <2>5 DEF ServicesNext, Step
<1>3. ServicesInv => NeverGivenUp
  BY DEF ServicesInv
<1> QED
  BY <1>1, <1>2, <1>3, PTL DEF ServicesSpec

\* The record that ServicesTypeOK looks into.
WindowShape == window \in [age : Nat, starts : Nat]

\* One step keeps the types.
LEMMA ServicesTypeStep ==
    ASSUME ServicesTypeOK, WindowShape, [ServicesNext]_servicesVars
    PROVE  ServicesTypeOK' /\ WindowShape'
<1> USE ServicesAssumption DEF ServicesTypeOK, WindowShape
<1>1. unit \in {"backend", "worker", "scheduler"} /\ LimitTicks \in Nat
  BY DEF LimitTicks
<1>2. StartLimit[unit] \in Nat /\ StartLimit[unit] >= 1
  BY <1>1 DEF StartLimit
<1>3. UNCHANGED <<unit, honoured>> => LimitTicks' = LimitTicks
  BY DEF LimitTicks
<1>4. CASE StartUnit
  <2>1. /\ UNCHANGED <<unit, honoured, broker, database, jobs, kills, lost>> /\ timer' = 0
        /\ state = "waiting"
    BY <1>4 DEF StartUnit, world
  <2>2. CASE /\ window' = IF window.age > LimitTicks THEN [age |-> 0, starts |-> 1]
                          ELSE [window EXCEPT !.starts = @ + 1]
             /\ window.age > LimitTicks \/ window.starts < StartLimit[unit]
             /\ state' = "starting"
             /\ link' = IF unit = "scheduler" THEN "none" ELSE "trying"
    BY <1>1, <1>2, <1>3, <2>1, <2>2
  <2>3. CASE state' = "failed" /\ UNCHANGED <<window, link>>
    BY <1>1, <1>2, <1>3, <2>1, <2>3
  <2> QED
    BY <1>4, <2>2, <2>3 DEF StartUnit
<1>5. CASE BackendReady \/ WorkerReady
  BY <1>3, <1>5 DEF BackendReady, WorkerReady, world
<1>6. CASE BackendFails \/ WorkerGivesUp \/ Killed
  <2>1. lost' \in BOOLEAN
    BY <1>6, Zenon DEF BackendFails, WorkerGivesUp, Killed, Exit
  <2>2. /\ UNCHANGED <<unit, honoured, window, broker, database>> /\ timer' = 0
        /\ state' = "waiting" /\ link' = "none" /\ jobs' = "none"
        /\ kills' \in 0..MaxKills
    BY <1>6 DEF BackendFails, WorkerGivesUp, Killed, Exit, world
  <2> QED
    BY <1>3, <2>1, <2>2
<1>7. CASE ConsumerEnds
  BY <1>3, <1>7 DEF ConsumerEnds, world
<1>8. CASE SchedulerReady \/ JobRuns
  BY <1>3, <1>8 DEF SchedulerReady, JobRuns, world
<1>9. CASE Tick
  <2>1. /\ UNCHANGED <<unit, honoured, state, broker, database, link, jobs, kills, lost>>
        /\ timer' \in {0, timer + 1}
        /\ window' = [window EXCEPT !.age = IF @ > LimitTicks THEN @ ELSE @ + 1]
    BY <1>9 DEF Tick, world
  <2>2. window'.starts = window.starts /\ window'.age \in 0..(LimitTicks + 1) /\ WindowShape'
    BY <1>1, <2>1
  <2> QED
    BY <1>1, <1>3, <2>1, <2>2
<1>10. CASE BrokerChanges \/ DatabaseChanges
  BY <1>3, <1>10 DEF BrokerChanges, DatabaseChanges
<1>11. CASE UNCHANGED servicesVars
  BY <1>3, <1>11 DEF servicesVars, world
<1> QED
  BY <1>4, <1>5, <1>6, <1>7, <1>8, <1>9, <1>10, <1>11 DEF ServicesNext, Step

\* Every variable keeps its type; systemd's counter stays within the limit of the unit
\* file, and a process that is not started holds no connection.
THEOREM ServicesTypeCorrect == ServicesSpec => []ServicesTypeOK
<1>1. ServicesInit => ServicesTypeOK /\ WindowShape
  <2> SUFFICES ASSUME ServicesInit PROVE ServicesTypeOK /\ WindowShape
    OBVIOUS
  <2>1. unit \in {"backend", "worker", "scheduler"} /\ LimitTicks \in Nat
    BY ServicesAssumption DEF ServicesInit, LimitTicks
  <2>2. StartLimit[unit] \in Nat /\ RestartTicks[unit] \in Nat
    BY <2>1 DEF StartLimit, RestartTicks
  <2>3. lost \in BOOLEAN
    BY Zenon DEF ServicesInit
  <2> QED
    BY <2>1, <2>2, <2>3, ServicesAssumption DEF ServicesInit, ServicesTypeOK, WindowShape
<1> QED
  BY <1>1, ServicesTypeStep, PTL DEF ServicesSpec
===============================================================================
