--------------------------- MODULE CommandLifecycle ---------------------------
(***************************************************************************)
(* The life of a remote command on the server: the row of table commands   *)
(* and the four parties that touch it or the messages about it.            *)
(*                                                                         *)
(*   backend    issue_command (server/app/routers/commands.py): inserts    *)
(*              the row, publishes the request, then commits "published";  *)
(*   gateway    executes or refuses the request (actuator.go; the module   *)
(*              Actuator has the detail) and publishes a response;         *)
(*   worker     handle of worker/handlers/command_response.py: reads the   *)
(*              row, then commits what the response says;                  *)
(*   scheduler  jobs/command_timeout.py: one UPDATE of the expired rows.   *)
(*                                                                         *)
(* The backend and the worker hold a row in an ORM session between reading *)
(* and writing it; the scheduler and the database make the steps between.  *)
(* MQTT with QoS 1 may delay, lose (clean session, full queue) and repeat  *)
(* messages: a message stays in its set or leaves it when it is consumed,  *)
(* and nothing obliges the network to deliver.  Nor is the backend obliged *)
(* to go on after any await: a crash is a behaviour in which it does not.  *)
(***************************************************************************)
EXTENDS Naturals

CONSTANTS Commands,      \* command ids, fresh for every issue_command
          Gateways,
          GatewayOf,     \* [Commands -> Gateways]: gateway_id of the row
          RequireAck,    \* commands issued with require_ack
          MaxEffects     \* bound: how often the gateway acts on one command

ASSUME LifecycleAssumption ==
    /\ GatewayOf \in [Commands -> Gateways]
    /\ RequireAck \subseteq Commands
    /\ MaxEffects \in Nat

Answers == {"executed", "rejected", "failed"}

\* The values of column status, "none" while there is no row.
Statuses == {"none", "pending", "published", "timeout"} \cup Answers

Settled == {"timeout"} \cup Answers

Response == [command : Commands, gateway : Gateways, status : Answers]

NoJob == [phase |-> "idle"]

VARIABLES
    api,        \* [Commands -> ApiPcs]: where issue_command is
    status,     \* [Commands -> Statuses]: column status
    response,   \* [Commands -> Answers \cup {"none"}]: column response
    completed,  \* commands whose completed_at is set
    requests,   \* commands with a request at the broker
    responses,  \* responses at the broker
    job,        \* what the worker is working on: NoJob, or a response and the
                \* status it read from the row
    expired,    \* commands past expires_at on the server's clock
    gwExpired,  \* the same on the gateway's clock
    effects,    \* [Commands -> Nat]: times the gateway switched for a command
    lateCommit  \* history: commands whose "published" came after an answer

vars == <<api, status, response, completed, requests, responses, job, expired,
          gwExpired, effects, lateCommit>>

ApiPcs == {"none", "publishing", "committing", "accepted", "unavailable"}

Init ==
    /\ api = [c \in Commands |-> "none"]
    /\ status = [c \in Commands |-> "none"]
    /\ response = [c \in Commands |-> "none"]
    /\ completed = {}
    /\ requests = {}
    /\ responses = {}
    /\ job = NoJob
    /\ expired = {}
    /\ gwExpired = {}
    /\ effects = [c \in Commands |-> 0]
    /\ lateCommit = {}
-------------------------------------------------------------------------------
(* backend: issue_command after its permission and existence checks *)

InsertPending(c) ==
    /\ api[c] = "none"
    /\ api' = [api EXCEPT ![c] = "publishing"]
    /\ status' = [status EXCEPT ![c] = "pending"]
    /\ UNCHANGED <<response, completed, requests, responses, job, expired,
                   gwExpired, effects, lateCommit>>

PublishRequest(c) ==
    /\ api[c] = "publishing"
    /\ api' = [api EXCEPT ![c] = "committing"]
    /\ requests' = requests \cup {c}
    /\ UNCHANGED <<status, response, completed, responses, job, expired,
                   gwExpired, effects, lateCommit>>

\* publish raises: 503, the row stays pending.  A publish that timed out
\* waiting for its PUBACK may have reached the broker all the same.
PublishFails(c) ==
    /\ api[c] = "publishing"
    /\ api' = [api EXCEPT ![c] = "unavailable"]
    /\ requests' \in {requests, requests \cup {c}}
    /\ UNCHANGED <<status, response, completed, responses, job, expired,
                   gwExpired, effects, lateCommit>>

\* cmd.status = "published"; commit: an UPDATE by primary key, whatever the
\* row says by now.
CommitPublished(c) ==
    /\ api[c] = "committing"
    /\ api' = [api EXCEPT ![c] = "accepted"]
    /\ status' = [status EXCEPT ![c] = "published"]
    /\ lateCommit' = IF response[c] # "none" THEN lateCommit \cup {c}
                                             ELSE lateCommit
    /\ UNCHANGED <<response, completed, requests, responses, job, expired,
                   gwExpired, effects>>

\* The commit itself fails: the same except clause, 503.
CommitFails(c) ==
    /\ api[c] = "committing"
    /\ api' = [api EXCEPT ![c] = "unavailable"]
    /\ UNCHANGED <<status, response, completed, requests, responses, job,
                   expired, gwExpired, effects, lateCommit>>
-------------------------------------------------------------------------------
(* gateway and broker *)

Keep(S, x) == {S, S \ {x}}

\* The gateway publishes s for c, or fails to; nothing without require_ack.
Answer(c, s) ==
    \/ /\ c \in RequireAck
       /\ responses' = responses \cup
              {[command |-> c, gateway |-> GatewayOf[c], status |-> s]}
    \/ UNCHANGED responses

\* The request is delivered (again) and switches the relay.
GatewayExecutes(c) ==
    /\ c \in requests
    /\ c \notin gwExpired
    /\ effects[c] < MaxEffects
    /\ requests' \in Keep(requests, c)
    /\ effects' = [effects EXCEPT ![c] = @ + 1]
    /\ Answer(c, "executed")
    /\ UNCHANGED <<api, status, response, completed, job, expired, gwExpired,
                   lateCommit>>

\* It is refused: expired, or a channel or action this gateway does not know
\* ("rejected"), or the HAL fails ("failed").
GatewayRefuses(c) ==
    /\ c \in requests
    /\ requests' \in Keep(requests, c)
    /\ \/ Answer(c, "rejected")
       \/ c \notin gwExpired /\ Answer(c, "failed")
    /\ UNCHANGED <<api, status, response, completed, job, expired, gwExpired,
                   effects, lateCommit>>

\* Another gateway answers a command that is not its own (a misrouted request,
\* a broker without ACL).
StrayResponse(c, g, s) ==
    /\ api[c] # "none"
    /\ g # GatewayOf[c]
    /\ responses' = responses \cup
           {[command |-> c, gateway |-> g, status |-> s]}
    /\ UNCHANGED <<api, status, response, completed, requests, job, expired,
                   gwExpired, effects, lateCommit>>
-------------------------------------------------------------------------------
(* worker: one message at a time *)

\* Mutant of FromOwnGateway: the gateway of the response is not looked at.
FromAnyGateway(m) == TRUE

\* The comparison of the response's gateway with the one of the row.
FromOwnGateway(m) == m.gateway = GatewayOf[m.command]

\* session.get, and the check that the response comes from the gateway of the
\* row.  The response may be delivered again later.
WorkerReads(m) ==
    /\ job = NoJob
    /\ m \in responses
    /\ responses' \in Keep(responses, m)
    /\ job' = IF FromOwnGateway(m)
              THEN [phase |-> "read", msg |-> m, seen |-> status[m.command]]
              ELSE NoJob
    /\ UNCHANGED <<api, status, response, completed, requests, expired,
                   gwExpired, effects, lateCommit>>

\* The assignments and the commit.  The ORM writes the columns whose value
\* differs from the one it read.  A response without a status counts as one that
\* says "executed", so the messages of Response stand for it too.
WorkerCommits ==
    /\ job # NoJob
    /\ LET c == job.msg.command
           s == job.msg.status IN
       /\ status' = IF s # job.seen THEN [status EXCEPT ![c] = s] ELSE status
       /\ response' = [response EXCEPT ![c] = s]
       /\ completed' = completed \cup {c}
    /\ job' = NoJob
    /\ UNCHANGED <<api, requests, responses, expired, gwExpired, effects,
                   lateCommit>>

\* The database fails: the error is logged and the message is gone.
WorkerFails ==
    /\ job # NoJob
    /\ job' = NoJob
    /\ UNCHANGED <<api, status, response, completed, requests, responses,
                   expired, gwExpired, effects, lateCommit>>
-------------------------------------------------------------------------------
(* scheduler and clocks *)

\* Mutant of TimedOut: the WHERE clause has no condition on status.
TimedOutAny == expired

\* Mutant of TimedOut: the WHERE clause forgets "pending".
TimedOutPublished == {c \in expired : status[c] = "published"}

\* Mutant of TimedOut: expires_at is not compared with the clock.
TimedOutEarly == {c \in Commands : status[c] \in {"pending", "published"}}

\* The rows the UPDATE selects.
TimedOut == {c \in expired : status[c] \in {"pending", "published"}}

CommandTimeout ==
    /\ TimedOut # {}
    /\ status' = [c \in Commands |->
                    IF c \in TimedOut THEN "timeout" ELSE status[c]]
    /\ completed' = completed \cup TimedOut
    /\ UNCHANGED <<api, response, requests, responses, job, expired, gwExpired,
                   effects, lateCommit>>

ServerClock(c) ==
    /\ api[c] # "none"
    /\ c \notin expired
    /\ expired' = expired \cup {c}
    /\ UNCHANGED <<api, status, response, completed, requests, responses, job,
                   gwExpired, effects, lateCommit>>

GatewayClock(c) ==
    /\ api[c] # "none"
    /\ c \notin gwExpired
    /\ gwExpired' = gwExpired \cup {c}
    /\ UNCHANGED <<api, status, response, completed, requests, responses, job,
                   expired, effects, lateCommit>>
-------------------------------------------------------------------------------
Next ==
    \/ \E c \in Commands :
         \/ InsertPending(c) \/ PublishRequest(c) \/ PublishFails(c)
         \/ CommitPublished(c) \/ CommitFails(c)
         \/ GatewayExecutes(c) \/ GatewayRefuses(c)
         \/ ServerClock(c) \/ GatewayClock(c)
         \/ \E g \in Gateways, s \in Answers : StrayResponse(c, g, s)
    \/ \E m \in responses : WorkerReads(m)
    \/ WorkerCommits \/ WorkerFails \/ CommandTimeout

Spec == Init /\ [][Next]_vars

\* The scheduler's loop survives every error and ticks every 10 s, and time
\* passes.  Nothing is assumed of the backend, the network, the gateway or the
\* worker.
Fairness ==
    /\ WF_vars(CommandTimeout)
    /\ \A c \in Commands : WF_vars(ServerClock(c))

FairSpec == Spec /\ Fairness
-------------------------------------------------------------------------------
(* Properties *)

\* Type invariant; a job is on a command that has a row.
TypeOK ==
    /\ api \in [Commands -> ApiPcs]
    /\ status \in [Commands -> Statuses]
    /\ response \in [Commands -> Answers \cup {"none"}]
    /\ completed \subseteq Commands
    /\ requests \subseteq Commands
    /\ responses \subseteq Response
    /\ job \in {NoJob} \cup
               [phase : {"read"}, msg : Response, seen : Statuses]
    /\ expired \subseteq Commands
    /\ gwExpired \subseteq Commands
    /\ effects \in [Commands -> Nat]
    /\ lateCommit \subseteq Commands

\* A command is shown as executed only if its own gateway switched for it, in
\* spite of repeated, late and stray responses.
ExecutedIsReal ==
    \A c \in Commands :
        status[c] = "executed" \/ response[c] = "executed" => effects[c] > 0

\* Status and stored response agree, however the worker, the scheduler and
\* repeated responses interleave: the one thing that separates them is the
\* backend's commit of "published" when it comes after the answer.
StatusMatchesResponse ==
    \A c \in Commands \ lateCommit :
        response[c] # "none" => status[c] = response[c]

\* A row that says it is settled has a completed_at, and the timeout sweep took
\* only expired commands.
SettledIsComplete ==
    \A c \in Commands :
        /\ status[c] \in Settled => c \in completed
        /\ status[c] = "timeout" => c \in expired

\* A command has no row, no message and no job before InsertPending.
NothingBeforeInsert ==
    \A c \in Commands : api[c] = "none" =>
        /\ status[c] = "none" /\ response[c] = "none"
        /\ c \notin requests
        /\ \A m \in responses : m.command # c
        /\ job # NoJob => job.msg.command # c

\* An "executed" on its way from the right gateway is true, and the worker only
\* works on answers of the right gateway.
AnswersTrue ==
    /\ \A m \in responses :
          m.gateway = GatewayOf[m.command] /\ m.status = "executed"
              => effects[m.command] > 0
    /\ job # NoJob =>
          /\ job.msg.gateway = GatewayOf[job.msg.command]
          /\ job.msg.status = "executed" => effects[job.msg.command] > 0

\* An answer in the status column is the stored response, and an answer that
\* the worker saw in the row is still there unless "published" came late.
AnswersStored ==
    /\ \A c \in Commands : status[c] \in Answers => response[c] = status[c]
    /\ job # NoJob /\ job.seen \in Answers =>
          /\ response[job.msg.command] # "none"
          /\ \/ status[job.msg.command] = job.seen
             \/ /\ job.msg.command \in lateCommit
                /\ status[job.msg.command] \in {"published", "timeout"}

\* Why status and response agree: every answer in the row came from a true
\* message, and what the worker holds in its session cannot be stale in a way
\* that loses an answer, except through lateCommit.
IInv ==
    /\ TypeOK
    /\ NothingBeforeInsert
    /\ AnswersTrue
    /\ AnswersStored
    /\ ExecutedIsReal
    /\ StatusMatchesResponse
    /\ SettledIsComplete

\* Every command that is issued is eventually settled for good, whoever fails:
\* the backend, the broker, the gateway or the worker.
EventuallySettled ==
    \A c \in Commands : api[c] # "none" ~> [](status[c] \in Settled)
===============================================================================
