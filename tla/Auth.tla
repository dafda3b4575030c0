--------------------------------- MODULE Auth ---------------------------------
(***************************************************************************)
(* Who may call the API: the bearer token, the cache of Keycloak's keys    *)
(* and the user's row (server/app/auth.py, app/utils/jwks.py), in the one  *)
(* event loop of the backend, which also has to send WATCHDOG=1            *)
(* (app/utils/sd.py).  The keys are fetched with a blocking httpx.get: the *)
(* loop stands still meanwhile.                                            *)
(*                                                                         *)
(* An iteration of the loop runs the handles of the requests that are      *)
(* ready, at most BURST of them, and then the timers that were due when it *)
(* began; a timer that fires only wakes its task, whose step runs in the   *)
(* next iteration, behind the requests of that one.  That is the order in  *)
(* which asyncio keeps its handles.  External: Keycloak, which publishes   *)
(* and withdraws keys and may be out of reach, and the verification of a   *)
(* signature and of the claims by jose.                                    *)
(***************************************************************************)
EXTENDS Integers, Sequences

CONSTANTS Kids,            \* key ids
          Subs,            \* sub claims: keycloak_user_id
          BURST,           \* requests that are ready in one iteration, at most
          TTL,             \* kc_jwks_cache_ttl_sec
          SimSub,          \* SUB of sim-fake-jwt.py
          FETCH_TIMEOUT,   \* the longest fetch that kc_jwks_fetch_timeout_sec allows
          INTERVAL,        \* interval_sec of watchdog_loop
          MaxAge           \* bound of the histories of withdrawn keys

ASSUME AuthAssumption ==
    /\ BURST \in Nat /\ TTL \in Nat /\ FETCH_TIMEOUT \in Nat
    /\ INTERVAL \in Nat \ {0}
    /\ MaxAge \in Nat /\ MaxAge > TTL + FETCH_TIMEOUT

NoKid == "no kid"
ListKid == "a list"
NoSub == "no sub"

ASSUME NamesAssumption ==
    NoKid \notin Kids /\ ListKid \notin Kids /\ NoSub \notin Subs /\ SimSub \in Subs

\* A bearer token: the kid of its header, what jose finds wrong with it under that
\* key (its signature, audience or issuer; its times), its sub.
Tokens == [kid : Kids \cup {NoKid}, flaw : {"none", "signature", "expired"},
           sub : Subs \cup {NoSub}]

\* The token of the simulation: alg none, no kid, no signature.
SimToken == [kid |-> NoKid, flaw |-> "signature", sub |-> SimSub]

\* A token whose kid is a JSON list, which no dict can look up; with verification on
\* nothing else of it is looked at.  A token whose realm_access is no object: jose does
\* not mind, Keycloak never signs one.
ListToken == [kid |-> ListKid, flaw |-> "signature", sub |-> SimSub]
RolesToken == [kid |-> NoKid, flaw |-> "roles", sub |-> SimSub]

\* The header of a request: a token, or none that get_token accepts.
NoBearer == [kid |-> NoKid, flaw |-> "no bearer", sub |-> NoSub]
Headers == Tokens \cup {SimToken, ListToken, RolesToken, NoBearer}

VARIABLES
    verify,     \* kc_verify_signature
    published,  \* keys at Keycloak's endpoint
    reachable,  \* Keycloak answers
    cached,     \* _keys
    age,        \* time since _fetched_at, up to TTL + 1, which is stale
    users,      \* provisioned users
    ready,      \* requests whose handles this iteration has still to run
    beat,       \* watchdog_loop: "asleep", timer "due" in this iteration,
                \* "woken" for the next, or "running" in this one
    since,      \* time since the last WATCHDOG=1
    answer      \* the last answer [token, status, reachable], or NoAnswer
\* History: for how long a key has not been published.
VARIABLE withdrawn

envVars == <<verify, published, reachable, users>>
authVars == <<envVars, cached, age, ready, beat, since, answer, withdrawn>>

NoAnswer == [status |-> 0]

AuthInit ==
    /\ verify \in BOOLEAN
    /\ published \in SUBSET Kids
    /\ reachable = TRUE
    /\ cached = {}
    /\ age = TTL + 1
    /\ users = {}
    /\ ready = << >>
    /\ beat = "asleep"
    /\ since = 0
    /\ answer = NoAnswer
    /\ withdrawn = [k \in Kids |-> IF k \in published THEN 0 ELSE MaxAge]

Least(a, b) == IF a <= b THEN a ELSE b

\* d units of time pass; keys that are withdrawn in them may be so at their beginning.
Pass(d) ==
    /\ since' = since + d
    /\ withdrawn' = [k \in Kids |-> IF k \in published' THEN 0
                                    ELSE Least(withdrawn[k] + d, MaxAge)]
-------------------------------------------------------------------------------
(* jwks.py: get_key *)

\* Mutant of NeedsFetch: an old cache is good enough for a kid that it has.
NeedsFetchUnknown(kid) == kid \notin cached

\* Mutant of NeedsFetch: a kid that is unknown waits for the next fetch.
NeedsFetchStale(kid) == age > TTL

NeedsFetch(kid) == age > TTL \/ (kid # ListKid /\ kid \notin cached)

\* A list raises TypeError where it is looked up, before a fetch or after one.
LookupRaises(kid) == kid = ListKid /\ (NeedsFetch(kid) => reachable)

\* The keys are fetched when they are stale or kid is not among them; a fetch that
\* fails leaves the cache as it is.  It takes d, FETCH_TIMEOUT at most; Keycloak may
\* withdraw keys between its response and _fetched_at.
GetKey(kid, d) ==
    LET fetch == NeedsFetch(kid)
        ok == fetch /\ reachable
    IN  /\ cached' = IF ok THEN published ELSE cached
        /\ age' = IF ok THEN 0 ELSE Least(age + d, TTL + 1)
        /\ d \in IF fetch THEN 0..FETCH_TIMEOUT ELSE {0}
        /\ published' \in IF ok /\ d > 0 THEN SUBSET published ELSE {published}

\* What get_key returns is a key: not after a fetch that failed.
KeyFound(kid) ==
    IF NeedsFetch(kid) THEN reachable /\ kid \in published ELSE kid \in cached
-------------------------------------------------------------------------------
(* auth.py *)

\* get_current_user: the row with the sub, if the SELECT does not fail.  It is awaited;
\* rows are only added meanwhile, and nothing else depends on them.
UserStatus(sub) ==
    IF sub = NoSub THEN {401} ELSE {IF sub \in users THEN 200 ELSE 403, 500}

\* _decode_jwt: the token is accepted.  Without verification only its times count.
Decoded(token) ==
    IF verify THEN token.kid # NoKid /\ KeyFound(token.kid) /\ token.flaw = "none"
    ELSE token.flaw # "expired"

\* The answers to a token.  The roles are read when it has been decoded.
AnswersTo(token) ==
    IF verify /\ LookupRaises(token.kid) THEN {500}
    ELSE IF token = NoBearer \/ ~Decoded(token) THEN {401}
    ELSE IF token.flaw = "roles" THEN {500}
    ELSE UserStatus(token.sub)

\* get_token and get_current_user, for one request: the key is asked for before
\* anything else of the token is looked at.
Authenticate(token, d) ==
    /\ IF verify /\ token.kid # NoKid
       THEN GetKey(token.kid, d)
       ELSE d = 0 /\ UNCHANGED <<cached, age, published>>
    /\ \E status \in AnswersTo(token) :
          answer' = [token |-> token, reachable |-> reachable, status |-> status]
-------------------------------------------------------------------------------
(* the event loop *)

\* No handle of the iteration is left.
Between == ready = << >> /\ beat \in {"asleep", "woken"}

\* A new iteration: the requests that are ready, then the timer if it is due, or
\* watchdog_loop if its timer fired in the last one.
Iterate ==
    /\ Between
    /\ \E n \in 0..BURST : ready' \in [1..n -> Headers]
    /\ beat' = IF beat = "woken" THEN "running"
               ELSE IF since >= INTERVAL THEN "due" ELSE "asleep"
    /\ ready' # << >> \/ beat' # "asleep"
    /\ answer' = NoAnswer
    /\ UNCHANGED <<envVars, cached, age, since, withdrawn>>

HandleRequest ==
    /\ ready # << >>
    /\ \E d \in 0..FETCH_TIMEOUT : Authenticate(Head(ready), d) /\ Pass(d)
    /\ ready' = Tail(ready)
    /\ UNCHANGED <<verify, reachable, users, beat>>

\* asyncio.sleep is over.
TimerFires ==
    /\ ready = << >> /\ beat = "due"
    /\ beat' = "woken"
    /\ answer' = NoAnswer
    /\ UNCHANGED <<envVars, cached, age, ready, since, withdrawn>>

\* Mutant of SendWatchdog: watchdog_loop sends when three intervals have passed.
SendWatchdogLate ==
    /\ ready = << >> /\ beat = "running"
    /\ beat' = "asleep"
    /\ since' = IF since >= 3 * INTERVAL THEN 0 ELSE since
    /\ answer' = NoAnswer
    /\ UNCHANGED <<envVars, cached, age, ready, withdrawn>>

\* watchdog_loop sends WATCHDOG=1 and sleeps again.
SendWatchdog ==
    /\ ready = << >> /\ beat = "running"
    /\ beat' = "asleep"
    /\ since' = 0
    /\ answer' = NoAnswer
    /\ UNCHANGED <<envVars, cached, age, ready, withdrawn>>

\* The loop waits for the next event or timer.
Wait ==
    /\ Between /\ beat = "asleep"
    /\ since < INTERVAL
    /\ UNCHANGED <<envVars, cached, ready, beat>>
    /\ Pass(1)
    /\ age' = Least(age + 1, TTL + 1)
    /\ answer' = NoAnswer

\* The backend is started again, by systemd or by hand, perhaps with another
\* setting: the cache is a singleton of the process.
Restart ==
    /\ verify' \in BOOLEAN
    /\ cached' = {}
    /\ age' = TTL + 1
    /\ ready' = << >>
    /\ beat' = "asleep"
    /\ since' = 0
    /\ answer' = NoAnswer
    /\ UNCHANGED <<published, reachable, users, withdrawn>>
-------------------------------------------------------------------------------
(* Keycloak and the administrator *)

Publish(k) ==
    /\ k \notin published
    /\ published' = published \cup {k}
    /\ withdrawn' = [withdrawn EXCEPT ![k] = 0]
    /\ UNCHANGED <<reachable, users>>

Withdraw(k) ==
    /\ k \in published
    /\ published' = published \ {k}
    /\ UNCHANGED <<reachable, users, withdrawn>>

ReachChanges ==
    /\ reachable' = ~reachable
    /\ UNCHANGED <<published, users, withdrawn>>

Provision(s) ==
    /\ s \notin users
    /\ users' = users \cup {s}
    /\ UNCHANGED <<published, reachable, withdrawn>>

Outside ==
    /\ \/ ReachChanges
       \/ \E k \in Kids : Publish(k) \/ Withdraw(k)
       \/ \E s \in Subs : Provision(s)
    /\ answer' = NoAnswer
    /\ UNCHANGED <<verify, cached, age, ready, beat, since>>

AuthNext ==
    \/ Iterate \/ HandleRequest \/ TimerFires \/ SendWatchdog \/ Wait
    \/ Restart \/ Outside

AuthSpec == AuthInit /\ [][AuthNext]_authVars
-------------------------------------------------------------------------------
\* The variables have their types.
AuthTypeOK ==
    /\ verify \in BOOLEAN /\ reachable \in BOOLEAN
    /\ beat \in {"asleep", "due", "woken", "running"}
    /\ published \subseteq Kids /\ cached \subseteq Kids
    /\ age \in 0..(TTL + 1)
    /\ users \subseteq Subs
    /\ ready \in Seq(Headers)
    /\ since \in Nat
    /\ answer = NoAnswer \/ answer \in [token : Headers, reachable : BOOLEAN,
                                        status : {200, 401, 403, 500}]
    /\ withdrawn \in [Kids -> 0..MaxAge]

\* A cached key that Keycloak does not publish any more was withdrawn after it had
\* answered the fetch: get_key hands it out for kc_jwks_cache_ttl_sec and the time of
\* that fetch at most.
CacheLagsByTtl == \A k \in cached : age <= TTL => withdrawn[k] <= age + FETCH_TIMEOUT

\* With verification on, get_current_user accepts a request only if the key of its
\* token was published within the last TTL and the time of a fetch.
ServedKeyIsRecent ==
    verify /\ answer.status = 200 => withdrawn[answer.token.kid] <= TTL + FETCH_TIMEOUT

\* A good token of a provisioned user is refused (401, 403) only if Keycloak could not
\* be reached or does not publish the key: a new key is found at once, and a fetch
\* that failed leaves nothing behind that would refuse the next request.
RefusedForCause ==
    /\ answer.status \in {401, 403}
    /\ answer.token.flaw = "none" \/ (~verify /\ answer.token.flaw = "signature")
    /\ answer.token.sub \in users
    /\ verify => answer.token.kid # NoKid
    => verify /\ (~answer.reachable \/ answer.token.kid \notin published)

\* However the requests come, watchdog_loop's interval is stretched by three
\* bursts of blocking fetches at most.
WatchdogDelayBounded == since <= INTERVAL + 3 * BURST * FETCH_TIMEOUT
===============================================================================
