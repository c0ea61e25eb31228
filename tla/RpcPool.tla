------------------------------- MODULE RpcPool -------------------------------
(***************************************************************************)
(* The RPC pool (RpcPool): a request goes through the endpoints in the     *)
(* order of their health scores until one answers; answers and failures    *)
(* move the scores.                                                        *)
(*                                                                         *)
(* Clients are the tasks that call the pool at the same time: the monitor  *)
(* tick and the HTTP handlers.  beacon_get_value, beacon_post_value and    *)
(* execution_value share one loop, so they are one sequence of actions.    *)
(* mark_success and mark_failure copy an endpoint's state, change the copy *)
(* and insert it: two steps on a map that other threads use in between.    *)
(*                                                                         *)
(* Abstractions.  A score is a natural number of units.  The gain of a     *)
(* success (4.5 points less up to 3 for latency) is any member of Gains;   *)
(* latencies and with them the order of equal scores are arbitrary.  The   *)
(* ranking reads all scores in one step.  max_retries is 0 whatever the    *)
(* configuration says, so there is one pass and no backoff.                *)
(***************************************************************************)
EXTENDS Integers, FiniteSets

CONSTANTS
  Endpoint,      \* the configured endpoints of one pool
  Client,        \* concurrent callers
  Poller,        \* the caller that never stops: the monitor tick
  Modes,         \* how endpoints may answer
  MaxScore,      \* 100 points
  Gains,         \* what a success may add
  Mild, Severe,  \* 25 and 45 points
  Threshold      \* 35 points, detect_rpc_degradation

ASSUME PoolAssumption ==
  /\ IsFiniteSet(Endpoint) /\ Endpoint # {}
  /\ Poller \in Client
  \* An answer, a status that is not a success or a JSON-RPC error, no
  \* connection or no answer in time, and a success whose body is not the
  \* JSON the pool needs or breaks off.
  /\ Modes \subseteq {"ok", "errors", "down", "unusable"}
  /\ MaxScore \in Nat
  /\ Gains \subseteq Nat \ {0}
  /\ Mild \in Nat \ {0} /\ Severe \in Nat \ {0}
  /\ Threshold \in Nat

VARIABLES
  mode,      \* how each endpoint answers now
  score,     \* the scores in RpcPool.state
  pc,        \* position of each client in the request loop
  order,     \* the ranking its request goes by
  pos,       \* index in order of the endpoint it has called
  change,    \* what mark_success or mark_failure will do to the score
  copy,      \* the score of the copied EndpointState, changed
  good       \* history: endpoints that answered well ever since it began

vars == <<mode, score, pc, order, pos, change, copy, good>>

N == Cardinality(Endpoint)

Positions == {"idle", "sent", "read", "insert"}

NoOrder == <<>>

Tried(c) == order[c][pos[c]]

\* Mutant: the sort is missing.
RankedUnsorted == {q \in [1..N -> Endpoint] :
                     \A e \in Endpoint : \E i \in 1..N : q[i] = e}

\* ranked_endpoints: by score, the highest first.
Ranked == {q \in [1..N -> Endpoint] :
             /\ \A e \in Endpoint : \E i \in 1..N : q[i] = e
             /\ \A i, j \in 1..N : i < j => score[q[i]] >= score[q[j]]}

\* The score after mark_success (change > 0) or mark_failure (change < 0).
\* A gain is at least 1.5 points, so the lower clamp of mark_success, 1,
\* never applies.
Marked(s, d) == IF s + d > MaxScore THEN MaxScore
                ELSE IF s + d < 0 THEN 0 ELSE s + d

\* The penalty of mark_failure.  The text of a refused or timed out request
\* always has a word of the severe class; the body of an error may have one.
Penalties(m) == IF m = "down" THEN {Severe} ELSE {Mild, Severe}

\* detect_rpc_degradation warns of the endpoint.
Degraded(e) == score[e] < Threshold

-----------------------------------------------------------------------------

\* A request leaves the loop.
Return(c) ==
  /\ pc' = [pc EXCEPT ![c] = "idle"]
  /\ order' = [order EXCEPT ![c] = NoOrder]
  /\ pos' = [pos EXCEPT ![c] = 1]
  /\ good' = [good EXCEPT ![c] = {}]

\* At start-up restore_health inserts the scores an earlier run of the daemon
\* has stored; an endpoint without a row has 75 points.  Every combination of
\* scores occurs: a mark that is inserted late undoes the later ones.
Init ==
  /\ mode \in [Endpoint -> Modes]
  /\ score \in [Endpoint -> 0..MaxScore]
  /\ pc = [c \in Client |-> "idle"]
  /\ order = [c \in Client |-> NoOrder]
  /\ pos = [c \in Client |-> 1]
  /\ change = [c \in Client |-> 0]
  /\ copy = [c \in Client |-> 0]
  /\ good = [c \in Client |-> {}]

\* An endpoint starts to answer in another way.
EndpointChanges(e, m) ==
  /\ mode[e] # m
  /\ mode' = [mode EXCEPT ![e] = m]
  /\ good' = IF m = "ok" THEN good
             ELSE [c \in Client |-> good[c] \ {e}]
  /\ UNCHANGED <<score, pc, order, pos, change, copy>>

\* A caller enters the loop: ranked_endpoints and the first request.
Begin(c) ==
  /\ pc[c] = "idle"
  /\ \E q \in Ranked : order' = [order EXCEPT ![c] = q]
  /\ pc' = [pc EXCEPT ![c] = "sent"]
  /\ pos' = [pos EXCEPT ![c] = 1]
  /\ good' = [good EXCEPT ![c] = {e \in Endpoint : mode[e] = "ok"}]
  /\ UNCHANGED <<mode, score, change, copy>>

\* The endpoint's answer decides what mark_* will do.
\* In beacon_post_value an empty body, or one that breaks off, is a success.
Succeeds(c) ==
  /\ pc[c] = "sent" /\ mode[Tried(c)] = "ok"
  /\ \E g \in Gains : change' = [change EXCEPT ![c] = g]
  /\ pc' = [pc EXCEPT ![c] = "read"]
  /\ UNCHANGED <<mode, score, order, pos, copy, good>>

Fails(c) ==
  /\ pc[c] = "sent" /\ mode[Tried(c)] \in {"errors", "down"}
  /\ \E p \in Penalties(mode[Tried(c)]) :
       change' = [change EXCEPT ![c] = -p]
  /\ pc' = [pc EXCEPT ![c] = "read"]
  /\ UNCHANGED <<mode, score, order, pos, copy, good>>

\* response.json() fails, or `result` is missing: `?` ends the request, with
\* no mark and no other endpoint.
BodyUnusable(c) ==
  /\ pc[c] = "sent" /\ mode[Tried(c)] = "unusable"
  /\ Return(c)
  /\ UNCHANGED <<mode, score, change, copy>>

\* The caller's own timeout expires, or its HTTP client goes away: the future
\* is dropped at its await.
Dropped(c) ==
  /\ pc[c] = "sent"
  /\ Return(c)
  /\ UNCHANGED <<mode, score, change, copy>>

\* mark_*: the state is copied and the copy changed.
MarkRead(c) ==
  /\ pc[c] = "read"
  /\ copy' = [copy EXCEPT ![c] = Marked(score[Tried(c)], change[c])]
  /\ pc' = [pc EXCEPT ![c] = "insert"]
  /\ UNCHANGED <<mode, score, order, pos, change, good>>

\* Mutant: mark_success changes its copy only.
MarkSuccessNoInsert(c) ==
  /\ pc[c] = "insert" /\ change[c] > 0
  /\ Return(c)
  /\ change' = [change EXCEPT ![c] = 0]
  /\ copy' = [copy EXCEPT ![c] = 0]
  /\ UNCHANGED <<mode, score>>

\* mark_success: the copy is inserted and the request returns.
MarkSuccess(c) ==
  /\ pc[c] = "insert" /\ change[c] > 0
  /\ score' = [score EXCEPT ![Tried(c)] = copy[c]]
  /\ Return(c)
  /\ change' = [change EXCEPT ![c] = 0]
  /\ copy' = [copy EXCEPT ![c] = 0]
  /\ UNCHANGED <<mode>>

\* Mutant: the last endpoint of the ranking is never called.
MarkFailureEndsEarly(c) ==
  /\ pc[c] = "insert" /\ change[c] < 0
  /\ score' = [score EXCEPT ![Tried(c)] = copy[c]]
  /\ \/ /\ pos[c] < N - 1
        /\ pos' = [pos EXCEPT ![c] = @ + 1]
        /\ pc' = [pc EXCEPT ![c] = "sent"]
        /\ UNCHANGED <<order, good>>
     \/ pos[c] >= N - 1 /\ Return(c)
  /\ change' = [change EXCEPT ![c] = 0]
  /\ copy' = [copy EXCEPT ![c] = 0]
  /\ UNCHANGED mode

\* Mutant: mark_failure changes its copy only.
MarkFailureNoInsert(c) ==
  /\ pc[c] = "insert" /\ change[c] < 0
  /\ \/ /\ pos[c] < N
        /\ pos' = [pos EXCEPT ![c] = @ + 1]
        /\ pc' = [pc EXCEPT ![c] = "sent"]
        /\ UNCHANGED <<order, good>>
     \/ pos[c] = N /\ Return(c)
  /\ change' = [change EXCEPT ![c] = 0]
  /\ copy' = [copy EXCEPT ![c] = 0]
  /\ UNCHANGED <<mode, score>>

\* mark_failure: the copy is inserted; the loop calls the next endpoint or
\* ends with RpcFailed.
MarkFailure(c) ==
  /\ pc[c] = "insert" /\ change[c] < 0
  /\ score' = [score EXCEPT ![Tried(c)] = copy[c]]
  /\ \/ /\ pos[c] < N
        /\ pos' = [pos EXCEPT ![c] = @ + 1]
        /\ pc' = [pc EXCEPT ![c] = "sent"]
        /\ UNCHANGED <<order, good>>
     \/ pos[c] = N /\ Return(c)
  /\ change' = [change EXCEPT ![c] = 0]
  /\ copy' = [copy EXCEPT ![c] = 0]
  /\ UNCHANGED <<mode>>

Mark(c) == MarkRead(c) \/ MarkSuccess(c) \/ MarkFailure(c)

Step(c) == Succeeds(c) \/ Fails(c) \/ BodyUnusable(c) \/ Mark(c)

Next ==
  \/ \E e \in Endpoint, m \in Modes : EndpointChanges(e, m)
  \/ \E c \in Client : Begin(c) \/ Step(c) \/ Dropped(c)

Spec == Init /\ [][Next]_vars

\* Requests that are under way go on (Tokio polls ready tasks, a request has
\* a timeout), and the monitor loop keeps calling.
FairSpec == /\ Spec
            /\ \A c \in Client : WF_vars(Step(c))
            /\ WF_vars(Begin(Poller))

-----------------------------------------------------------------------------

TypeOK ==
  /\ mode \in [Endpoint -> Modes]
  /\ score \in [Endpoint -> 0..MaxScore]
  /\ pc \in [Client -> Positions]
  /\ order \in [Client -> [1..N -> Endpoint] \cup {NoOrder}]
  /\ pos \in [Client -> 1..N]
  /\ change \in [Client -> Int]
  /\ copy \in [Client -> 0..MaxScore]
  /\ good \in [Client -> SUBSET Endpoint]

\* A request ends with RpcFailed only if no endpoint answered well all the
\* time it ran, whatever other requests do to the scores meanwhile.
FailedMeansNoneGood ==
  [][\A c \in Client : MarkFailure(c) /\ pc'[c] = "idle" => good[c] = {}]_vars

Broken(e) == mode[e] \in {"errors", "down"}

FewDrops == <>[][~ \E c \in Client : Dropped(c)]_vars

\* Failover settles: while one endpoint is broken for good and another one
\* answers, only finitely many requests start at the broken one, although
\* overlapping requests lose each other's marks.
FailoverSettles ==
  \A e \in Endpoint : \A f \in Endpoint \ {e} :
    <>[](Broken(e) /\ mode[f] = "ok") /\ FewDrops
      => <>[][\A c \in Client : Begin(c) => order'[c][1] # e]_vars

\* Requests go on failing: now and then one gets as far as a mark. Callers may
\* be cut off before it for ever, as the step timeouts of a tick
\* (monitor.rs:300) cut off those that hang.
MarksGoOn == []<><<\E c \in Client : MarkFailure(c)>>_vars

\* A lasting outage of every endpoint shows in the scores: in the end all of
\* them stay below the threshold, although marks get lost and most requests may
\* be dropped before they reach the second endpoint. This is the condition on
\* which detect_rpc_degradation (monitor.rs:1652) warns; whether a tick gets as
\* far as storing the warning is a question for MonitorTick.
FullOutageShowsInScores ==
  <>[](\A e \in Endpoint : Broken(e)) /\ MarksGoOn
    => <>[](\A e \in Endpoint : Degraded(e))

\* Once all endpoints answer again, one of them gets its score back.
RecoveryIsSeen ==
  <>[](\A e \in Endpoint : mode[e] = "ok") /\ FewDrops
    => <>[](\E e \in Endpoint : ~ Degraded(e))

\* docs/failure-scenarios.md, single endpoint outage: "Endpoint score falls
\* below threshold" and "Warning incident RPC_HEALTH_DEGRADED".
OutageIsReported ==
  \A e \in Endpoint : \A f \in Endpoint \ {e} :
    FewDrops =>
      (/\ \E c \in Client : pc[c] = "read" /\ Tried(c) = e /\ change[c] < 0
       /\ [](mode[e] = "down" /\ mode[f] = "ok")) ~> Degraded(e)
=============================================================================
