---------------------------- MODULE RpcPoolProofs ----------------------------
(***************************************************************************)
(* Proofs about RpcPool and the cache in front of it, JsonCache.           *)
(*                                                                         *)
(* The request loop of RpcPool for any endpoints, callers and penalties.   *)
(* A request that gives up has called every endpoint, because its ranking  *)
(* covers them all whatever the scores do meanwhile, and each of them has  *)
(* failed once while the request ran.                                      *)
(***************************************************************************)
EXTENDS RpcPool, JsonCache, FiniteSetTheorems, TLAPS

\* q has every endpoint.
Covers(q) == /\ q \in [1..N -> Endpoint]
             /\ \A e \in Endpoint : \E i \in 1..N : q[i] = e

\* A request in the loop has a full ranking, and what it has called without
\* success has failed since it began.
InLoop(c) ==
  pc[c] # "idle" =>
    /\ Covers(order[c])
    /\ \A i \in 1..N : i < pos[c] => order[c][i] \notin good[c]
    /\ pc[c] \in {"read", "insert"} /\ change[c] < 0
         => order[c][pos[c]] \notin good[c]

LoopInv == \A c \in Client : InLoop(c)

PoolInv == TypeOK /\ LoopInv

\* Every endpoint in good answers well now.
GoodInv == \A c \in Client : \A e \in good[c] : mode[e] = "ok"

PoolIInv == PoolInv /\ GoodInv

\* There are finitely many endpoints, and at least one.
LEMMA EndpointCount == N \in Nat /\ N > 0
<1>1. N \in Nat
  BY PoolAssumption, FS_CardinalityType DEF N
<1>2. N # 0
  BY PoolAssumption, FS_EmptySet DEF N
<1> QED BY <1>1, <1>2

\* A new or restored pool satisfies the invariant.
LEMMA InitPool == Init => PoolIInv
BY PoolAssumption, EndpointCount
   DEF Init, PoolIInv, PoolInv, GoodInv, TypeOK, LoopInv, InLoop, Positions, NoOrder

\* Marks keep scores in their range.
LEMMA MarkedRange ==
  ASSUME NEW s \in 0..MaxScore, NEW d \in Int
  PROVE  Marked(s, d) \in 0..MaxScore
BY PoolAssumption DEF Marked

\* An endpoint that starts to fail leaves every good set.
LEMMA ChangesKeep ==
  ASSUME PoolIInv, NEW e \in Endpoint, NEW m \in Modes, EndpointChanges(e, m)
  PROVE  PoolIInv'
<1>1. TypeOK' BY DEF PoolIInv, PoolInv, TypeOK, EndpointChanges
<1>2. \A c \in Client : good'[c] \subseteq good[c]
  BY DEF PoolIInv, PoolInv, TypeOK, EndpointChanges
<1>3. LoopInv'
  BY <1>2 DEF PoolIInv, PoolInv, LoopInv, InLoop, EndpointChanges
<1>4. GoodInv'
  BY DEF PoolIInv, PoolInv, TypeOK, GoodInv, EndpointChanges
<1> QED BY <1>1, <1>3, <1>4 DEF PoolIInv, PoolInv

\* Entering the loop: a ranking covers the endpoints, whatever the scores.
LEMMA BeginKeeps ==
  ASSUME PoolIInv, NEW c \in Client, Begin(c)
  PROVE  PoolIInv'
<1> USE EndpointCount
<1>1. PICK q \in Ranked : order' = [order EXCEPT ![c] = q]
  BY DEF Begin
<1>2. Covers(q) BY DEF Ranked, Covers
<1>3. TypeOK'
  BY <1>1, <1>2 DEF PoolIInv, PoolInv, TypeOK, Begin, Positions, Covers
<1>4. LoopInv'
  <2> SUFFICES ASSUME NEW d \in Client, pc'[d] # "idle"
               PROVE  /\ Covers(order'[d])
                      /\ \A i \in 1..N : i < pos'[d] => order'[d][i] \notin good'[d]
                      /\ pc'[d] \in {"read", "insert"} /\ change'[d] < 0
                           => order'[d][pos'[d]] \notin good'[d]
    BY DEF LoopInv, InLoop, Covers
  <2>1. CASE d = c
    BY <1>1, <1>2, <2>1 DEF PoolIInv, PoolInv, TypeOK, Begin
  <2>2. CASE d # c
    BY <1>1, <2>2 DEF PoolIInv, PoolInv, TypeOK, LoopInv, InLoop, Begin
  <2> QED BY <2>1, <2>2
<1>5. GoodInv' BY DEF PoolIInv, PoolInv, TypeOK, GoodInv, Begin
<1> QED BY <1>3, <1>4, <1>5 DEF PoolIInv, PoolInv

\* A failure is noted only of an endpoint that does not answer well now, so
\* not of one in the good set.
LEMMA AnswerKeeps ==
  ASSUME PoolIInv, NEW c \in Client, Succeeds(c) \/ Fails(c)
  PROVE  PoolIInv'
<1>0. PICK d \in Int : /\ change' = [change EXCEPT ![c] = d]
                       /\ d < 0 => mode[Tried(c)] # "ok"
  BY PoolAssumption DEF Succeeds, Fails, Penalties
<1>1. TypeOK'
  BY <1>0 DEF PoolIInv, PoolInv, TypeOK, Succeeds, Fails, Positions
<1>2. UNCHANGED <<mode, order, pos, good>> /\ pc[c] = "sent"
  BY DEF Succeeds, Fails
<1>3. d < 0 => order[c][pos[c]] \notin good[c]
  BY <1>0 DEF PoolIInv, GoodInv, Tried
<1>4. pc' = [pc EXCEPT ![c] = "read"] BY DEF Succeeds, Fails
<1>5. LoopInv'
  BY <1>0, <1>2, <1>3, <1>4 DEF PoolIInv, PoolInv, TypeOK, LoopInv, InLoop, Covers
<1>6. GoodInv' BY <1>2 DEF PoolIInv, GoodInv
<1> QED BY <1>1, <1>5, <1>6 DEF PoolIInv, PoolInv

\* Leaving the loop keeps the other requests as they are.
LEMMA ReturnKeeps ==
  ASSUME PoolIInv, NEW c \in Client, Return(c), UNCHANGED mode,
         change' \in [Client -> Int],
         \A d \in Client \ {c} : change'[d] = change[d]
  PROVE  LoopInv' /\ GoodInv' /\ pc' \in [Client -> Positions]
         /\ order' \in [Client -> [1..N -> Endpoint] \cup {NoOrder}]
         /\ pos' \in [Client -> 1..N] /\ good' \in [Client -> SUBSET Endpoint]
<1>1. \A d \in Client \ {c} : /\ pc'[d] = pc[d] /\ order'[d] = order[d]
                              /\ pos'[d] = pos[d] /\ good'[d] = good[d]
  BY DEF PoolIInv, PoolInv, TypeOK, Return
<1>2. pc'[c] = "idle" BY DEF PoolIInv, PoolInv, TypeOK, Return
<1>3. ASSUME NEW d \in Client PROVE InLoop(d)'
  <2>1. CASE d = c BY <1>2, <2>1 DEF InLoop
  <2>2. CASE d # c
    <3>1. InLoop(d) BY DEF PoolIInv, PoolInv, LoopInv
    <3> QED BY <1>1, <2>2, <3>1 DEF InLoop, Covers
  <2> QED BY <2>1, <2>2
<1>4. LoopInv' BY <1>3 DEF LoopInv
<1>5. GoodInv' BY DEF PoolIInv, PoolInv, TypeOK, GoodInv, Return
<1>6. pc' \in [Client -> Positions]
  BY DEF PoolIInv, PoolInv, TypeOK, Return, Positions
<1>7. order' \in [Client -> [1..N -> Endpoint] \cup {NoOrder}]
  BY DEF PoolIInv, PoolInv, TypeOK, Return
<1>8. pos' \in [Client -> 1..N]
  BY EndpointCount DEF PoolIInv, PoolInv, TypeOK, Return
<1>9. good' \in [Client -> SUBSET Endpoint]
  BY DEF PoolIInv, PoolInv, TypeOK, Return
<1> QED BY <1>4, <1>5, <1>6, <1>7, <1>8, <1>9

\* Leaving the loop without a mark.
LEMMA LeaveKeeps ==
  ASSUME PoolIInv, NEW c \in Client, BodyUnusable(c) \/ Dropped(c)
  PROVE  PoolIInv'
<1>1. Return(c) /\ UNCHANGED <<mode, score, change, copy>>
  BY DEF BodyUnusable, Dropped
<1>2. change' \in [Client -> Int] BY <1>1 DEF PoolIInv, PoolInv, TypeOK
<1> QED BY <1>1, <1>2, ReturnKeeps DEF PoolIInv, PoolInv, TypeOK

\* The endpoint a request in the loop has called.
LEMMA TriedType ==
  ASSUME PoolIInv, NEW c \in Client, pc[c] # "idle"
  PROVE  Tried(c) \in Endpoint
BY DEF PoolIInv, PoolInv, TypeOK, LoopInv, InLoop, Covers, Tried

\* Copying an endpoint's state changes no score.
LEMMA MarkReadKeeps ==
  ASSUME PoolIInv, NEW c \in Client, MarkRead(c)
  PROVE  PoolIInv'
<1>1. Marked(score[Tried(c)], change[c]) \in 0..MaxScore
  BY TriedType, MarkedRange DEF PoolIInv, PoolInv, TypeOK, MarkRead
<1>2. TypeOK' BY <1>1 DEF PoolIInv, PoolInv, TypeOK, MarkRead, Positions
<1>3. LoopInv' BY DEF PoolIInv, PoolInv, TypeOK, LoopInv, InLoop, MarkRead, Covers
<1>4. GoodInv' BY DEF PoolIInv, GoodInv, MarkRead
<1> QED BY <1>2, <1>3, <1>4 DEF PoolIInv, PoolInv

\* mark_success inserts a score in range and leaves the loop.
LEMMA MarkSuccessKeeps ==
  ASSUME PoolIInv, NEW c \in Client, MarkSuccess(c)
  PROVE  PoolIInv'
<1>1. /\ Return(c) /\ UNCHANGED mode
      /\ change' = [change EXCEPT ![c] = 0]
      /\ score' \in [Endpoint -> 0..MaxScore]
      /\ copy' \in [Client -> 0..MaxScore]
  BY TriedType, PoolAssumption
     DEF MarkSuccess, PoolIInv, PoolInv, TypeOK
<1>2. /\ change' \in [Client -> Int]
      /\ \A d \in Client \ {c} : change'[d] = change[d]
  BY <1>1 DEF PoolIInv, PoolInv, TypeOK
<1> QED BY <1>1, <1>2, ReturnKeeps DEF PoolIInv, PoolInv, TypeOK

\* mark_failure inserts a score in range; the request goes on to the next
\* endpoint, all endpoints up to it having failed, or leaves the loop.
LEMMA MarkFailureKeeps ==
  ASSUME PoolIInv, NEW c \in Client, MarkFailure(c)
  PROVE  PoolIInv'
<1>1. /\ UNCHANGED mode
      /\ pc[c] = "insert" /\ change[c] < 0
      /\ change' = [change EXCEPT ![c] = 0]
      /\ score' \in [Endpoint -> 0..MaxScore]
      /\ copy' \in [Client -> 0..MaxScore]
  BY TriedType, PoolAssumption
     DEF MarkFailure, PoolIInv, PoolInv, TypeOK
<1>2. /\ change' \in [Client -> Int]
      /\ \A d \in Client \ {c} : change'[d] = change[d]
  BY <1>1 DEF PoolIInv, PoolInv, TypeOK
<1>3. CASE Return(c)
  BY <1>1, <1>2, <1>3, ReturnKeeps DEF PoolIInv, PoolInv, TypeOK
<1>4. CASE /\ pos[c] < N
           /\ pos' = [pos EXCEPT ![c] = pos[c] + 1]
           /\ pc' = [pc EXCEPT ![c] = "sent"]
           /\ UNCHANGED <<order, good>>
  <2>1. TypeOK'
    BY <1>1, <1>2, <1>4, EndpointCount DEF PoolIInv, PoolInv, TypeOK, Positions
  <2>2. ASSUME NEW d \in Client PROVE InLoop(d)'
    <3>1. InLoop(d) BY DEF PoolIInv, PoolInv, LoopInv
    <3>2. CASE d = c
      <4>1. Covers(order[c]) BY <1>1, <3>1, <3>2 DEF InLoop
      <4>2. \A i \in 1..N : i < pos[c] + 1 => order[c][i] \notin good[c]
        BY <1>1, <3>1, <3>2, EndpointCount
           DEF InLoop, PoolIInv, PoolInv, TypeOK
      <4>3. pc'[c] = "sent" /\ pos'[c] = pos[c] + 1
        BY <1>4 DEF PoolIInv, PoolInv, TypeOK
      <4> QED BY <1>4, <3>2, <4>1, <4>2, <4>3 DEF InLoop, Covers
    <3>3. CASE d # c
      <4>1. pc'[d] = pc[d] /\ pos'[d] = pos[d] /\ change'[d] = change[d]
        BY <1>2, <1>4, <3>3 DEF PoolIInv, PoolInv, TypeOK
      <4> QED BY <1>4, <3>1, <4>1 DEF InLoop, Covers
    <3> QED BY <3>2, <3>3
  <2>3. GoodInv' BY <1>1, <1>4 DEF PoolIInv, GoodInv
  <2> QED BY <2>1, <2>2, <2>3 DEF PoolIInv, PoolInv, LoopInv
<1> QED BY <1>3, <1>4 DEF MarkFailure

\* Every step keeps the invariant.
LEMMA NextPool == PoolIInv /\ [Next]_vars => PoolIInv'
<1> SUFFICES ASSUME PoolIInv, [Next]_vars PROVE PoolIInv'
  OBVIOUS
<1>1. CASE UNCHANGED vars
  BY <1>1 DEF PoolIInv, PoolInv, GoodInv, TypeOK, LoopInv, InLoop, Covers, vars
<1>2. CASE Next
  BY <1>2, ChangesKeep, BeginKeeps, AnswerKeeps, LeaveKeeps, MarkReadKeeps,
     MarkSuccessKeeps, MarkFailureKeeps DEF Next, Step, Mark
<1> QED BY <1>1, <1>2

\* The invariant holds in every state of the pool.
LEMMA PoolInvariant == Spec => []PoolIInv
BY InitPool, NextPool, PTL DEF Spec

\* RpcPool keeps its types, with every score between 0 and the maximum, for
\* any endpoints, callers, gains and penalties.
THEOREM TypeCorrect == Spec => []TypeOK
BY PoolInvariant, PTL DEF PoolIInv, PoolInv

\* The request loop gives up only if no endpoint answered well all the time
\* the request ran.
THEOREM FailoverTriesAll == Spec => FailedMeansNoneGood
<1>1. ASSUME PoolIInv, NEW c \in Client, MarkFailure(c), pc'[c] = "idle"
      PROVE  good[c] = {}
  <2>1. pos[c] = N
    BY <1>1 DEF MarkFailure, PoolIInv, PoolInv, TypeOK
  <2>2. /\ pc[c] = "insert" /\ change[c] < 0
        /\ InLoop(c)
    BY <1>1 DEF MarkFailure, PoolIInv, PoolInv, LoopInv
  <2>3. \A i \in 1..N : i < N \/ i = N
    BY EndpointCount
  <2>4. \A i \in 1..N : order[c][i] \notin good[c]
    BY <2>1, <2>2, <2>3 DEF InLoop
  <2>5. \A e \in Endpoint : e \notin good[c]
    BY <2>2, <2>4 DEF InLoop, Covers
  <2> QED BY <1>1, <2>5 DEF PoolIInv, PoolInv, TypeOK
<1>2. PoolIInv /\ [Next]_vars
        => [\A c \in Client :
              MarkFailure(c) /\ pc'[c] = "idle" => good[c] = {}]_vars
  BY <1>1
<1> QED BY <1>2, PoolInvariant, PTL DEF Spec, FailedMeansNoneGood

(***************************************************************************)
(* The cache in front of the pool, for any number of callers, TTL and      *)
(* request timeout.  The argument is about the moment an entry was put,    *)
(* which is entry.expires - Ttl: its value is at most one request timeout  *)
(* older, the last reset and everything callers were given is not younger. *)
(***************************************************************************)

\* The moment the present entry was put.
PutAt == entry.expires - Ttl

\* A request to an endpoint is at most FetchMax old.
RequestInv ==
  \A c \in Caller : step[c] = "fetch" => /\ began[c] <= now
                                       /\ now <= began[c] + FetchMax

\* What is put, reset and returned is ordered by the clock.
EntryInv ==
  /\ cleared <= now /\ newest <= now
  /\ Present => /\ PutAt <= now
                /\ entry.value <= PutAt
                /\ PutAt <= entry.value + FetchMax
                /\ cleared <= PutAt
                /\ newest <= PutAt

CacheInv == CacheTypeOK /\ RequestInv /\ EntryInv

\* A present entry has a value and an expiry.
LEMMA EntryType ==
  ASSUME CacheTypeOK, Present
  PROVE  entry.value \in Time /\ entry.expires \in Nat
BY DEF CacheTypeOK, Entry, Present

\* The invariant holds when the daemon starts with an empty cache.
LEMMA InitCache == CacheInit => CacheInv
BY CacheAssumption DEF CacheInit, CacheInv, CacheTypeOK, RequestInv, EntryInv, Time,
    Entry,
   NoEntry, Present

\* A step of get that leaves the entry and the history alone keeps it.
LEMMA LookupKeeps ==
  ASSUME CacheInv, NEW c \in Caller,
         Ask(c) \/ Miss(c) \/ Send(c) \/ FetchFails(c)
  PROVE  CacheInv'
<1> USE CacheAssumption DEF CacheInv
<1>1. CacheTypeOK'
  BY DEF CacheTypeOK, Ask, Miss, Send, FetchFails, Leave, Time
<1>2. RequestInv'
  BY DEF CacheTypeOK, RequestInv, Ask, Miss, Send, FetchFails, Leave, Time
<1>3. EntryInv'
  BY DEF CacheTypeOK, EntryInv, Present, PutAt, Ask, Miss, Send, FetchFails
<1> QED BY <1>1, <1>2, <1>3

\* Every step of a caller, of the clock and of a reset keeps the invariant.
LEMMA NextCache == CacheInv /\ [CacheNext]_cacheVars => CacheInv'
<1> SUFFICES ASSUME CacheInv, [CacheNext]_cacheVars PROVE CacheInv'
  OBVIOUS
<1> USE CacheAssumption
<1>1. CASE Advance
  <2>1. CacheTypeOK' BY <1>1 DEF CacheInv, CacheTypeOK, Advance, Time
  <2>2. RequestInv' BY <1>1 DEF CacheInv, CacheTypeOK, RequestInv, Advance, Time
  <2>3. EntryInv'
    BY <1>1, EntryType
       DEF CacheInv, CacheTypeOK, EntryInv, Present, PutAt, Advance, Time
  <2> QED BY <2>1, <2>2, <2>3 DEF CacheInv
<1>2. CASE Clear
  <2>1. CacheTypeOK' BY <1>2 DEF CacheInv, CacheTypeOK, Clear, Entry
  <2>2. RequestInv' BY <1>2 DEF CacheInv, RequestInv, Clear
  <2>3. EntryInv'
    BY <1>2 DEF CacheInv, CacheTypeOK, EntryInv, Present, Clear, Time
  <2> QED BY <2>1, <2>2, <2>3 DEF CacheInv
<1>3. ASSUME NEW c \in Caller, Hit(c)
      PROVE  CacheInv'
  <2>0. entry \in [value : Time, expires : Nat]
    BY <1>3 DEF CacheInv, CacheTypeOK, Entry, Hit, Present
  <2>1. CacheTypeOK'
    BY <1>3, <2>0 DEF CacheInv, CacheTypeOK, Hit, Leave, Larger, Time
  <2>2. RequestInv' BY <1>3 DEF CacheInv, CacheTypeOK, RequestInv, Hit, Leave
  <2>4. EntryInv'
    BY <1>3, <2>0
       DEF CacheInv, CacheTypeOK, EntryInv, Present, PutAt, Hit, Larger, Time
  <2> QED BY <2>1, <2>2, <2>4 DEF CacheInv
<1>4. ASSUME NEW c \in Caller, Remove(c)
      PROVE  CacheInv'
  <2>1. CacheTypeOK' BY <1>4 DEF CacheInv, CacheTypeOK, Remove, Entry
  <2>2. RequestInv' BY <1>4 DEF CacheInv, CacheTypeOK, RequestInv, Remove
  <2>3. EntryInv' BY <1>4 DEF CacheInv, EntryInv, Present, Remove
  <2> QED BY <2>1, <2>2, <2>3 DEF CacheInv
<1>5. ASSUME NEW c \in Caller, Put(c)
      PROVE  CacheInv'
  <2>1. PICK v \in began[c]..now :
          /\ entry' = [value |-> v, expires |-> now + Ttl]
          /\ newest' = Larger(newest, v)
    BY <1>5 DEF Put
  <2>2. v \in Time /\ v <= now /\ now <= v + FetchMax
    BY <1>5, <2>1 DEF CacheInv, CacheTypeOK, RequestInv, Put, Time
  <2>3. CacheTypeOK'
    BY <1>5, <2>1, <2>2 DEF CacheInv, CacheTypeOK, Put, Leave, Entry, Larger, Time
  <2>4. RequestInv' BY <1>5 DEF CacheInv, CacheTypeOK, RequestInv, Put, Leave
  <2>5. EntryInv'
    BY <1>5, <2>1, <2>2
       DEF CacheInv, CacheTypeOK, EntryInv, Present, PutAt, Put, Larger, Time
  <2> QED BY <2>3, <2>4, <2>5 DEF CacheInv
<1>6. CASE UNCHANGED cacheVars
  BY <1>6 DEF CacheInv, CacheTypeOK, RequestInv, EntryInv, Present, PutAt, cacheVars
<1> QED BY <1>1, <1>2, <1>3, <1>4, <1>5, <1>6, LookupKeeps DEF CacheNext

\* The invariant holds in every state of the cache.
LEMMA CacheInvariant == CacheSpec => []CacheInv
BY InitCache, NextCache, PTL DEF CacheSpec

\* JsonCache and its callers keep their types for any callers and timeouts.
THEOREM CacheTypeCorrect == CacheSpec => []CacheTypeOK
BY CacheInvariant, PTL DEF CacheInv

\* What a hit returns, from the invariant.
LEMMA HitBounds ==
  ASSUME CacheInv, NEW c \in Caller, Hit(c)
  PROVE  /\ asked[c] - entry.value < Ttl + FetchMax
         /\ entry.value >= cleared - FetchMax
         /\ entry.value >= newest - FetchMax
<1>1. entry \in [value : Time, expires : Nat] /\ asked[c] \in Time
  BY DEF CacheInv, CacheTypeOK, Entry, Hit, Present
<1> QED
  BY <1>1, CacheAssumption
     DEF CacheInv, CacheTypeOK, EntryInv, Present, PutAt, Hit, Time

\* beacon_get: a value from the cache is younger than the TTL and one request
\* timeout, for any callers and any interleaving of get, put and clear.
THEOREM CachedIsFresh == CacheSpec => HitsAreFresh
<1>1. CacheInv /\ [CacheNext]_cacheVars
        => [\A c \in Caller :
              Hit(c) => asked[c] - entry.value < Ttl + FetchMax]_cacheVars
  BY HitBounds
<1> QED BY <1>1, CacheInvariant, PTL DEF CacheSpec, HitsAreFresh

\* reset_state: what callers are given later is not older than the reset by
\* more than one request timeout.
THEOREM ResetIsEffective == CacheSpec => ResetForgets
<1>1. CacheInv /\ [CacheNext]_cacheVars
        => [\A c \in Caller :
              Hit(c) => entry.value >= cleared - FetchMax]_cacheVars
  BY HitBounds
<1> QED BY <1>1, CacheInvariant, PTL DEF CacheSpec, ResetForgets

\* put: an answer that overtakes another sets callers back by no more than one
\* request timeout.
THEOREM BoundedSetback == CacheSpec => NeverFarBack
<1>1. CacheInv /\ [CacheNext]_cacheVars
        => [\A c \in Caller :
              Hit(c) => entry.value >= newest - FetchMax]_cacheVars
  BY HitBounds
<1> QED BY <1>1, CacheInvariant, PTL DEF CacheSpec, NeverFarBack
=============================================================================
