------------------------------ MODULE JsonCache ------------------------------
(***************************************************************************)
(* The cache in front of cacheable Beacon API reads: RpcPool::beacon_get   *)
(* with JsonCache::get, put and clear.                                     *)
(*                                                                         *)
(* Callers look one path up at the same time (other paths are other        *)
(* entries of the map).  get takes the time, reads the entry and removes   *)
(* an expired one in three separate steps; an answer that has arrived is   *)
(* put into the cache without a further await, so that is one step.        *)
(*                                                                         *)
(* Abstractions.  A value is the time at which the endpoint produced it,   *)
(* some moment of the request that brought it.  A request to an endpoint   *)
(* ends within FetchMax, its timeout; the calls that failed over before it *)
(* have brought nothing.  Hit and miss counters are left out.              *)
(***************************************************************************)
EXTENDS Integers

CONSTANTS
  Caller,     \* concurrent callers of beacon_get
  Ttl,        \* cache_ttl_seconds
  FetchMax,   \* the timeout of one request
  MaxTime     \* bound: the clock

ASSUME CacheAssumption == Ttl \in Nat /\ FetchMax \in Nat /\ MaxTime \in Nat

VARIABLES
  now,        \* Utc::now()
  entry,      \* the entry of the path, or NoEntry
  step,       \* position of each caller in beacon_get
  asked,      \* the `now` of its get
  began,      \* when its request to the endpoint was sent
  cleared,    \* history: when the cache was last cleared
  newest      \* history: the newest value a caller has been given

cacheVars == <<now, entry, step, asked, began, cleared, newest>>

Time == 0..MaxTime
NoEntry == [value |-> 0, expires |-> -1]
Entry == [value : Time, expires : Nat] \cup {NoEntry}

Present == entry # NoEntry

Larger(x, y) == IF x > y THEN x ELSE y

CacheInit ==
  /\ now = 0
  /\ entry = NoEntry
  /\ step = [c \in Caller |-> "idle"]
  /\ asked = [c \in Caller |-> 0]
  /\ began = [c \in Caller |-> 0]
  /\ cleared = 0
  /\ newest = 0

\* A caller leaves beacon_get.
Leave(c) ==
  /\ step' = [step EXCEPT ![c] = "idle"]
  /\ asked' = [asked EXCEPT ![c] = 0]
  /\ began' = [began EXCEPT ![c] = 0]

\* Time passes, but not beyond the timeout of a request.
Advance ==
  /\ now < MaxTime
  /\ \A c \in Caller : step[c] = "fetch" => now < began[c] + FetchMax
  /\ now' = now + 1
  /\ UNCHANGED <<entry, step, asked, began, cleared, newest>>

\* beacon_get with cacheable: get takes the time.
Ask(c) ==
  /\ step[c] = "idle"
  /\ step' = [step EXCEPT ![c] = "get"]
  /\ asked' = [asked EXCEPT ![c] = now]
  /\ UNCHANGED <<now, entry, began, cleared, newest>>

\* Mutant: the expiry is not compared.
HitAnyEntry(c) ==
  /\ step[c] = "get"
  /\ Present
  /\ Leave(c)
  /\ newest' = Larger(newest, entry.value)
  /\ UNCHANGED <<now, entry, cleared>>

\* A caller that read its time long ago may be given an entry that has
\* expired meanwhile.
Hit(c) ==
  /\ step[c] = "get"
  /\ Present /\ entry.expires > asked[c]
  /\ Leave(c)
  /\ newest' = Larger(newest, entry.value)
  /\ UNCHANGED <<now, entry, cleared>>

\* No entry, or an expired one that get will remove.
Miss(c) ==
  /\ step[c] = "get"
  /\ \/ ~ Present /\ step' = [step EXCEPT ![c] = "send"]
     \/ /\ Present /\ entry.expires <= asked[c]
        /\ step' = [step EXCEPT ![c] = "remove"]
  /\ UNCHANGED <<now, entry, asked, began, cleared, newest>>

\* The entry is removed, also when another caller has just stored a new one.
Remove(c) ==
  /\ step[c] = "remove"
  /\ entry' = NoEntry
  /\ step' = [step EXCEPT ![c] = "send"]
  /\ UNCHANGED <<now, asked, began, cleared, newest>>

\* A request goes to an endpoint: the first one, or the next after a failure.
Send(c) ==
  /\ step[c] \in {"send", "fetch"}
  /\ step' = [step EXCEPT ![c] = "fetch"]
  /\ began' = [began EXCEPT ![c] = now]
  /\ UNCHANGED <<now, entry, asked, cleared, newest>>

\* Mutants: an entry that is there already stays; the TTL is subtracted.
PutIfAbsent(c) ==
  /\ step[c] = "fetch"
  /\ \E v \in began[c]..now :
       /\ entry' = IF Present THEN entry
                   ELSE [value |-> v, expires |-> now + Ttl]
       /\ newest' = Larger(newest, v)
  /\ Leave(c)
  /\ UNCHANGED <<now, cleared>>

\* The answer is put into the cache and returned.
Put(c) ==
  /\ step[c] = "fetch"
  /\ \E v \in began[c]..now :
       /\ entry' = [value |-> v, expires |-> now + Ttl]
       /\ newest' = Larger(newest, v)
  /\ Leave(c)
  /\ UNCHANGED <<now, cleared>>

\* All endpoints failed, or the caller gave up.
FetchFails(c) ==
  /\ step[c] = "fetch"
  /\ Leave(c)
  /\ UNCHANGED <<now, entry, cleared, newest>>

\* Mutant: the map is left as it is.
ClearNothing ==
  /\ cleared' = now
  /\ UNCHANGED <<now, entry, step, asked, began, newest>>

\* POST /actions/reset-state.
Clear ==
  /\ entry' = NoEntry
  /\ cleared' = now
  /\ UNCHANGED <<now, step, asked, began, newest>>

CacheNext ==
  \/ Advance
  \/ Clear
  \/ \E c \in Caller : \/ Ask(c) \/ Hit(c) \/ Miss(c) \/ Remove(c)
                       \/ Send(c) \/ Put(c) \/ FetchFails(c)

CacheSpec == CacheInit /\ [][CacheNext]_cacheVars

-----------------------------------------------------------------------------

CacheTypeOK ==
  /\ now \in Time
  /\ entry \in Entry
  /\ step \in [Caller -> {"idle", "get", "remove", "send", "fetch"}]
  /\ asked \in [Caller -> Time]
  /\ began \in [Caller -> Time]
  /\ cleared \in Time
  /\ newest \in Time

\* What a caller is given from the cache was produced less than the TTL and
\* one request timeout before the caller asked.
HitsAreFresh ==
  [][\A c \in Caller : Hit(c) => asked[c] - entry.value < Ttl + FetchMax]_cacheVars

\* After a reset no caller is given a value that is older than the reset by
\* more than one request timeout.  A request that was under way during the
\* reset may still store what it fetched before it.
ResetForgets ==
  [][\A c \in Caller : Hit(c) => entry.value >= cleared - FetchMax]_cacheVars

\* A late answer may overwrite a newer one, but callers never see the time at
\* which an answer was produced go back by more than one request timeout. An
\* endpoint whose chain lags behind the others' is not part of this bound.
NeverFarBack ==
  [][\A c \in Caller : Hit(c) => entry.value >= newest - FetchMax]_cacheVars
=============================================================================
