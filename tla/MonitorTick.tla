---------------------------- MODULE MonitorTick ----------------------------
(***************************************************************************)
(* One monitor tick after another: MonitorEngine::tick under the daemon's  *)
(* tick lock and tick timeout, with the liveness checkpoint, the stored    *)
(* incidents and the dashboard payload.                                    *)
(*                                                                         *)
(* A tick is a sequence of network steps, each with a timeout of its own,  *)
(* and of storage steps; the whole of it has a timeout too, whose expiry   *)
(* drops the future at the await it has reached.  Time is what the network *)
(* steps cost, in seconds: an API that is up or refuses costs nothing, one *)
(* that hangs costs the request timeout for every endpoint it fails over   *)
(* to, a slow one answers just before a request timeout.                   *)
(*                                                                         *)
(* Abstractions.  Validators change only through SetTracked, which is what *)
(* an import does (see ValidatorTargets).  Of an incident the code counts, *)
(* and for a missed attestation its validator and epoch.  The condition of *)
(* an API is constant within a step.  Duties and balances are left out.    *)
(***************************************************************************)
EXTENDS Integers, FiniteSets

CONSTANTS
  Validator,
  MaxEpoch,       \* bound: the chain's epochs
  Missed,         \* <<v, e>>: the chain says v was not live in epoch e
  BeaconModes,    \* conditions of the Beacon API in this instance
  ExecModes,      \* conditions of the execution RPC
  MaxLag,         \* epochs by which an endpoint's head may be behind
  RequestTimeout, \* of the RPC pool, in seconds
  Endpoints,      \* endpoints of a pool
  TickTimeout,    \* tick_timeout of the daemon
  MaxFaults       \* bound: crashes and storage errors

Mode == {"up", "slow", "refusing", "hanging"}
Epoch == 0..MaxEpoch
None == -1                           \* Option::None of a head or checkpoint

ASSUME ConstantsAssumption ==
  /\ MaxEpoch \in Nat /\ MaxLag \in Nat /\ MaxFaults \in Nat
  /\ Missed \subseteq Validator \X Epoch
  /\ BeaconModes \subseteq Mode /\ "up" \in BeaconModes
  /\ ExecModes \subseteq Mode /\ "up" \in ExecModes
  /\ RequestTimeout \in Nat \ {0}
  /\ Endpoints \in Nat \ {0}
  /\ TickTimeout \in Nat

VARIABLES
  beacon, exec,  \* condition of the two APIs
  epoch,         \* the chain's epoch
  tracked,       \* MonitorEngine::tracked
  cached,        \* validators with an entry in the JSON cache
  pc,            \* position of the running tick, "idle" when the lock is free
  elapsed,       \* seconds the running tick has used
  head,          \* its chain head (the epoch) ...
  mine,          \* ... its copy of tracked ...
  todo,          \* ... validators still to be fetched ...
  fresh,         \* ... validators fetched ...
  codes,         \* ... codes of its incidents ...
  missed,        \* ... and its missed attestations
  payload,       \* mode, head and validators of the dashboard
  checkpoint,    \* app_state['last_liveness_epoch']
  rows,          \* validator_liveness rows with is_live = 0
  storedCodes,   \* codes with a row in incidents
  storedMissed,  \* missed attestations with a row in incidents
  faults,
  maxHead,       \* history: highest head a tick has worked with
  regressed,     \* history: a tick has worked with a lower head than that
  repeated,      \* history: missed attestations stored more than once
  kept           \* history: validators shown and tracked ever since

apis == <<beacon, exec>>
tick == <<elapsed, head, mine, todo, fresh, codes, missed>>
disk == <<checkpoint, rows, storedCodes, storedMissed>>
seen == <<maxHead, regressed>>
vars == <<apis, epoch, tracked, cached, pc, tick, payload, disk, faults, seen,
          repeated, kept>>

Code == {"CL_HEAD_UNAVAILABLE", "CL_HEAD_TIMEOUT", "EL_UNAVAILABLE",
         "EL_TIMEOUT", "VALIDATOR_FETCH_FAILED", "VALIDATOR_FETCH_TIMEOUT",
         "RPC_HEALTH_DEGRADED"}

\* Mutant of Critical: an unavailable head is only a warning.
CriticalTimeoutOnly == {"CL_HEAD_TIMEOUT"}

\* The codes made with Severity::Critical.
Critical == {"CL_HEAD_UNAVAILABLE", "CL_HEAD_TIMEOUT"}

NetPC == {"head", "exec", "proposer", "sync", "liveness", "snapshots"}
PC == {"idle", "store", "publish"} \union NetPC

EmptyPayload == [mode |-> "initializing", head |-> None, shown |-> {}]

TypeOK ==
  /\ beacon \in BeaconModes /\ exec \in ExecModes
  /\ epoch \in Epoch
  /\ tracked \subseteq Validator /\ cached \subseteq Validator
  /\ pc \in PC
  /\ elapsed \in 0..TickTimeout
  /\ head \in Epoch \union {None}
  /\ mine \subseteq Validator /\ todo \subseteq mine /\ fresh \subseteq mine
  /\ codes \subseteq Code
  /\ missed \subseteq Validator \X Epoch
  /\ payload \in [mode : {"initializing", "healthy", "degraded"},
                  head : Epoch \union {None}, shown : SUBSET Validator]
  /\ checkpoint \in Epoch \union {None}
  /\ rows \subseteq Missed
  /\ storedCodes \subseteq Code
  /\ storedMissed \subseteq Validator \X Epoch
  /\ faults \in 0..MaxFaults
  /\ maxHead \in Epoch \union {None} /\ regressed \in BOOLEAN
  /\ repeated \subseteq Validator \X Epoch
  /\ kept \subseteq Validator

(***************************************************************************)
(* What the network costs.                                                 *)
(***************************************************************************)
CriticalStep == 14
OptionalStep == 8
SnapshotStep == 10

Answers(m) == m \in {"up", "slow"}

\* Seconds one call takes: the pool tries each endpoint once, without retry.
CallCost(m) ==
  CASE m = "slow"    -> RequestTimeout
    [] m = "hanging" -> RequestTimeout * Endpoints
    [] OTHER         -> 0

Least(a, b) == IF a <= b THEN a ELSE b

\* Calls a step makes.  A cached answer saves a call; a failing first call
\* ends a step, except for the two duty requests and the two committees.
Calls ==
  CASE pc = "head"     -> IF Answers(beacon) THEN 2..3 ELSE {1}
    [] pc = "exec"     -> IF Answers(exec) THEN {2} ELSE {1}
    [] pc = "proposer" -> IF mine = {} THEN {0} ELSE {2}
    [] pc = "sync"     -> IF mine = {} THEN {0}
                          ELSE IF Answers(beacon) THEN 0..3 ELSE 0..2
    [] OTHER           -> {1}

StepTimeout ==
  CASE pc \in {"head", "exec"} -> CriticalStep
    [] pc = "snapshots"        -> SnapshotStep
    [] OTHER                   -> OptionalStep

\* Seconds the step at pc may take.
Durations ==
  LET m == IF pc = "exec" THEN exec ELSE beacon
  IN  {Least(k * CallCost(m), StepTimeout) : k \in Calls}

\* The step takes d seconds and the tick's own timeout has not expired.
Takes(d) == elapsed + d <= TickTimeout /\ elapsed' = elapsed + d
-----------------------------------------------------------------------------
Init ==
  /\ beacon = "up" /\ exec = "up"
  /\ epoch = 0
  /\ tracked \in SUBSET Validator
  /\ cached = {}
  /\ pc = "idle"
  /\ elapsed = 0 /\ head = None /\ mine = {} /\ todo = {} /\ fresh = {}
  /\ codes = {} /\ missed = {}
  /\ payload = EmptyPayload
  /\ checkpoint = None /\ rows = {} /\ storedCodes = {} /\ storedMissed = {}
  /\ faults = 0
  /\ maxHead = None /\ regressed = FALSE
  /\ repeated = {} /\ kept = {}

Fault == faults < MaxFaults /\ faults' = faults + 1

\* Mutant of EndTick: the incident list outlives its tick.
EndTickKeepsCodes ==
  /\ pc' = "idle"
  /\ elapsed' = 0 /\ head' = None /\ mine' = {} /\ todo' = {} /\ fresh' = {}
  /\ missed' = {}
  /\ UNCHANGED codes

\* The locals of a tick are dropped with its future.
EndTick ==
  /\ pc' = "idle"
  /\ elapsed' = 0 /\ head' = None /\ mine' = {} /\ todo' = {} /\ fresh' = {}
  /\ codes' = {} /\ missed' = {}

(***************************************************************************)
(* The environment.                                                        *)
(***************************************************************************)
ApisChange ==
  /\ beacon' \in BeaconModes /\ exec' \in ExecModes
  /\ UNCHANGED <<epoch, tracked, cached, pc, tick, payload, disk, faults, seen,
                 repeated, kept>>

NextEpoch ==
  /\ epoch < MaxEpoch
  /\ epoch' = epoch + 1
  /\ UNCHANGED <<apis, tracked, cached, pc, tick, payload, disk, faults, seen,
                 repeated, kept>>

\* resolve_targets of an import replaces the list at any moment.
SetTracked(S) ==
  /\ tracked' = S
  /\ kept' = kept \intersect S
  /\ UNCHANGED <<apis, epoch, cached, pc, tick, payload, disk, faults, seen,
                 repeated>>

\* Entries expire, and POST /actions/reset-state clears them.
ClearCache ==
  /\ cached' = {}
  /\ UNCHANGED <<apis, epoch, tracked, pc, tick, payload, disk, faults, seen,
                 repeated, kept>>

\* The process dies and is started again on its database.
Restart(S) ==
  /\ Fault
  /\ EndTick
  /\ payload' = EmptyPayload /\ cached' = {} /\ tracked' = S /\ kept' = {}
  /\ UNCHANGED <<apis, epoch, disk, seen, repeated>>

(***************************************************************************)
(* The network steps of a tick.                                            *)
(***************************************************************************)
TickBegin ==
  /\ pc = "idle"
  /\ pc' = "head"
  /\ UNCHANGED <<apis, epoch, tracked, cached, tick, payload, disk, faults,
                 seen, repeated, kept>>

UseHead(e) ==
  /\ head' = e
  /\ maxHead' = IF e > maxHead THEN e ELSE maxHead
  /\ regressed' = (regressed \/ e < maxHead)

\* fetch_chain_head; on failure the head of the last payload serves.
FetchHead ==
  /\ pc = "head"
  /\ \E d \in Durations :
       /\ Takes(d)
       /\ \/ /\ Answers(beacon) /\ d < StepTimeout
             /\ \E e \in Epoch : e <= epoch /\ epoch <= e + MaxLag /\ UseHead(e)
             /\ UNCHANGED codes
          \/ /\ ~Answers(beacon) \/ d >= StepTimeout
             /\ UseHead(payload.head)
             /\ codes' = codes \union
                  {IF d < StepTimeout THEN "CL_HEAD_UNAVAILABLE"
                   ELSE "CL_HEAD_TIMEOUT"}
  /\ pc' = "exec"
  /\ UNCHANGED <<apis, epoch, tracked, cached, mine, todo, fresh, missed,
                 payload, disk, faults, repeated, kept>>

\* fetch_execution_head, then tracked.read().clone().  Without a chain head
\* the duties and the liveness check are left out.
FetchExec ==
  /\ pc = "exec"
  /\ \E d \in Durations :
       /\ Takes(d)
       /\ codes' = IF d >= StepTimeout THEN codes \union {"EL_TIMEOUT"}
                   ELSE IF Answers(exec) THEN codes
                   ELSE codes \union {"EL_UNAVAILABLE"}
  /\ mine' = tracked /\ todo' = tracked /\ fresh' = {}
  /\ pc' = IF head = None THEN "snapshots" ELSE "proposer"
  /\ UNCHANGED <<apis, epoch, tracked, cached, head, missed, payload, disk,
                 faults, seen, repeated, kept>>

\* fetch_next_proposer_slots and fetch_sync_committee_membership: whatever
\* fails in them is dropped, and only their time matters here.
FetchDuties ==
  /\ pc \in {"proposer", "sync"}
  /\ \E d \in Durations : Takes(d)
  /\ pc' = IF pc = "proposer" THEN "sync" ELSE "liveness"
  /\ UNCHANGED <<apis, epoch, tracked, cached, head, mine, todo, fresh, codes,
                 missed, payload, disk, faults, seen, repeated, kept>>

\* Mutant of LivenessNeeded: the checkpoint is not consulted.
LivenessEveryTick == head > 0 /\ mine # {}

\* Mutant of LivenessNeeded: epoch 1 counts as the first one too.
LivenessFromEpochTwo == head > 1 /\ checkpoint # head - 1 /\ mine # {}

\* The early returns of check_previous_epoch_liveness.
LivenessNeeded == head > 0 /\ checkpoint # head - 1 /\ mine # {}

NotLive == {m \in Missed : m[1] \in mine /\ m[2] = head - 1}

\* No await separates the rows, the incidents and the checkpoint.
CheckLiveness ==
  /\ pc = "liveness" /\ LivenessNeeded
  /\ Answers(beacon)
  /\ \E d \in Durations : Takes(d) /\ d < StepTimeout
  /\ rows' = rows \union NotLive
  /\ missed' = missed \union NotLive
  /\ checkpoint' = head - 1
  /\ pc' = "snapshots"
  /\ UNCHANGED <<apis, epoch, tracked, cached, head, mine, todo, fresh, codes,
                 payload, storedCodes, storedMissed, faults, seen, repeated,
                 kept>>

\* Nothing to check, or the endpoint fails: a log line, no incident.
SkipLiveness ==
  /\ pc = "liveness"
  /\ \/ ~LivenessNeeded /\ UNCHANGED elapsed
     \/ /\ LivenessNeeded
        /\ \E d \in Durations :
             Takes(d) /\ (~Answers(beacon) \/ d >= StepTimeout)
  /\ pc' = "snapshots"
  /\ UNCHANGED <<apis, epoch, tracked, cached, head, mine, todo, fresh, codes,
                 missed, payload, disk, faults, seen, repeated, kept>>

\* get_state, save_liveness or set_state fails after the rows R: the error is
\* dropped together with the incidents, and the checkpoint stays.
LivenessNotSaved(R) ==
  /\ pc = "liveness" /\ LivenessNeeded
  /\ Answers(beacon)
  /\ Fault
  /\ \E d \in Durations : Takes(d) /\ d < StepTimeout
  /\ rows' = rows \union R
  /\ pc' = "snapshots"
  /\ UNCHANGED <<apis, epoch, tracked, cached, head, mine, todo, fresh, codes,
                 missed, payload, checkpoint, storedCodes, storedMissed, seen,
                 repeated, kept>>

\* fetch_validator_snapshot of one validator, from the cache or the API.
FetchSnapshot(v) ==
  /\ pc = "snapshots" /\ v \in todo
  /\ todo' = todo \ {v}
  /\ \/ /\ v \in cached
        /\ fresh' = fresh \union {v}
        /\ UNCHANGED <<elapsed, codes, cached>>
     \/ \E d \in Durations :
          /\ Takes(d)
          /\ IF Answers(beacon) /\ d < StepTimeout
             THEN /\ fresh' = fresh \union {v}
                  /\ cached' = cached \union {v}
                  /\ UNCHANGED codes
             ELSE /\ codes' = codes \union
                       {IF d < StepTimeout THEN "VALIDATOR_FETCH_FAILED"
                        ELSE "VALIDATOR_FETCH_TIMEOUT"}
                  /\ UNCHANGED <<fresh, cached>>
  /\ UNCHANGED <<apis, epoch, tracked, pc, head, mine, missed, payload, disk,
                 faults, seen, repeated, kept>>

\* detect_rpc_degradation: whether an endpoint's score is below 35 depends on
\* the pools' history, which is open here.
DetectDegradation ==
  /\ pc = "snapshots" /\ todo = {}
  /\ codes' \in {codes, codes \union {"RPC_HEALTH_DEGRADED"}}
  /\ pc' = "store"
  /\ UNCHANGED <<apis, epoch, tracked, cached, elapsed, head, mine, todo, fresh,
                 missed, payload, disk, faults, seen, repeated, kept>>

\* The tick's timeout expires during a network step.
TickTimesOut ==
  /\ pc \in NetPC
  /\ pc = "liveness" => LivenessNeeded
  /\ pc = "snapshots" => todo # {}
  /\ \E d \in Durations : d > 0 /\ elapsed + d >= TickTimeout
  /\ EndTick
  /\ UNCHANGED <<apis, epoch, tracked, cached, payload, disk, faults, seen,
                 repeated, kept>>

(***************************************************************************)
(* The storage steps and the payload.                                      *)
(***************************************************************************)

\* upsert_registry, insert_snapshots and insert_incidents.
StoreIncidents ==
  /\ pc = "store"
  /\ storedCodes' = storedCodes \union codes
  /\ storedMissed' = storedMissed \union missed
  /\ repeated' = repeated \union (missed \intersect storedMissed)
  /\ pc' = "publish"
  /\ UNCHANGED <<apis, epoch, tracked, cached, tick, payload, checkpoint, rows,
                 faults, seen, kept>>

\* Mutant of StorageFails: an error of insert_incidents is ignored.
StorageErrorIgnored ==
  /\ pc = "store"
  /\ Fault
  /\ pc' = "publish"
  /\ UNCHANGED <<apis, epoch, tracked, cached, tick, payload, disk, seen,
                 repeated, kept>>

\* A storage call fails before insert_incidents or after it: tick returns Err
\* and the incidents do not reach the alert engine.
StorageFails ==
  /\ pc \in {"store", "publish"}
  /\ Fault
  /\ EndTick
  /\ UNCHANGED <<apis, epoch, tracked, cached, payload, disk, seen, repeated,
                 kept>>

\* Mutant of Merged: the previous snapshots are not merged in.
MergedFreshOnly == mine \intersect fresh

\* merge_snapshots_with_previous.
Merged == mine \intersect (payload.shown \union fresh)

\* payload.write(), and Ok(incidents) to the alert engine.
Publish ==
  /\ pc = "publish"
  /\ payload' = [mode  |-> IF codes \intersect Critical # {} THEN "degraded"
                           ELSE "healthy",
                 head  |-> head,
                 shown |-> Merged]
  /\ kept' = tracked \intersect (kept \union Merged)
  /\ EndTick
  /\ UNCHANGED <<apis, epoch, tracked, cached, disk, faults, seen, repeated>>

TickStep ==
  \/ TickBegin
  \/ FetchHead
  \/ FetchExec
  \/ FetchDuties
  \/ CheckLiveness
  \/ SkipLiveness
  \/ \E v \in Validator : FetchSnapshot(v)
  \/ DetectDegradation
  \/ TickTimesOut
  \/ StoreIncidents
  \/ Publish

Environment ==
  \/ ApisChange
  \/ NextEpoch
  \/ \E S \in SUBSET Validator : SetTracked(S)
  \/ ClearCache

Failure ==
  \/ \E R \in SUBSET NotLive : LivenessNotSaved(R)
  \/ StorageFails
  \/ \E S \in SUBSET Validator : Restart(S)

Next == TickStep \/ Environment \/ Failure

Spec == Init /\ [][Next]_vars

\* The monitor loop never ends and its steps are bounded by timeouts. A send
\* to Telegram, which has none and holds the tick lock, is left to
\* AlertDelivery: these are behaviours in which every send ends.
FairSpec == Spec /\ WF_vars(TickStep)
-----------------------------------------------------------------------------
(***************************************************************************)
(* Properties.                                                             *)
(***************************************************************************)

\* A missed attestation is stored at most once, across crashes, storage
\* errors and cut-off ticks, as long as the head a tick works with does not
\* go back (check_previous_epoch_liveness, last_liveness_epoch).
MissedOnce == ~regressed => repeated = {}

\* A validator that was shown and has been tracked ever since stays on the
\* dashboard, whatever fails and whatever imports do meanwhile
\* (merge_snapshots_with_previous on the tick's copy of the list).
LastKnownDataStay == kept \subseteq payload.shown

\* The dashboard loses a head it has shown only by a restart (the fallback to
\* latest_payload in tick).
HeadStays ==
  [][payload.head # None /\ payload'.head = None => payload' = EmptyPayload]_vars

\* What a published tick hands to the alert engine is in the database already,
\* and a degraded dashboard has its critical incident there.
AlertsAreStored ==
  [][pc = "publish" /\ payload' # payload /\ payload' # EmptyPayload =>
       /\ codes \subseteq storedCodes /\ missed \subseteq storedMissed
       /\ payload'.mode = "degraded" => Critical \intersect storedCodes # {}]_vars

\* An outage of the Beacon API that answers with errors ends up as a degraded
\* dashboard that stays degraded, whatever the execution RPC does.
RefusedOutageDegrades ==
  <>[](beacon = "refusing") => <>[](payload.mode = "degraded")

\* Once the Beacon API is back for good the dashboard becomes healthy.
RecoveryIsShown == <>[](beacon = "up") => <>[](payload.mode = "healthy")

\* With a working Beacon API and something to track, the last complete epoch
\* has been checked for liveness in the end, also after ticks that fell back to
\* the older head of the last payload.
LivenessCatchesUp ==
  <>[](beacon = "up" /\ tracked # {}) => <>[](epoch > 0 => checkpoint = epoch - 1)

\* The documented behaviour of a full outage, here of endpoints that hang.
HangingOutageDegrades ==
  <>[](beacon = "hanging" /\ tracked = Validator) => <>(payload.mode = "degraded")

\* The documented resumption from the last checkpoint: no epoch is left out.
ResumesFromCheckpoint ==
  [][checkpoint # None => checkpoint' \in {checkpoint, checkpoint + 1}]_vars

\* The documented symptom of MISSED_ATTESTATION: a validator recorded as not
\* live gets its incident, unless the daemon or its database fails.
MissedIsReported ==
  \A m \in Missed : (m \in rows) ~> (m \in storedMissed \/ faults > 0)
============================================================================
