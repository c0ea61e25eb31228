-------------------------- MODULE ValidatorTargets --------------------------
(***************************************************************************)
(* The validator inventory of the daemon: which targets the operator asked *)
(* for, which validators the monitor polls, and what the dashboard shows.  *)
(*                                                                         *)
(*   MonitorEngine::{targets, tracked, payload}   volatile, behind RwLocks *)
(*   app_state['tracked_targets']                 persistent (SQLite)      *)
(*   validator_registry                           persistent (SQLite)      *)
(*                                                                         *)
(* POST /import runs import_validator on its own task and without the tick *)
(* lock, so its reads and writes interleave with other imports and with    *)
(* the monitor tick.  Every lock acquisition of the code is a step here.   *)
(*                                                                         *)
(* Abstractions.  An id stands for the trimmed, lower-cased text of        *)
(* ValidatorTarget::id.  The four label fields are reduced to whether      *)
(* is_seed_placeholder accepts them.  The order of the Vecs is dropped: it *)
(* only decides which label a doubly imported validator gets.  One id      *)
(* listed twice in a configuration file counts as one target.              *)
(***************************************************************************)
EXTENDS Naturals, FiniteSets

CONSTANTS
  Importer,      \* concurrent POST /import requests
  Bootstrap,     \* the daemon's start-up, a client of resolve_targets too
  Validator,     \* validator indices
  IndexId,       \* ids ValidatorIdentity::from_input reads as an index,
  PubkeyId,      \* ... as a 48-byte public key,
  WithdrawalId,  \* ... as a 20-byte withdrawal address,
  InvalidId,     \* ... and the ids it rejects
  SeedId,        \* the id "12345" of the sample configuration
  Members,       \* Members[id]: the validators the chain has for that id
  ConfigTargets, \* [[validators]] of the configuration file
  Requests,      \* the targets clients may import
  MaxSpawned,    \* bound: tick tasks waiting for the tick lock
  MaxFaults      \* bound: crashes, failed fetches, storage and tick errors

Id == IndexId \union PubkeyId \union WithdrawalId \union InvalidId
Target == [id : Id, seedLabels : BOOLEAN]
Proc == Importer \union {Bootstrap}
PC == {"idle", "persist", "store", "resolve", "fetch", "publish"}

Ids(ts) == {t.id : t \in ts}

ASSUME ConstantsAssumption ==
  /\ Bootstrap \notin Importer
  /\ SeedId \in IndexId
  /\ IndexId \intersect (PubkeyId \union WithdrawalId \union InvalidId) = {}
  /\ PubkeyId \intersect (WithdrawalId \union InvalidId) = {}
  /\ WithdrawalId \intersect InvalidId = {}
  /\ Members \in [Id -> SUBSET Validator]
  /\ ConfigTargets \subseteq Target
  /\ Requests \subseteq Target
  /\ Ids(ConfigTargets) \intersect InvalidId = {}   \* AppConfig::validate
  /\ MaxSpawned \in Nat
  /\ MaxFaults \in Nat

VARIABLES
  daemon,     \* "down", "booting", "up", or "failed": bootstrap returned Err
  targets,    \* MonitorEngine::targets
  tracked,    \* MonitorEngine::tracked (the indices)
  payload,    \* payload.tracked_validator_indices
  saved,      \* the targets a start-up loads: the stored list, or the config
  registry,   \* validators with a row in validator_registry
  pc, req, buf, found, \* per process: position, target, copied targets, result
  tickSnap,   \* the tracked list read by the running tick
  tickPc,     \* "idle" (lock free), "poll", "stored"
  spawned,    \* tick tasks waiting for the lock
  tickFailed, \* the last tick ended without publishing a payload
  faults,     \* faults so far
  alone,      \* history: import p has overlapped no other import
  acked,      \* history: ids of imports answered 202
  solo        \* history: ids (not the seed) acked by an import that was alone

memVars == <<targets, tracked, payload>>
diskVars == <<saved, registry>>
procVars == <<pc, req, buf, found>>
tickVars == <<tickSnap, tickPc, spawned, tickFailed>>
histVars == <<alone, acked, solo>>
vars == <<daemon, memVars, diskVars, procVars, tickVars, faults, histVars>>

NoTarget == [id |-> SeedId, seedLabels |-> TRUE]  \* the rest value of req

TypeOK ==
  /\ daemon \in {"down", "booting", "up", "failed"}
  /\ targets \subseteq Target
  /\ tracked \subseteq Validator
  /\ payload \subseteq Validator
  /\ saved \subseteq Target
  /\ registry \subseteq Validator
  /\ pc \in [Proc -> PC]
  /\ req \in [Proc -> Target]
  /\ buf \in [Proc -> SUBSET Target]
  /\ found \in [Proc -> SUBSET Validator]
  /\ tickSnap \subseteq Validator
  /\ tickPc \in {"idle", "poll", "stored"}
  /\ spawned \in 0..MaxSpawned
  /\ tickFailed \in BOOLEAN
  /\ faults \in 0..MaxFaults
  /\ alone \in [Importer -> BOOLEAN]
  /\ acked \subseteq Id
  /\ solo \subseteq Id \ {SeedId}

(***************************************************************************)
(* Pure parts of the code.                                                 *)
(***************************************************************************)

\* is_seed_placeholder: the sample target, still carrying its sample labels.
IsSeedPlaceholder(t) == t.id = SeedId /\ t.seedLabels

\* Mutant of ImportInto: the imported target replaces the whole list.
ImportReplacesAll(ts, t) == {t}

\* The list edit at the top of import_validator: importing anything but the
\* seed id drops the sample target; a target with the same id is replaced.
ImportInto(ts, t) ==
  LET kept == IF t.id = SeedId THEN ts
              ELSE {x \in ts : ~IsSeedPlaceholder(x)}
  IN  {x \in kept : x.id # t.id} \union {t}

\* Mutant of Candidates: every lookup but an index trusts the registry alone.
CandidatesFromRegistry(t) ==
  IF t.id \in IndexId THEN Members[t.id] ELSE registry \intersect Members[t.id]

\* The indices resolve_targets looks up for a target.  A withdrawal address
\* uses the registry rows it has and scans the chain only when it has none.
Candidates(t) ==
  LET rows == registry \intersect Members[t.id]
  IN  IF t.id \in WithdrawalId /\ rows # {} THEN rows ELSE Members[t.id]

-----------------------------------------------------------------------------
Init ==
  /\ daemon = "down"
  /\ targets = {} /\ tracked = {} /\ payload = {}
  /\ saved = ConfigTargets /\ registry = {}
  /\ pc = [p \in Proc |-> "idle"]
  /\ req = [p \in Proc |-> NoTarget]
  /\ buf = [p \in Proc |-> {}]
  /\ found = [p \in Proc |-> {}]
  /\ tickSnap = {} /\ tickPc = "idle" /\ spawned = 0 /\ tickFailed = FALSE
  /\ faults = 0
  /\ alone = [p \in Importer |-> FALSE]
  /\ acked = {} /\ solo = {}

Fault == faults < MaxFaults /\ faults' = faults + 1

\* Process p returns to rest; the answer to its client is ok or an error.
Rest(p) ==
  /\ pc' = [pc EXCEPT ![p] = "idle"]
  /\ req' = [req EXCEPT ![p] = NoTarget]
  /\ buf' = [buf EXCEPT ![p] = {}]
  /\ found' = [found EXCEPT ![p] = {}]

(***************************************************************************)
(* import_validator, up to resolve_targets.                                *)
(***************************************************************************)

\* The block that holds targets.write().
ImportUpdate(p, t) ==
  /\ daemon = "up" /\ pc[p] = "idle"
  /\ targets' = ImportInto(targets, t)
  /\ pc' = [pc EXCEPT ![p] = "persist"]
  /\ req' = [req EXCEPT ![p] = t]
  /\ alone' = [q \in Importer |->
                 q = p /\ \A r \in Importer \ {p} : pc[r] = "idle"]
  /\ UNCHANGED <<daemon, tracked, payload, diskVars, buf, found, tickVars,
                 faults, acked, solo>>

\* persist_targets: targets.read().clone() ...
PersistRead(p) ==
  /\ pc[p] = "persist"
  /\ pc' = [pc EXCEPT ![p] = "store"]
  /\ buf' = [buf EXCEPT ![p] = targets]
  /\ UNCHANGED <<daemon, memVars, diskVars, req, found, tickVars, faults,
                 histVars>>

\* ... then storage.set_state of that copy.
PersistWrite(p) ==
  /\ pc[p] = "store"
  /\ saved' = buf[p]
  /\ pc' = [pc EXCEPT ![p] = "resolve"]
  /\ buf' = [buf EXCEPT ![p] = {}]
  /\ UNCHANGED <<daemon, memVars, registry, req, found, tickVars, faults,
                 histVars>>

\* set_state fails: the import answers with an error and keeps its edit.
PersistFail(p) ==
  /\ pc[p] = "store"
  /\ Fault
  /\ Rest(p)
  /\ UNCHANGED <<daemon, memVars, diskVars, tickVars, histVars>>

(***************************************************************************)
(* resolve_targets, run by an import or by the bootstrap.                  *)
(***************************************************************************)
\* Mutant of ResolveRead: only the newly imported target is resolved.
ResolveReadNewOnly(p) ==
  /\ pc[p] = "resolve"
  /\ pc' = [pc EXCEPT ![p] = "fetch"]
  /\ buf' = [buf EXCEPT ![p] = {req[p]}]
  /\ UNCHANGED <<daemon, memVars, diskVars, req, found, tickVars, faults,
                 histVars>>

\* self.targets.read().clone() at the top.
ResolveRead(p) ==
  /\ pc[p] = "resolve"
  /\ pc' = [pc EXCEPT ![p] = "fetch"]
  /\ buf' = [buf EXCEPT ![p] = targets]
  /\ UNCHANGED <<daemon, memVars, diskVars, req, found, tickVars, faults,
                 histVars>>

\* One round of the loop.  An index needs no request.  For the others each
\* request may fail, and what fails to resolve is left out without an error.
ResolveOne(p) ==
  /\ pc[p] = "fetch"
  /\ \E t \in buf[p] :
       /\ t.id \notin InvalidId
       /\ buf' = [buf EXCEPT ![p] = @ \ {t}]
       /\ \/ /\ found' = [found EXCEPT ![p] = @ \union Candidates(t)]
             /\ UNCHANGED faults
          \/ /\ t.id \notin IndexId
             /\ \E S \in (SUBSET Candidates(t)) \ {Candidates(t)} :
                  found' = [found EXCEPT ![p] = @ \union S]
             /\ Fault
  /\ UNCHANGED <<daemon, memVars, diskVars, pc, req, tickVars, histVars>>

\* An id from_input rejects ends resolve_targets with an error: the import is
\* answered with it, and a bootstrap takes the daemon down.
ResolveInvalid(p) ==
  /\ pc[p] = "fetch"
  /\ Ids(buf[p]) \intersect InvalidId # {}
  /\ Rest(p)
  /\ daemon' = IF p = Bootstrap THEN "failed" ELSE daemon
  /\ UNCHANGED <<memVars, diskVars, tickVars, faults, histVars>>

\* tracked.write() at the end.
ResolveWrite(p) ==
  /\ pc[p] = "fetch" /\ buf[p] = {}
  /\ tracked' = found[p]
  /\ pc' = [pc EXCEPT ![p] = "publish"]
  /\ UNCHANGED <<daemon, targets, payload, diskVars, req, buf, found,
                 tickVars, faults, histVars>>

\* Mutant of ImportPublish: the handler does not spawn a tick.
ImportPublishNoTick(p) ==
  /\ pc[p] = "publish"
  /\ payload' = found[p]
  /\ acked' = acked \union {req[p].id}
  /\ solo' = IF alone[p] THEN solo \union ({req[p].id} \ {SeedId}) ELSE solo
  /\ Rest(p)
  /\ UNCHANGED <<daemon, targets, tracked, diskVars, tickVars, faults, alone>>

\* The rest of import_validator and of import_handler: payload.write(), a
\* spawned tick task, and the answer 202.
ImportPublish(p) ==
  /\ pc[p] = "publish"
  /\ payload' = found[p]
  /\ spawned < MaxSpawned /\ spawned' = spawned + 1
  /\ acked' = acked \union {req[p].id}
  /\ solo' = IF alone[p] THEN solo \union ({req[p].id} \ {SeedId}) ELSE solo
  /\ Rest(p)
  /\ UNCHANGED <<daemon, targets, tracked, diskVars, tickSnap, tickPc,
                 tickFailed, faults, alone>>

(***************************************************************************)
(* Start-up and crash.                                                     *)
(***************************************************************************)

\* MonitorEngine::new and the first half of bootstrap.
BootLoad ==
  /\ daemon \in {"down", "failed"}
  /\ daemon' = "booting"
  /\ targets' = saved /\ tracked' = {} /\ payload' = {}
  /\ pc' = [pc EXCEPT ![Bootstrap] = "resolve"]
  /\ UNCHANGED <<diskVars, req, buf, found, tickVars, faults, histVars>>

\* The end of bootstrap; the API and the monitor loop start after it.
BootPublish ==
  /\ pc[Bootstrap] = "publish"
  /\ payload' = found[Bootstrap]
  /\ daemon' = "up"
  /\ Rest(Bootstrap)
  /\ UNCHANGED <<targets, tracked, diskVars, tickVars, faults, histVars>>

\* The process dies; only the database survives.
Crash ==
  /\ daemon \in {"booting", "up"}
  /\ Fault
  /\ daemon' = "down"
  /\ targets' = {} /\ tracked' = {} /\ payload' = {}
  /\ pc' = [p \in Proc |-> "idle"]
  /\ req' = [p \in Proc |-> NoTarget]
  /\ buf' = [p \in Proc |-> {}]
  /\ found' = [p \in Proc |-> {}]
  /\ tickSnap' = {} /\ tickPc' = "idle" /\ spawned' = 0 /\ tickFailed' = FALSE
  /\ UNCHANGED <<diskVars, histVars>>

(***************************************************************************)
(* The monitor tick, as far as it touches the inventory.  The tick lock    *)
(* admits one tick at a time, from the monitor loop or a spawned task.     *)
(***************************************************************************)
\* Mutant of TickStart: the list is read from the payload.
TickStartFromPayload(fromQueue) ==
  /\ daemon = "up" /\ tickPc = "idle"
  /\ fromQueue => spawned > 0
  /\ spawned' = IF fromQueue THEN spawned - 1 ELSE spawned
  /\ tickPc' = "poll"
  /\ tickSnap' = payload
  /\ tickFailed' = FALSE
  /\ UNCHANGED <<daemon, memVars, diskVars, procVars, faults, histVars>>

\* The tick lock is taken and tracked.read().clone() copied.
TickStart(fromQueue) ==
  /\ daemon = "up" /\ tickPc = "idle"
  /\ fromQueue => spawned > 0
  /\ spawned' = IF fromQueue THEN spawned - 1 ELSE spawned
  /\ tickPc' = "poll"
  /\ tickSnap' = tracked
  /\ tickFailed' = FALSE
  /\ UNCHANGED <<daemon, memVars, diskVars, procVars, faults, histVars>>

\* upsert_registry of the validators whose snapshot could be fetched.
TickStore(S) ==
  /\ tickPc = "poll"
  /\ registry' = registry \union S
  /\ tickPc' = "stored"
  /\ UNCHANGED <<daemon, memVars, saved, procVars, tickSnap, spawned,
                 tickFailed, faults, histVars>>

\* payload.write() with the indices read at the start of the tick.
TickPublish ==
  /\ tickPc = "stored"
  /\ payload' = tickSnap
  /\ tickPc' = "idle"
  /\ tickSnap' = {}
  /\ UNCHANGED <<daemon, targets, tracked, diskVars, procVars, spawned,
                 tickFailed, faults, histVars>>

\* A storage error or the tick timeout ends the tick before the payload.
TickFail ==
  /\ tickPc # "idle"
  /\ Fault
  /\ tickPc' = "idle"
  /\ tickSnap' = {}
  /\ tickFailed' = TRUE
  /\ UNCHANGED <<daemon, memVars, diskVars, procVars, spawned, histVars>>

\* POST /actions/retry: spawn_tick alone.
Retry ==
  /\ daemon = "up"
  /\ spawned < MaxSpawned /\ spawned' = spawned + 1
  /\ UNCHANGED <<daemon, memVars, diskVars, procVars, tickSnap, tickPc,
                 tickFailed, faults, histVars>>

ResolveStep(p) ==
  \/ ResolveRead(p)
  \/ ResolveOne(p)
  \/ ResolveInvalid(p)
  \/ ResolveWrite(p)

ImportStep(p) ==
  \/ PersistRead(p)
  \/ PersistWrite(p)
  \/ ImportPublish(p)
  \/ ResolveStep(p)

BootStep == BootLoad \/ ResolveStep(Bootstrap) \/ BootPublish

TickStep ==
  \/ \E q \in BOOLEAN : TickStart(q)
  \/ \E S \in SUBSET tickSnap : TickStore(S)
  \/ TickPublish

Next ==
  \/ \E p \in Importer, t \in Requests : ImportUpdate(p, t)
  \/ \E p \in Importer : ImportStep(p) \/ PersistFail(p)
  \/ BootStep
  \/ TickStep
  \/ TickFail
  \/ Retry
  \/ Crash

\* Tokio polls every ready task: a running import, the start-up and the
\* monitor loop are never abandoned.  Clients and faults owe nothing.
Fairness ==
  /\ \A p \in Importer : WF_vars(ImportStep(p))
  /\ WF_vars(BootStep)
  /\ WF_vars(TickStep)

Spec == Init /\ [][Next]_vars
FairSpec == Spec /\ Fairness
-----------------------------------------------------------------------------
(***************************************************************************)
(* Properties.                                                             *)
(***************************************************************************)

\* An import that was answered 202 and overlapped no other import is in the
\* list every later start-up loads, whatever imports overlap, fail or crash
\* after it (import_validator, persist_targets, load_persisted_targets).
SoloImportDurable == solo \subseteq Ids(saved)

\* An index imported that way is polled whenever the daemon is up: no later
\* resolve_targets, by an import or after a restart, drops it, even while
\* the Beacon API fails (resolve_targets reads targets after the edit).
SoloIndexTracked ==
  daemon = "up" =>
    \A id \in solo \intersect IndexId : Members[id] \subseteq tracked

\* A dashboard whose tracked list differs from the monitor's is about to be
\* corrected without waiting for the poll interval: an import is about to
\* publish, a spawned tick waits, or a tick that read the current list runs.
\* The exception is a tick that failed (import_handler, spawn_tick, tick).
StalePayloadHasTickDue ==
  daemon = "up" /\ payload # tracked =>
    \/ spawned > 0
    \/ \E p \in Importer : pc[p] = "publish"
    \/ tickPc # "idle" /\ tickSnap = tracked
    \/ tickFailed

\* While nothing has failed, solo imports by public key are polled as well.
SoloPubkeyTrackedWithoutFaults ==
  daemon = "up" /\ faults = 0 =>
    \A id \in solo \intersect PubkeyId : Members[id] \subseteq tracked

\* A solo index import reaches the dashboard unless the daemon goes down: a
\* tick that read an older list may overwrite it, but a later tick heals it.
\* Ticks fail finitely often here (MaxFaults) and give their lock back, which a
\* Beacon API or a Telegram send that hangs for ever would prevent.
SoloIndexShown ==
  \A id \in IndexId \ {SeedId} :
    (id \in solo /\ daemon = "up") ~>
      (Members[id] \subseteq payload \/ daemon # "up")

\* The documented promise that imports of several validators do not lose one
\* another: every import answered 202 is loaded by the next start-up.
AckedImportDurable == acked \ {SeedId} \subseteq Ids(saved)

\* The documented promise that the daemon can be restarted on its database.
RestartSucceeds == daemon # "failed"

\* The documented meaning of a withdrawal-address target: with no failure and
\* no import running, every validator of the address is polled.
WithdrawalTargetComplete ==
  daemon = "up" /\ faults = 0 /\ (\A p \in Proc : pc[p] = "idle") =>
    \A id \in solo \intersect WithdrawalId : Members[id] \subseteq tracked

\* The documented behaviour of a Beacon outage, last known data stay: no
\* step of a running daemon stops polling a validator imported by key.
OutageKeepsPubkeys ==
  [][daemon = "up" /\ daemon' = "up" =>
       \A id \in solo \intersect PubkeyId :
         Members[id] \subseteq tracked => Members[id] \subseteq tracked']_vars
=============================================================================
