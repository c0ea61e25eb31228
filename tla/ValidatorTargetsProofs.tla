---------------------- MODULE ValidatorTargetsProofs ----------------------
(***************************************************************************)
(* Proofs about ValidatorTargets, for every set of concurrent imports,     *)
(* every set of ids and validators, and every bound.                       *)
(***************************************************************************)
EXTENDS ValidatorTargets, TLAPS

\* The rest value of a request is a target (the sample target's id).
LEMMA NoTargetType == NoTarget \in Target
BY ConstantsAssumption DEF NoTarget, Target, Id

\* The initial state has the declared types.
LEMMA InitType == Init => TypeOK
<1> SUFFICES ASSUME Init PROVE TypeOK
  OBVIOUS
<1>1. alone \in [Importer -> BOOLEAN] /\ tickFailed \in BOOLEAN
  BY Zenon DEF Init
<1>2. spawned \in 0..MaxSpawned /\ faults \in 0..MaxFaults
  BY ConstantsAssumption DEF Init
<1>3. req \in [Proc -> Target]
  BY NoTargetType DEF Init
<1>4. QED
  BY <1>1, <1>2, <1>3, ConstantsAssumption DEF Init, TypeOK, PC

\* A process that returns to rest keeps the types of its four variables.
LEMMA RestType ==
  ASSUME TypeOK, NEW p \in Proc, Rest(p)
  PROVE  /\ pc' \in [Proc -> PC]
         /\ req' \in [Proc -> Target]
         /\ buf' \in [Proc -> SUBSET Target]
         /\ found' \in [Proc -> SUBSET Validator]
BY NoTargetType DEF TypeOK, Rest, PC

\* Every action keeps the types: one step per action.
LEMMA NextType == TypeOK /\ [Next]_vars => TypeOK'
<1> SUFFICES ASSUME TypeOK, [Next]_vars PROVE TypeOK'
  OBVIOUS
<1> USE DEF memVars, diskVars, procVars, tickVars, histVars
<1>0. Importer \subseteq Proc /\ Bootstrap \in Proc
  BY DEF Proc
<1>1. ASSUME NEW p \in Importer, NEW t \in Requests, ImportUpdate(p, t)
      PROVE  TypeOK'
  <2>1. t \in Target
    BY ConstantsAssumption
  <2>2. targets' \subseteq Target
    BY <1>1, <2>1 DEF ImportUpdate, ImportInto, TypeOK
  <2>3. alone' \in [Importer -> BOOLEAN]
    BY <1>1 DEF ImportUpdate
  <2>4. pc' \in [Proc -> PC] /\ req' \in [Proc -> Target]
    BY <1>1, <1>0, <2>1 DEF ImportUpdate, TypeOK, PC
  <2> QED
    BY <1>1, <2>2, <2>3, <2>4 DEF ImportUpdate, TypeOK
<1>2. ASSUME NEW p \in Proc, PersistRead(p) PROVE TypeOK'
  BY <1>2 DEF PersistRead, TypeOK, PC
<1>3. ASSUME NEW p \in Proc, PersistWrite(p) PROVE TypeOK'
  BY <1>3 DEF PersistWrite, TypeOK, PC
<1>4. ASSUME NEW p \in Proc, PersistFail(p) PROVE TypeOK'
  BY <1>4, RestType, ConstantsAssumption DEF PersistFail, Fault, TypeOK
<1>5. ASSUME NEW p \in Proc, ResolveRead(p) PROVE TypeOK'
  BY <1>5 DEF ResolveRead, TypeOK, PC
<1>6. ASSUME NEW p \in Proc, ResolveOne(p) PROVE TypeOK'
  <2>1. PICK t \in buf[p] : \E S \in SUBSET Candidates(t) :
          /\ buf' = [buf EXCEPT ![p] = @ \ {t}]
          /\ found' = [found EXCEPT ![p] = @ \union S]
          /\ UNCHANGED faults \/ Fault
    BY <1>6 DEF ResolveOne
  <2>2. t \in Target
    BY DEF TypeOK
  <2>3. Candidates(t) \subseteq Validator
    BY <2>2, ConstantsAssumption DEF Candidates, Target
  <2>4. buf' \in [Proc -> SUBSET Target] /\ found' \in [Proc -> SUBSET Validator]
    BY <2>1, <2>3 DEF TypeOK
  <2>5. faults' \in 0..MaxFaults
    BY <2>1, ConstantsAssumption DEF TypeOK, Fault
  <2> QED
    BY <1>6, <2>4, <2>5 DEF ResolveOne, TypeOK
<1>7. ASSUME NEW p \in Proc, ResolveInvalid(p) PROVE TypeOK'
  BY <1>7, RestType DEF ResolveInvalid, TypeOK
<1>8. ASSUME NEW p \in Proc, ResolveWrite(p) PROVE TypeOK'
  BY <1>8 DEF ResolveWrite, TypeOK, PC
<1>9. ASSUME NEW p \in Importer, ImportPublish(p) PROVE TypeOK'
  <2>1. req[p].id \in Id
    BY <1>0 DEF TypeOK, Target
  <2>2. acked' \subseteq Id /\ solo' \subseteq Id \ {SeedId}
    BY <1>9, <2>1 DEF ImportPublish, TypeOK
  <2>3. spawned' \in 0..MaxSpawned
    BY <1>9, ConstantsAssumption DEF ImportPublish, TypeOK
  <2>4. payload' \subseteq Validator
    BY <1>9, <1>0 DEF ImportPublish, TypeOK
  <2> QED
    BY <1>9, <1>0, <2>2, <2>3, <2>4, RestType DEF ImportPublish, TypeOK
<1>10. ASSUME BootLoad PROVE TypeOK'
  BY <1>10, <1>0 DEF BootLoad, TypeOK, PC
<1>11. ASSUME BootPublish PROVE TypeOK'
  BY <1>11, <1>0, RestType DEF BootPublish, TypeOK
<1>12. ASSUME Crash PROVE TypeOK'
  <2>1. spawned' \in 0..MaxSpawned /\ faults' \in 0..MaxFaults
    BY <1>12, ConstantsAssumption DEF Crash, Fault, TypeOK
  <2>2. req' \in [Proc -> Target]
    BY <1>12, NoTargetType DEF Crash
  <2>3. tickFailed' \in BOOLEAN /\ alone' \in [Importer -> BOOLEAN]
    BY <1>12 DEF Crash, TypeOK
  <2> QED
    BY <1>12, <2>1, <2>2, <2>3 DEF Crash, TypeOK, PC
<1>13. ASSUME NEW q \in BOOLEAN, TickStart(q) PROVE TypeOK'
  <2>1. spawned' \in 0..MaxSpawned
    <3>1. CASE q
      BY <1>13, <3>1, ConstantsAssumption DEF TickStart, TypeOK
    <3>2. CASE ~q
      BY <1>13, <3>2, ConstantsAssumption DEF TickStart, TypeOK
    <3> QED
      BY <3>1, <3>2
  <2> QED
    BY <1>13, <2>1 DEF TickStart, TypeOK
<1>14. ASSUME NEW S \in SUBSET tickSnap, TickStore(S) PROVE TypeOK'
  BY <1>14 DEF TickStore, TypeOK
<1>15. ASSUME TickPublish PROVE TypeOK'
  BY <1>15 DEF TickPublish, TypeOK
<1>16. ASSUME TickFail PROVE TypeOK'
  BY <1>16, ConstantsAssumption DEF TickFail, Fault, TypeOK
<1>17. ASSUME Retry PROVE TypeOK'
  BY <1>17, ConstantsAssumption DEF Retry, TypeOK
<1>18. CASE UNCHANGED vars
  BY <1>18 DEF TypeOK, vars
<1> QED
  BY <1>0, <1>1, <1>2, <1>3, <1>4, <1>5, <1>6, <1>7, <1>8, <1>9, <1>10, <1>11,
     <1>12, <1>13, <1>14, <1>15, <1>16, <1>17, <1>18
     DEF Next, ImportStep, ResolveStep, BootStep, TickStep

\* The state always has the declared types.
THEOREM TypeCorrect == Spec => []TypeOK
<1>1. QED
  BY InitType, NextType, PTL DEF Spec

(***************************************************************************)
(* The inductive invariant.                                                *)
(***************************************************************************)

\* Imports and ticks run only in a daemon that is up, the bootstrap only in
\* one that is booting, and an import that is alone has no rival.
Scheduling ==
  /\ daemon # "up" => tickPc = "idle" /\ \A p \in Importer : pc[p] = "idle"
  /\ daemon # "booting" => pc[Bootstrap] = "idle"
  /\ pc[Bootstrap] \notin {"persist", "store"}
  /\ \A p, q \in Importer :
       p # q /\ alone[p] /\ pc[p] # "idle" => pc[q] = "idle"

\* Ids that no later step may lose are in every copy of the target list that
\* can still become the stored one.
SoloEverywhere ==
  /\ daemon \in {"up", "booting"} => solo \subseteq Ids(targets)
  /\ \A p \in Importer : pc[p] = "store" => solo \subseteq Ids(buf[p])

\* How far the running import that is alone has carried its own id.
AloneProgress ==
  \A p \in Importer : alone[p] /\ pc[p] # "idle" /\ req[p].id # SeedId =>
    /\ req[p].id \in Ids(targets)
    /\ pc[p] = "store" => req[p].id \in Ids(buf[p])
    /\ pc[p] \in {"resolve", "fetch", "publish"} => req[p].id \in Ids(saved)

DurableInv == SoloImportDurable /\ SoloEverywhere /\ AloneProgress

\* The validators of an id will be in the result of p's resolution.
Carried(p, id) == id \in Ids(buf[p]) \/ Members[id] \subseteq found[p]

\* The ids of S that were imported alone are polled, and every resolution
\* under way will go on polling them.
Followed(S) ==
  /\ daemon = "up" => \A id \in solo \intersect S : Members[id] \subseteq tracked
  /\ \A p \in Proc : pc[p] = "fetch" => \A id \in solo \intersect S : Carried(p, id)
  /\ pc[Bootstrap] = "publish" =>
       \A id \in solo \intersect S : Members[id] \subseteq tracked
  /\ \A p \in Importer : alone[p] /\ req[p].id \in S \ {SeedId} =>
       /\ pc[p] = "fetch" => Carried(p, req[p].id)
       /\ pc[p] = "publish" => Members[req[p].id] \subseteq tracked

\* Indices need no request; a public key is looked up, which works as long as
\* nothing fails.
TrackedInv == Followed(IndexId)
PubkeyInv == faults = 0 => Followed(PubkeyId)

\* A running tick that holds an outdated list is followed by another one.
PayloadInv ==
  /\ StalePayloadHasTickDue
  /\ tickPc # "idle" /\ tickSnap # tracked =>
       spawned > 0 \/ \E p \in Importer : pc[p] = "publish"
  /\ pc[Bootstrap] = "publish" => tracked = found[Bootstrap]

(***************************************************************************)
(* What the list edit of import_validator keeps and adds.                  *)
(***************************************************************************)
\* An id other than the sample's survives every later list edit.
LEMMA ImportIntoKeeps ==
  ASSUME NEW ts, NEW t, NEW id \in Ids(ts), id # SeedId
  PROVE  id \in Ids(ImportInto(ts, t))
BY DEF Ids, ImportInto, IsSeedPlaceholder

\* The imported id is in the edited list.
LEMMA ImportIntoAdds ==
  ASSUME NEW ts, NEW t
  PROVE  t.id \in Ids(ImportInto(ts, t))
BY DEF Ids, ImportInto

\* The parts of the inductive invariant hold before the first start-up.
LEMMA InitInv ==
  Init => Scheduling /\ DurableInv /\ TrackedInv /\ PubkeyInv /\ PayloadInv
BY ConstantsAssumption
   DEF Init, Scheduling, DurableInv, SoloImportDurable, SoloEverywhere,
       AloneProgress, TrackedInv, PubkeyInv, Followed, PayloadInv,
       StalePayloadHasTickDue, Proc

\* Every step keeps the rules of who runs in which state of the daemon.
LEMMA SchedulingStep ==
  ASSUME TypeOK, Scheduling, [Next]_vars
  PROVE  Scheduling'
<1> USE DEF memVars, diskVars, procVars, tickVars, histVars
<1>0. Importer \subseteq Proc /\ Bootstrap \in Proc /\ Bootstrap \notin Importer
  BY ConstantsAssumption DEF Proc
<1>1. ASSUME NEW p \in Importer, NEW t \in Requests, ImportUpdate(p, t) PROVE Scheduling'
  BY <1>1, <1>0 DEF ImportUpdate, Rest, TypeOK, Scheduling, PC
<1>2. ASSUME NEW p \in Importer, PersistRead(p) PROVE Scheduling'
  BY <1>2, <1>0 DEF PersistRead, Rest, TypeOK, Scheduling, PC
<1>3. ASSUME NEW p \in Importer, PersistWrite(p) PROVE Scheduling'
  BY <1>3, <1>0 DEF PersistWrite, Rest, TypeOK, Scheduling, PC
<1>4. ASSUME NEW p \in Importer, PersistFail(p) PROVE Scheduling'
  BY <1>4, <1>0 DEF PersistFail, Rest, TypeOK, Scheduling, PC
<1>5. ASSUME NEW p \in Proc, ResolveRead(p) PROVE Scheduling'
  BY <1>5, <1>0 DEF ResolveRead, Rest, TypeOK, Scheduling, PC
<1>6. ASSUME NEW p \in Proc, ResolveOne(p) PROVE Scheduling'
  BY <1>6, <1>0 DEF ResolveOne, Rest, TypeOK, Scheduling, PC
<1>7. ASSUME NEW p \in Proc, ResolveInvalid(p) PROVE Scheduling'
  BY <1>7, <1>0 DEF ResolveInvalid, Rest, TypeOK, Scheduling, PC
<1>8. ASSUME NEW p \in Proc, ResolveWrite(p) PROVE Scheduling'
  BY <1>8, <1>0 DEF ResolveWrite, Rest, TypeOK, Scheduling, PC
<1>9. ASSUME NEW p \in Importer, ImportPublish(p) PROVE Scheduling'
  BY <1>9, <1>0 DEF ImportPublish, Rest, TypeOK, Scheduling, PC
<1>10. ASSUME BootLoad PROVE Scheduling'
  BY <1>10, <1>0 DEF BootLoad, Rest, TypeOK, Scheduling, PC
<1>11. ASSUME BootPublish PROVE Scheduling'
  BY <1>11, <1>0 DEF BootPublish, Rest, TypeOK, Scheduling, PC
<1>12. ASSUME Crash PROVE Scheduling'
  BY <1>12, <1>0 DEF Crash, TypeOK, Scheduling, PC
<1>13. ASSUME NEW q \in BOOLEAN, TickStart(q) PROVE Scheduling'
  BY <1>13, <1>0 DEF TickStart, Rest, TypeOK, Scheduling, PC
<1>14. ASSUME NEW S \in SUBSET tickSnap, TickStore(S) PROVE Scheduling'
  BY <1>14, <1>0 DEF TickStore, Rest, TypeOK, Scheduling, PC
<1>15. ASSUME TickPublish PROVE Scheduling'
  BY <1>15, <1>0 DEF TickPublish, Rest, TypeOK, Scheduling, PC
<1>16. ASSUME TickFail PROVE Scheduling'
  BY <1>16, <1>0 DEF TickFail, Rest, TypeOK, Scheduling, PC
<1>17. ASSUME Retry PROVE Scheduling'
  BY <1>17, <1>0 DEF Retry, Rest, TypeOK, Scheduling, PC
<1>18. CASE UNCHANGED vars
  BY <1>18, <1>0 DEF vars, Rest, TypeOK, Scheduling, PC
<1> QED
  BY <1>0, <1>1, <1>2, <1>3, <1>4, <1>5, <1>6, <1>7, <1>8, <1>9,
     <1>10, <1>11, <1>12, <1>13, <1>14, <1>15, <1>16, <1>17, <1>18
     DEF Next, ImportStep, ResolveStep, BootStep, TickStep

\* Every step keeps the part about the persisted list: persist_targets of an
\* overlapping import writes a copy that already has the acknowledged ids.
LEMMA DurableStep ==
  ASSUME TypeOK, Scheduling, DurableInv, [Next]_vars
  PROVE  DurableInv'
<1> USE DEF memVars, diskVars, procVars, tickVars, histVars
<1>0. Importer \subseteq Proc /\ Bootstrap \in Proc /\ Bootstrap \notin Importer
  BY ConstantsAssumption DEF Proc
<1>1. ASSUME NEW p \in Importer, NEW t \in Requests, ImportUpdate(p, t) PROVE DurableInv'
  <2>1. daemon = "up" /\ solo' = solo /\ daemon' = daemon /\ saved' = saved
    BY <1>1 DEF ImportUpdate
  <2>2. solo \subseteq Ids(targets')
    BY <1>1, <2>1, ImportIntoKeeps
       DEF ImportUpdate, DurableInv, SoloEverywhere, TypeOK
  <2>3. req'[p].id \in Ids(targets')
    BY <1>1, <1>0, ImportIntoAdds DEF ImportUpdate, TypeOK
  <2>4. \A q \in Importer : pc'[q] # "idle" /\ alone'[q] => q = p /\ pc'[p] = "persist"
    BY <1>1, <1>0 DEF ImportUpdate, TypeOK
  <2>5. \A q \in Importer : pc'[q] = "store" => pc[q] = "store" /\ buf'[q] = buf[q]
    BY <1>1, <1>0 DEF ImportUpdate, TypeOK
  <2>6. AloneProgress'
    BY <2>3, <2>4 DEF AloneProgress
  <2> QED
    BY <2>1, <2>2, <2>5, <2>6
       DEF DurableInv, SoloImportDurable, SoloEverywhere
<1>2. ASSUME NEW p \in Importer, PersistRead(p) PROVE DurableInv'
  <2>1. daemon = "up"
    BY <1>2, <1>0 DEF PersistRead, Scheduling
  <2> QED
    BY <1>2, <1>0, <2>1
       DEF PersistRead, Scheduling, TypeOK, PC, DurableInv, SoloImportDurable,
           SoloEverywhere, AloneProgress
<1>3. ASSUME NEW p \in Importer, PersistWrite(p) PROVE DurableInv'
  <2>1. SoloImportDurable' /\ SoloEverywhere'
    BY <1>3, <1>0
       DEF PersistWrite, TypeOK, DurableInv, SoloImportDurable, SoloEverywhere
  <2>2. \A q \in Importer \ {p} : alone'[q] => pc'[q] = "idle"
    BY <1>3, <1>0 DEF PersistWrite, TypeOK, Scheduling
  <2>3. AloneProgress'
    BY <1>3, <1>0, <2>2
       DEF PersistWrite, TypeOK, DurableInv, AloneProgress
  <2> QED
    BY <2>1, <2>3 DEF DurableInv
<1>4. ASSUME NEW p \in Importer, PersistFail(p) PROVE DurableInv'
  BY <1>4, <1>0
     DEF PersistFail, Rest, TypeOK, Scheduling, DurableInv, SoloImportDurable,
         SoloEverywhere, AloneProgress
<1>5. ASSUME NEW p \in Proc, ResolveRead(p) PROVE DurableInv'
  BY <1>5, <1>0
     DEF ResolveRead, Rest, TypeOK, Scheduling, DurableInv, SoloImportDurable,
         SoloEverywhere, AloneProgress
<1>6. ASSUME NEW p \in Proc, ResolveOne(p) PROVE DurableInv'
  BY <1>6, <1>0
     DEF ResolveOne, Rest, TypeOK, Scheduling, DurableInv, SoloImportDurable,
         SoloEverywhere, AloneProgress
<1>7. ASSUME NEW p \in Proc, ResolveInvalid(p) PROVE DurableInv'
  BY <1>7, <1>0
     DEF ResolveInvalid, Rest, TypeOK, Scheduling, DurableInv, SoloImportDurable,
         SoloEverywhere, AloneProgress
<1>8. ASSUME NEW p \in Proc, ResolveWrite(p) PROVE DurableInv'
  BY <1>8, <1>0
     DEF ResolveWrite, Rest, TypeOK, Scheduling, DurableInv, SoloImportDurable,
         SoloEverywhere, AloneProgress
<1>9. ASSUME NEW p \in Importer, ImportPublish(p) PROVE DurableInv'
  <2>1. daemon = "up" /\ daemon' = "up"
    BY <1>9, <1>0 DEF ImportPublish, Scheduling
  <2>2. alone[p] => \A q \in Importer : pc'[q] = "idle"
    BY <1>9, <1>0 DEF ImportPublish, Rest, TypeOK, Scheduling
  <2>3. solo' \subseteq Ids(saved) /\ solo' \subseteq Ids(targets)
    BY <1>9, <2>1
       DEF ImportPublish, DurableInv, SoloImportDurable, SoloEverywhere,
           AloneProgress
  <2>4. SoloEverywhere'
    <3>1. CASE alone[p]
      BY <1>9, <2>2, <2>3, <3>1 DEF ImportPublish, SoloEverywhere
    <3>2. CASE ~alone[p]
      BY <1>9, <1>0, <2>3, <3>2
         DEF ImportPublish, Rest, TypeOK, DurableInv, SoloEverywhere
    <3> QED
      BY <3>1, <3>2
  <2>5. AloneProgress'
    BY <1>9, <1>0 DEF ImportPublish, Rest, TypeOK, DurableInv, AloneProgress
  <2> QED
    BY <1>9, <2>3, <2>4, <2>5 DEF ImportPublish, DurableInv, SoloImportDurable
<1>10. ASSUME BootLoad PROVE DurableInv'
  BY <1>10, <1>0
     DEF BootLoad, TypeOK, Scheduling, DurableInv, SoloImportDurable,
         SoloEverywhere, AloneProgress
<1>11. ASSUME BootPublish PROVE DurableInv'
  BY <1>11, <1>0
     DEF BootPublish, Rest, TypeOK, Scheduling, DurableInv, SoloImportDurable,
         SoloEverywhere, AloneProgress
<1>12. ASSUME Crash PROVE DurableInv'
  BY <1>12, <1>0
     DEF Crash, TypeOK, DurableInv, SoloImportDurable, SoloEverywhere,
         AloneProgress
<1>13. ASSUME NEW q \in BOOLEAN, TickStart(q) PROVE DurableInv'
  BY <1>13, <1>0
     DEF TickStart, Rest, TypeOK, Scheduling, DurableInv, SoloImportDurable,
         SoloEverywhere, AloneProgress
<1>14. ASSUME NEW S \in SUBSET tickSnap, TickStore(S) PROVE DurableInv'
  BY <1>14, <1>0
     DEF TickStore, Rest, TypeOK, Scheduling, DurableInv, SoloImportDurable,
         SoloEverywhere, AloneProgress
<1>15. ASSUME TickPublish PROVE DurableInv'
  BY <1>15, <1>0
     DEF TickPublish, Rest, TypeOK, Scheduling, DurableInv, SoloImportDurable,
         SoloEverywhere, AloneProgress
<1>16. ASSUME TickFail PROVE DurableInv'
  BY <1>16, <1>0
     DEF TickFail, Rest, TypeOK, Scheduling, DurableInv, SoloImportDurable,
         SoloEverywhere, AloneProgress
<1>17. ASSUME Retry PROVE DurableInv'
  BY <1>17, <1>0
     DEF Retry, Rest, TypeOK, Scheduling, DurableInv, SoloImportDurable,
         SoloEverywhere, AloneProgress
<1>18. CASE UNCHANGED vars
  BY <1>18, <1>0
     DEF vars, Rest, TypeOK, Scheduling, DurableInv, SoloImportDurable,
         SoloEverywhere, AloneProgress
<1> QED
  BY <1>0, <1>1, <1>2, <1>3, <1>4, <1>5, <1>6, <1>7, <1>8, <1>9,
     <1>10, <1>11, <1>12, <1>13, <1>14, <1>15, <1>16, <1>17, <1>18
     DEF Next, ImportStep, ResolveStep, BootStep, TickStep

\* An import answered 202 that overlapped no other is loaded by every later
\* start-up, for any number of other imports, crashes and storage errors.
THEOREM SoloImportsAreDurable == Spec => []SoloImportDurable
<1>1. Init => TypeOK /\ Scheduling /\ DurableInv
  BY InitType, InitInv
<1>2. TypeOK /\ Scheduling /\ DurableInv /\ [Next]_vars
        => (TypeOK /\ Scheduling /\ DurableInv)'
  BY NextType, SchedulingStep, DurableStep
<1>3. DurableInv => SoloImportDurable
  BY DEF DurableInv
<1>4. QED
  BY <1>1, <1>2, <1>3, PTL DEF Spec

\* Ids whose resolution does not fail in this step: indices never do.
Sure(S) == S = IndexId \/ (S = PubkeyId /\ faults' = 0)

\* A loop round of resolve_targets keeps every id it carries.
LEMMA ResolveOneCarries ==
  ASSUME TypeOK, NEW p \in Proc, ResolveOne(p), NEW S, Sure(S), NEW id \in S, Carried(p, id)
  PROVE  Carried(p, id)'
<1>1. PICK t \in buf[p] :
        /\ buf' = [buf EXCEPT ![p] = @ \ {t}]
        /\ \E V \in SUBSET Candidates(t) :
             /\ found' = [found EXCEPT ![p] = @ \union V]
             /\ t.id \in S => V = Candidates(t)
  <2>1. PICK t \in buf[p] :
          /\ buf' = [buf EXCEPT ![p] = @ \ {t}]
          /\ \/ found' = [found EXCEPT ![p] = @ \union Candidates(t)]
             \/ /\ t.id \notin IndexId /\ Fault
                /\ \E V \in SUBSET Candidates(t) : found' = [found EXCEPT ![p] = @ \union V]
    BY DEF ResolveOne
  <2>2. t.id \in S /\ t.id \notin IndexId => ~Fault
    BY DEF Sure, Fault, TypeOK
  <2> QED
    BY <2>1, <2>2
<1>2. buf'[p] = buf[p] \ {t} /\ found[p] \subseteq found'[p]
  BY <1>1 DEF TypeOK
<1>3. CASE Members[id] \subseteq found[p]
  BY <1>2, <1>3 DEF Carried
<1>4. CASE id \in Ids(buf[p]) /\ t.id # id
  BY <1>2, <1>4 DEF Carried, Ids
<1>5. CASE t.id = id
  <2>1. Candidates(t) = Members[id]
    BY <1>5, ConstantsAssumption DEF Candidates, Sure
  <2>2. Members[id] \subseteq found'[p]
    BY <1>1, <1>5, <2>1 DEF TypeOK
  <2> QED
    BY <2>2 DEF Carried
<1> QED
  BY <1>3, <1>4, <1>5 DEF Carried

\* Every step keeps the part about the polled ids: a resolve_targets in
\* flight carries, or has already found, every acknowledged one.
LEMMA FollowedStep ==
  ASSUME TypeOK, Scheduling, DurableInv, NEW S, Sure(S), Followed(S), [Next]_vars
  PROVE  Followed(S)'
<1> USE DEF memVars, diskVars, procVars, tickVars, histVars
<1>0. Importer \subseteq Proc /\ Bootstrap \in Proc /\ Bootstrap \notin Importer
  BY ConstantsAssumption DEF Proc
<1>1. ASSUME NEW p \in Importer, NEW t \in Requests, ImportUpdate(p, t) PROVE Followed(S)'
  <2>1. \A q \in Importer : alone'[q] => pc'[q] \notin {"fetch", "publish"}
    BY <1>1, <1>0 DEF ImportUpdate, TypeOK
  <2>2. \A q \in Proc : pc'[q] \in {"fetch", "publish"} => pc[q] = pc'[q]
    BY <1>1, <1>0 DEF ImportUpdate, TypeOK
  <2> QED
    BY <1>1, <1>0, <2>1, <2>2
       DEF ImportUpdate, Followed, Carried
<1>2. ASSUME NEW p \in Importer, PersistRead(p) PROVE Followed(S)'
  BY <1>2, <1>0
     DEF PersistRead, Rest, TypeOK, Scheduling, Followed, Carried
<1>3. ASSUME NEW p \in Importer, PersistWrite(p) PROVE Followed(S)'
  BY <1>3, <1>0
     DEF PersistWrite, Rest, TypeOK, Scheduling, Followed, Carried
<1>4. ASSUME NEW p \in Importer, PersistFail(p) PROVE Followed(S)'
  BY <1>4, <1>0
     DEF PersistFail, Rest, TypeOK, Scheduling, Followed, Carried
<1>5. ASSUME NEW p \in Proc, ResolveRead(p) PROVE Followed(S)'
  <2>1. daemon \in {"up", "booting"}
    BY <1>5, <1>0 DEF ResolveRead, Scheduling, TypeOK, Proc
  <2>2. solo \subseteq Ids(buf'[p])
    BY <1>5, <2>1 DEF ResolveRead, TypeOK, DurableInv, SoloEverywhere
  <2>3. p \in Importer /\ alone[p] /\ req[p].id # SeedId => req[p].id \in Ids(buf'[p])
    BY <1>5 DEF ResolveRead, TypeOK, DurableInv, AloneProgress
  <2> QED
    BY <1>5, <1>0, <2>2, <2>3
       DEF ResolveRead, TypeOK, Followed, Carried
<1>6. ASSUME NEW p \in Proc, ResolveOne(p) PROVE Followed(S)'
  <2>1. \A id \in S : Carried(p, id) => Carried(p, id)'
    BY <1>6, ResolveOneCarries
  <2>2. \A q \in Proc \ {p}, id \in S : Carried(q, id) => Carried(q, id)'
    BY <1>6 DEF ResolveOne, TypeOK, Carried
  <2>3. \A q \in Proc, id \in S : Carried(q, id) => Carried(q, id)'
    BY <2>1, <2>2
  <2> QED
    BY <1>6, <1>0, <2>3 DEF ResolveOne, Followed
<1>7. ASSUME NEW p \in Proc, ResolveInvalid(p) PROVE Followed(S)'
  BY <1>7, <1>0
     DEF ResolveInvalid, Rest, TypeOK, Scheduling, Followed, Carried
<1>8. ASSUME NEW p \in Proc, ResolveWrite(p) PROVE Followed(S)'
  <2>1. \A id \in S : Carried(p, id) => Members[id] \subseteq tracked'
    BY <1>8 DEF ResolveWrite, Carried, Ids
  <2>2. \A id \in solo \intersect S : Members[id] \subseteq tracked'
    BY <1>8, <2>1 DEF ResolveWrite, Followed
  <2>3. \A q \in Proc : pc'[q] = "fetch" => pc[q] = "fetch"
    BY <1>8 DEF ResolveWrite, TypeOK
  <2>4. \A q \in Importer : alone[q] /\ pc'[q] = "publish" => q = p
    <3> SUFFICES ASSUME NEW q \in Importer, alone[q], pc'[q] = "publish", q # p
                 PROVE  FALSE
      OBVIOUS
    <3>1. pc[q] = "publish"
      BY <1>8 DEF ResolveWrite, TypeOK
    <3>2. CASE p \in Importer
      BY <1>8, <3>1, <3>2 DEF ResolveWrite, Scheduling
    <3>3. CASE p = Bootstrap
      BY <1>8, <3>1, <3>3 DEF ResolveWrite, Scheduling
    <3> QED
      BY <3>2, <3>3 DEF Proc
  <2>5. \A q \in Importer : alone'[q] /\ req'[q].id \in S \ {SeedId} =>
          /\ pc'[q] = "fetch" => Carried(q, req[q].id)'
          /\ pc'[q] = "publish" => Members[req'[q].id] \subseteq tracked'
    BY <1>8, <1>0, <2>1, <2>3, <2>4 DEF ResolveWrite, Followed, Carried
  <2> QED
    BY <1>8, <1>0, <2>2, <2>3, <2>5
       DEF ResolveWrite, Followed, Carried
<1>9. ASSUME NEW p \in Importer, ImportPublish(p) PROVE Followed(S)'
  <2>1. daemon = "up" /\ pc[Bootstrap] = "idle"
    BY <1>9, <1>0 DEF ImportPublish, Scheduling
  <2>2. \A id \in solo' \intersect S : Members[id] \subseteq tracked
    BY <1>9, <2>1 DEF ImportPublish, Followed
  <2>3. \A q \in Proc : pc'[q] # "idle" =>
          q # p /\ pc'[q] = pc[q] /\ buf'[q] = buf[q] /\ found'[q] = found[q]
                /\ req'[q] = req[q]
    BY <1>9, <1>0 DEF ImportPublish, Rest, TypeOK
  <2>4. \A q \in Proc : pc'[q] # "idle" => solo' = solo
    <3>1. CASE alone[p]
      BY <1>9, <1>0, <2>1, <2>3, <3>1 DEF ImportPublish, Scheduling, Proc
    <3>2. CASE ~alone[p]
      BY <1>9, <3>2 DEF ImportPublish
    <3> QED
      BY <3>1, <3>2
  <2> QED
    BY <1>9, <1>0, <2>1, <2>2, <2>3, <2>4
       DEF ImportPublish, Followed, Carried
<1>10. ASSUME BootLoad PROVE Followed(S)'
  BY <1>10, <1>0
     DEF BootLoad, Rest, TypeOK, Scheduling, Followed, Carried
<1>11. ASSUME BootPublish PROVE Followed(S)'
  BY <1>11, <1>0
     DEF BootPublish, Rest, TypeOK, Scheduling, Followed, Carried
<1>12. ASSUME Crash PROVE Followed(S)'
  BY <1>12, <1>0 DEF Crash, TypeOK, Followed, Carried
<1>13. ASSUME NEW q \in BOOLEAN, TickStart(q) PROVE Followed(S)'
  BY <1>13, <1>0
     DEF TickStart, Rest, TypeOK, Scheduling, Followed, Carried
<1>14. ASSUME NEW V \in SUBSET tickSnap, TickStore(V) PROVE Followed(S)'
  BY <1>14, <1>0
     DEF TickStore, Rest, TypeOK, Scheduling, Followed, Carried
<1>15. ASSUME TickPublish PROVE Followed(S)'
  BY <1>15, <1>0
     DEF TickPublish, Rest, TypeOK, Scheduling, Followed, Carried
<1>16. ASSUME TickFail PROVE Followed(S)'
  BY <1>16, <1>0
     DEF TickFail, Rest, TypeOK, Scheduling, Followed, Carried
<1>17. ASSUME Retry PROVE Followed(S)'
  BY <1>17, <1>0
     DEF Retry, Rest, TypeOK, Scheduling, Followed, Carried
<1>18. CASE UNCHANGED vars
  BY <1>18, <1>0
     DEF vars, Rest, TypeOK, Scheduling, Followed, Carried
<1> QED
  BY <1>0, <1>1, <1>2, <1>3, <1>4, <1>5, <1>6, <1>7, <1>8, <1>9,
     <1>10, <1>11, <1>12, <1>13, <1>14, <1>15, <1>16, <1>17, <1>18
     DEF Next, ImportStep, ResolveStep, BootStep, TickStep

\* No step takes a fault back.
LEMMA FaultsStay ==
  ASSUME TypeOK, [Next]_vars, faults' = 0 PROVE faults = 0
BY DEF TypeOK, Next, ImportStep, ResolveStep, BootStep, TickStep, ImportUpdate, PersistRead,
   PersistWrite, PersistFail, ResolveRead, ResolveOne, ResolveInvalid, ResolveWrite,
   ImportPublish, BootLoad, BootPublish, Crash, TickStart, TickStore, TickPublish, TickFail,
   Retry, Fault, vars

\* Every step keeps solo indices polled, and solo public keys while nothing fails.
LEMMA TrackedStep ==
  ASSUME TypeOK, Scheduling, DurableInv, TrackedInv, PubkeyInv, [Next]_vars
  PROVE  TrackedInv' /\ PubkeyInv'
<1>1. TrackedInv'
  <2>1. Sure(IndexId)
    BY DEF Sure
  <2>2. Followed(IndexId)
    BY DEF TrackedInv
  <2> QED
    BY <2>1, <2>2, FollowedStep DEF TrackedInv
<1>2. PubkeyInv'
  <2> SUFFICES ASSUME faults' = 0 PROVE Followed(PubkeyId)'
    BY DEF PubkeyInv
  <2>1. Sure(PubkeyId)
    BY DEF Sure
  <2>2. Followed(PubkeyId)
    BY FaultsStay DEF PubkeyInv
  <2> QED
    BY <2>1, <2>2, FollowedStep
<1> QED
  BY <1>1, <1>2

\* Every step keeps the part about the dashboard's list and the pending ticks.
LEMMA PayloadStep ==
  ASSUME TypeOK, Scheduling, PayloadInv, [Next]_vars
  PROVE  PayloadInv'
<1> USE DEF memVars, diskVars, procVars, tickVars, histVars
<1>0. Importer \subseteq Proc /\ Bootstrap \in Proc /\ Bootstrap \notin Importer
  BY ConstantsAssumption DEF Proc
<1>1. ASSUME NEW p \in Importer, NEW t \in Requests, ImportUpdate(p, t) PROVE PayloadInv'
  BY <1>1, <1>0
     DEF ImportUpdate, Rest, TypeOK, Scheduling, PayloadInv, StalePayloadHasTickDue
<1>2. ASSUME NEW p \in Importer, PersistRead(p) PROVE PayloadInv'
  BY <1>2, <1>0
     DEF PersistRead, Rest, TypeOK, Scheduling, PayloadInv, StalePayloadHasTickDue
<1>3. ASSUME NEW p \in Importer, PersistWrite(p) PROVE PayloadInv'
  BY <1>3, <1>0
     DEF PersistWrite, Rest, TypeOK, Scheduling, PayloadInv, StalePayloadHasTickDue
<1>4. ASSUME NEW p \in Importer, PersistFail(p) PROVE PayloadInv'
  BY <1>4, <1>0
     DEF PersistFail, Rest, TypeOK, Scheduling, PayloadInv, StalePayloadHasTickDue
<1>5. ASSUME NEW p \in Proc, ResolveRead(p) PROVE PayloadInv'
  BY <1>5, <1>0
     DEF ResolveRead, Rest, TypeOK, Scheduling, PayloadInv, StalePayloadHasTickDue
<1>6. ASSUME NEW p \in Proc, ResolveOne(p) PROVE PayloadInv'
  BY <1>6, <1>0
     DEF ResolveOne, Rest, TypeOK, Scheduling, PayloadInv, StalePayloadHasTickDue
<1>7. ASSUME NEW p \in Proc, ResolveInvalid(p) PROVE PayloadInv'
  BY <1>7, <1>0
     DEF ResolveInvalid, Rest, TypeOK, Scheduling, PayloadInv, StalePayloadHasTickDue
<1>8. ASSUME NEW p \in Proc, ResolveWrite(p) PROVE PayloadInv'
  <2>1. CASE p = Bootstrap
    BY <1>8, <1>0, <2>1
       DEF ResolveWrite, TypeOK, Scheduling, PayloadInv, StalePayloadHasTickDue
  <2>2. CASE p \in Importer
    BY <1>8, <1>0, <2>2
       DEF ResolveWrite, TypeOK, Scheduling, PayloadInv, StalePayloadHasTickDue
  <2> QED
    BY <2>1, <2>2 DEF Proc
<1>9. ASSUME NEW p \in Importer, ImportPublish(p) PROVE PayloadInv'
  <2>1. spawned' > 0
    BY <1>9 DEF ImportPublish, TypeOK
  <2>2. pc'[Bootstrap] = "idle"
    BY <1>9, <1>0 DEF ImportPublish, Rest, TypeOK, Scheduling
  <2> QED
    BY <2>1, <2>2 DEF PayloadInv, StalePayloadHasTickDue
<1>10. ASSUME BootLoad PROVE PayloadInv'
  BY <1>10, <1>0
     DEF BootLoad, Rest, TypeOK, Scheduling, PayloadInv, StalePayloadHasTickDue
<1>11. ASSUME BootPublish PROVE PayloadInv'
  BY <1>11, <1>0
     DEF BootPublish, Rest, TypeOK, Scheduling, PayloadInv, StalePayloadHasTickDue
<1>12. ASSUME Crash PROVE PayloadInv'
  BY <1>12, <1>0
     DEF Crash, Rest, TypeOK, Scheduling, PayloadInv, StalePayloadHasTickDue
<1>13. ASSUME NEW q \in BOOLEAN, TickStart(q) PROVE PayloadInv'
  BY <1>13, <1>0
     DEF TickStart, Rest, TypeOK, Scheduling, PayloadInv, StalePayloadHasTickDue
<1>14. ASSUME NEW S \in SUBSET tickSnap, TickStore(S) PROVE PayloadInv'
  BY <1>14, <1>0
     DEF TickStore, Rest, TypeOK, Scheduling, PayloadInv, StalePayloadHasTickDue
<1>15. ASSUME TickPublish PROVE PayloadInv'
  BY <1>15, <1>0
     DEF TickPublish, Rest, TypeOK, Scheduling, PayloadInv, StalePayloadHasTickDue
<1>16. ASSUME TickFail PROVE PayloadInv'
  BY <1>16, <1>0
     DEF TickFail, Rest, TypeOK, Scheduling, PayloadInv, StalePayloadHasTickDue
<1>17. ASSUME Retry PROVE PayloadInv'
  <2>1. spawned' > 0
    BY <1>17 DEF Retry, TypeOK
  <2> QED
    BY <1>17, <2>1 DEF Retry, PayloadInv, StalePayloadHasTickDue
<1>18. CASE UNCHANGED vars
  BY <1>18, <1>0
     DEF vars, Rest, TypeOK, Scheduling, PayloadInv, StalePayloadHasTickDue
<1> QED
  BY <1>0, <1>1, <1>2, <1>3, <1>4, <1>5, <1>6, <1>7, <1>8, <1>9,
     <1>10, <1>11, <1>12, <1>13, <1>14, <1>15, <1>16, <1>17, <1>18
     DEF Next, ImportStep, ResolveStep, BootStep, TickStep

\* Both hold in every state.
LEMMA TrackedInvariance == Spec => [](TrackedInv /\ PubkeyInv)
<1>1. Init => TypeOK /\ Scheduling /\ DurableInv /\ TrackedInv /\ PubkeyInv
  BY InitType, InitInv
<1>2. TypeOK /\ Scheduling /\ DurableInv /\ TrackedInv /\ PubkeyInv /\ [Next]_vars
        => (TypeOK /\ Scheduling /\ DurableInv /\ TrackedInv /\ PubkeyInv)'
  BY NextType, SchedulingStep, DurableStep, TrackedStep
<1>3. QED
  BY <1>1, <1>2, PTL DEF Spec

\* An index imported alone is polled whenever the daemon is up, during Beacon
\* outages, after restarts and whatever other imports do.
THEOREM SoloIndicesStayTracked == Spec => []SoloIndexTracked
<1>1. TrackedInv => SoloIndexTracked
  BY DEF TrackedInv, Followed, SoloIndexTracked
<1>2. QED
  BY <1>1, TrackedInvariance, PTL

\* A public key imported alone is polled whenever the daemon is up, as long as
\* nothing has failed, although every later import resolves the list anew.
THEOREM SoloPubkeysStayTracked == Spec => []SoloPubkeyTrackedWithoutFaults
<1>1. PubkeyInv => SoloPubkeyTrackedWithoutFaults
  BY DEF PubkeyInv, Followed, SoloPubkeyTrackedWithoutFaults
<1>2. QED
  BY <1>1, TrackedInvariance, PTL

\* A dashboard that shows another list than the monitor polls is about to be
\* corrected, unless the last tick failed.
THEOREM StalePayloadIsTransient == Spec => []StalePayloadHasTickDue
<1>1. Init => TypeOK /\ Scheduling /\ PayloadInv
  BY InitType, InitInv
<1>2. TypeOK /\ Scheduling /\ PayloadInv /\ [Next]_vars
        => (TypeOK /\ Scheduling /\ PayloadInv)'
  BY NextType, SchedulingStep, PayloadStep
<1>3. PayloadInv => StalePayloadHasTickDue
  BY DEF PayloadInv
<1>4. QED
  BY <1>1, <1>2, <1>3, PTL DEF Spec
=============================================================================
