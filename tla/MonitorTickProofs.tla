-------------------------- MODULE MonitorTickProofs --------------------------
(***************************************************************************)
(* Proofs about MonitorTick, for every set of validators, every condition  *)
(* of the two APIs, and every timeout; and about the alert engine the tick *)
(* feeds, AlertDelivery.                                                   *)
(***************************************************************************)
EXTENDS MonitorTick, AlertDelivery, TLAPS

\* A step takes a number of seconds.
LEMMA DurationsNat == \A d \in Durations : d \in Nat
<1>1. \A m : CallCost(m) \in Nat
  <2> SUFFICES ASSUME NEW m PROVE CallCost(m) \in Nat
    OBVIOUS
  <2>1. RequestTimeout * Endpoints \in Nat
    BY ConstantsAssumption
  <2> QED
    BY <2>1, ConstantsAssumption DEF CallCost
<1>2. \A k \in Calls : k \in Nat
  BY DEF Calls
<1>3. StepTimeout \in Nat
  BY DEF StepTimeout, CriticalStep, SnapshotStep, OptionalStep
<1>4. ASSUME NEW k \in Nat, NEW c \in Nat PROVE k * c \in Nat
  OBVIOUS
<1>5. ASSUME NEW a \in Nat, NEW b \in Nat PROVE Least(a, b) \in Nat
  BY DEF Least
<1> QED
  BY <1>1, <1>2, <1>3, <1>4, <1>5 DEF Durations

\* The initial state has the declared types.
LEMMA InitType == Init => TypeOK
<1> SUFFICES ASSUME Init PROVE TypeOK
  OBVIOUS
<1>1. regressed \in BOOLEAN
  BY Zenon DEF Init
<1>2. payload \in [mode : {"initializing", "healthy", "degraded"},
                   head : Epoch \union {None}, shown : SUBSET Validator]
  BY DEF Init, EmptyPayload
<1> QED
  BY <1>1, <1>2, ConstantsAssumption DEF Init, TypeOK, PC, Epoch

\* A step that takes d seconds stays within the tick's timeout.
LEMMA TakesType ==
  ASSUME TypeOK, NEW d \in Durations, Takes(d)
  PROVE  elapsed' \in 0..TickTimeout
BY DurationsNat, ConstantsAssumption DEF TypeOK, Takes

\* The head a tick works with and its history have their types.
LEMMA UseHeadType ==
  ASSUME TypeOK, NEW e \in Epoch \union {None}, UseHead(e)
  PROVE  /\ head' \in Epoch \union {None}
         /\ maxHead' \in Epoch \union {None}
         /\ regressed' \in BOOLEAN
BY DEF TypeOK, UseHead

\* The locals of a finished tick have their types.
LEMMA EndTickType ==
  ASSUME EndTick
  PROVE  /\ pc' \in PC
         /\ elapsed' \in 0..TickTimeout
         /\ head' \in Epoch \union {None}
         /\ mine' \subseteq Validator /\ todo' \subseteq mine' /\ fresh' \subseteq mine'
         /\ codes' \subseteq Code
         /\ missed' \subseteq Validator \X Epoch
BY ConstantsAssumption DEF EndTick, PC

\* Every action keeps the types: one step per action.
LEMMA NextType == TypeOK /\ [Next]_vars => TypeOK'
<1> SUFFICES ASSUME TypeOK, [Next]_vars PROVE TypeOK'
  OBVIOUS
<1> USE DEF apis, tick, disk, seen
<1>1. ASSUME TickBegin PROVE TypeOK'
  BY <1>1 DEF TickBegin, TypeOK, PC, NetPC
<1>2. ASSUME FetchHead PROVE TypeOK'
  <2>1. elapsed' \in 0..TickTimeout
    BY <1>2, TakesType DEF FetchHead
  <2>2. payload.head \in Epoch \union {None}
    BY DEF TypeOK
  <2>3. \E e \in Epoch \union {None} : UseHead(e)
    BY <1>2, <2>2 DEF FetchHead
  <2>4. codes' \subseteq Code
    BY <1>2 DEF FetchHead, TypeOK, Code
  <2> QED
    BY <1>2, <2>1, <2>3, <2>4, UseHeadType DEF FetchHead, TypeOK, PC, NetPC
<1>3. ASSUME FetchExec PROVE TypeOK'
  <2>1. elapsed' \in 0..TickTimeout
    BY <1>3, TakesType DEF FetchExec
  <2>2. codes' \subseteq Code
    BY <1>3 DEF FetchExec, TypeOK, Code
  <2>3. fresh' \subseteq mine'
    BY <1>3 DEF FetchExec, TypeOK
  <2> QED
    BY <1>3, <2>1, <2>2, <2>3 DEF FetchExec, TypeOK, PC, NetPC
<1>4. ASSUME FetchDuties PROVE TypeOK'
  <2>1. elapsed' \in 0..TickTimeout
    BY <1>4, TakesType DEF FetchDuties
  <2> QED
    BY <1>4, <2>1 DEF FetchDuties, TypeOK, PC, NetPC
<1>5. ASSUME CheckLiveness PROVE TypeOK'
  <2>1. elapsed' \in 0..TickTimeout
    BY <1>5, TakesType DEF CheckLiveness
  <2>2. NotLive \subseteq Missed
    BY DEF NotLive
  <2>3. head - 1 \in Epoch
    BY <1>5, ConstantsAssumption DEF CheckLiveness, LivenessNeeded, TypeOK, Epoch, None
  <2> QED
    BY <1>5, <2>1, <2>2, <2>3, ConstantsAssumption
       DEF CheckLiveness, TypeOK, PC, NetPC
<1>6. ASSUME SkipLiveness PROVE TypeOK'
  <2>1. elapsed' \in 0..TickTimeout
    BY <1>6, TakesType DEF SkipLiveness, TypeOK
  <2> QED
    BY <1>6, <2>1 DEF SkipLiveness, TypeOK, PC, NetPC
<1>7. ASSUME NEW v \in Validator, FetchSnapshot(v) PROVE TypeOK'
  <2>1. elapsed' \in 0..TickTimeout
    BY <1>7, TakesType DEF FetchSnapshot, TypeOK
  <2>2. codes' \subseteq Code
    BY <1>7 DEF FetchSnapshot, TypeOK, Code
  <2>3. fresh' \subseteq fresh \union {v} /\ cached' \subseteq cached \union {v}
    BY <1>7 DEF FetchSnapshot
  <2>4. v \in mine
    BY <1>7 DEF FetchSnapshot, TypeOK
  <2> QED
    BY <1>7, <2>1, <2>2, <2>3, <2>4 DEF FetchSnapshot, TypeOK
<1>8. ASSUME DetectDegradation PROVE TypeOK'
  BY <1>8 DEF DetectDegradation, TypeOK, PC, Code
<1>9. ASSUME TickTimesOut PROVE TypeOK'
  BY <1>9, EndTickType DEF TickTimesOut, TypeOK
<1>10. ASSUME StoreIncidents PROVE TypeOK'
  BY <1>10 DEF StoreIncidents, TypeOK, PC
<1>11. ASSUME Publish PROVE TypeOK'
  <2>1. payload' \in [mode : {"initializing", "healthy", "degraded"},
                      head : Epoch \union {None}, shown : SUBSET Validator]
    BY <1>11 DEF Publish, TypeOK, Merged
  <2>2. kept' \subseteq Validator
    BY <1>11 DEF Publish, TypeOK
  <2> QED
    BY <1>11, <2>1, <2>2, EndTickType DEF Publish, TypeOK
<1>12. ASSUME ApisChange PROVE TypeOK'
  BY <1>12 DEF ApisChange, TypeOK
<1>13. ASSUME NextEpoch PROVE TypeOK'
  BY <1>13, ConstantsAssumption DEF NextEpoch, TypeOK, Epoch
<1>14. ASSUME NEW S \in SUBSET Validator, SetTracked(S) PROVE TypeOK'
  BY <1>14 DEF SetTracked, TypeOK
<1>15. ASSUME ClearCache PROVE TypeOK'
  BY <1>15 DEF ClearCache, TypeOK
<1>16. ASSUME NEW R \in SUBSET NotLive, LivenessNotSaved(R) PROVE TypeOK'
  <2>1. elapsed' \in 0..TickTimeout
    BY <1>16, TakesType DEF LivenessNotSaved
  <2>2. R \subseteq Missed
    BY DEF NotLive
  <2> QED
    BY <1>16, <2>1, <2>2, ConstantsAssumption
       DEF LivenessNotSaved, Fault, TypeOK, PC, NetPC
<1>17. ASSUME StorageFails PROVE TypeOK'
  BY <1>17, EndTickType, ConstantsAssumption DEF StorageFails, Fault, TypeOK
<1>18. ASSUME NEW S \in SUBSET Validator, Restart(S) PROVE TypeOK'
  <2>1. payload' \in [mode : {"initializing", "healthy", "degraded"},
                      head : Epoch \union {None}, shown : SUBSET Validator]
    BY <1>18 DEF Restart, EmptyPayload
  <2> QED
    BY <1>18, <2>1, EndTickType, ConstantsAssumption DEF Restart, Fault, TypeOK
<1>19. CASE UNCHANGED vars
  BY <1>19 DEF TypeOK, vars
<1> QED
  BY <1>1, <1>2, <1>3, <1>4, <1>5, <1>6, <1>7, <1>8, <1>9, <1>10, <1>11, <1>12,
     <1>13, <1>14, <1>15, <1>16, <1>17, <1>18, <1>19
     DEF Next, TickStep, Environment, Failure

\* The state always has the declared types.
THEOREM TypeCorrect == Spec => []TypeOK
<1>1. QED
  BY InitType, NextType, PTL DEF Spec

(***************************************************************************)
(* The inductive invariants.                                               *)
(***************************************************************************)

\* The running tick has chosen its head, has copied the list of validators,
\* and has passed the liveness check.
HasHead == pc \notin {"idle", "head"}
HasList == pc \notin {"idle", "head", "exec"}
Checked == pc \in {"snapshots", "store", "publish"}

\* The checkpoint trails the highest head.  Stored and pending missed
\* attestations are no younger than it, and a pending one is not yet stored.
OnceInv ==
  /\ MissedOnce
  /\ checkpoint = None \/ checkpoint < maxHead
  /\ HasHead => head <= maxHead
  /\ HasHead /\ ~regressed => head = maxHead
  /\ ~Checked => missed = {}
  /\ ~regressed => \A m \in storedMissed \union missed : m[2] <= checkpoint
  /\ ~regressed /\ pc # "publish" => missed \intersect storedMissed = {}

\* What has stayed tracked since it was shown is in the running tick's list.
KeptInv ==
  /\ LastKnownDataStay
  /\ kept \subseteq tracked
  /\ HasList => kept \subseteq mine

\* A tick after one that showed a head has a head, and what it publishes has
\* been stored.
PublishInv ==
  /\ HasHead /\ payload.head # None => head # None
  /\ pc = "publish" => codes \subseteq storedCodes /\ missed \subseteq storedMissed

\* The invariants hold before the first tick.
LEMMA InitInv == Init => OnceInv /\ KeptInv /\ PublishInv
BY DEF Init, OnceInv, KeptInv, PublishInv, MissedOnce, LastKnownDataStay, HasHead,
       HasList, Checked, EmptyPayload

\* Every step keeps the invariant about missed attestations.
LEMMA OnceStep ==
  ASSUME TypeOK, OnceInv, [Next]_vars
  PROVE  OnceInv'
<1> USE DEF apis, tick, disk, seen
<1>1. ASSUME TickBegin PROVE OnceInv'
  BY <1>1 DEF TickBegin, OnceInv, MissedOnce, HasHead, Checked, NetPC
<1>2. ASSUME FetchHead PROVE OnceInv'
  <2>1. payload.head \in Epoch \union {None}
    BY DEF TypeOK
  <2>2. PICK e \in Epoch \union {None} : UseHead(e)
    BY <1>2, <2>1 DEF FetchHead
  <2>3. e \in Int /\ maxHead \in Int /\ checkpoint \in Int
    BY ConstantsAssumption DEF TypeOK, Epoch, None
  <2>4. /\ maxHead <= maxHead' /\ head' <= maxHead'
        /\ ~regressed' => ~regressed /\ head' = maxHead'
    <3>1. ~regressed' => ~regressed /\ ~(e < maxHead)
      BY <2>2, Zenon DEF UseHead
    <3>2. ~(e < maxHead) => head' = maxHead'
      BY <2>2, <2>3 DEF UseHead
    <3>3. maxHead <= maxHead' /\ head' <= maxHead'
      BY <2>2, <2>3 DEF UseHead
    <3> QED
      BY <3>1, <3>2, <3>3
  <2>5. maxHead' \in Int
    BY <2>2, <2>3 DEF UseHead
  <2> QED
    BY <1>2, <2>3, <2>4, <2>5 DEF FetchHead, OnceInv, MissedOnce, HasHead, Checked
<1>3. ASSUME FetchExec PROVE OnceInv'
  BY <1>3 DEF FetchExec, OnceInv, MissedOnce, HasHead, Checked, NetPC
<1>4. ASSUME FetchDuties PROVE OnceInv'
  BY <1>4 DEF FetchDuties, OnceInv, MissedOnce, HasHead, Checked, NetPC
<1>5. ASSUME CheckLiveness PROVE OnceInv'
  <2>1. head \in Int /\ maxHead \in Int /\ checkpoint \in Int /\ head > 0
    BY <1>5, ConstantsAssumption
       DEF CheckLiveness, LivenessNeeded, TypeOK, Epoch, None
  <2>2. missed = {} /\ head <= maxHead
    BY <1>5 DEF CheckLiveness, OnceInv, HasHead, Checked
  <2>3. \A m \in NotLive : m[2] = head - 1
    BY DEF NotLive
  <2>4. ~regressed => checkpoint < head - 1
    BY <1>5, <2>1 DEF CheckLiveness, LivenessNeeded, OnceInv, HasHead, None
  <2>5. \A m \in storedMissed : m[2] \in Int
    BY ConstantsAssumption DEF TypeOK, Epoch
  <2>6. ~regressed => \A m \in storedMissed : m[2] < head - 1
    BY <2>1, <2>4, <2>5 DEF OnceInv
  <2>7. ~regressed => NotLive \intersect storedMissed = {}
    BY <2>1, <2>3, <2>5, <2>6
  <2>8. missed' = NotLive /\ checkpoint' = head - 1
    BY <1>5, <2>2 DEF CheckLiveness
  <2>9. ~regressed => \A m \in storedMissed \union NotLive : m[2] <= head - 1
    BY <2>1, <2>3, <2>5, <2>6
  <2> QED
    BY <1>5, <2>1, <2>2, <2>7, <2>8, <2>9
       DEF CheckLiveness, OnceInv, MissedOnce, HasHead, Checked
<1>6. ASSUME SkipLiveness PROVE OnceInv'
  BY <1>6 DEF SkipLiveness, OnceInv, MissedOnce, HasHead, Checked, NetPC
<1>7. ASSUME NEW v \in Validator, FetchSnapshot(v) PROVE OnceInv'
  BY <1>7 DEF FetchSnapshot, OnceInv, MissedOnce, HasHead, Checked, NetPC
<1>8. ASSUME DetectDegradation PROVE OnceInv'
  BY <1>8 DEF DetectDegradation, OnceInv, MissedOnce, HasHead, Checked, NetPC
<1>9. ASSUME TickTimesOut PROVE OnceInv'
  BY <1>9 DEF TickTimesOut, EndTick, OnceInv, MissedOnce, HasHead, Checked, NetPC
<1>10. ASSUME StoreIncidents PROVE OnceInv'
  BY <1>10 DEF StoreIncidents, OnceInv, MissedOnce, HasHead, Checked, NetPC
<1>11. ASSUME Publish PROVE OnceInv'
  BY <1>11 DEF Publish, EndTick, OnceInv, MissedOnce, HasHead, Checked, NetPC
<1>12. ASSUME ApisChange PROVE OnceInv'
  BY <1>12 DEF ApisChange, OnceInv, MissedOnce, HasHead, Checked, NetPC
<1>13. ASSUME NextEpoch PROVE OnceInv'
  BY <1>13 DEF NextEpoch, OnceInv, MissedOnce, HasHead, Checked, NetPC
<1>14. ASSUME NEW S \in SUBSET Validator, SetTracked(S) PROVE OnceInv'
  BY <1>14 DEF SetTracked, OnceInv, MissedOnce, HasHead, Checked, NetPC
<1>15. ASSUME ClearCache PROVE OnceInv'
  BY <1>15 DEF ClearCache, OnceInv, MissedOnce, HasHead, Checked, NetPC
<1>16. ASSUME NEW R \in SUBSET NotLive, LivenessNotSaved(R) PROVE OnceInv'
  BY <1>16 DEF LivenessNotSaved, OnceInv, MissedOnce, HasHead, Checked, NetPC
<1>17. ASSUME StorageFails PROVE OnceInv'
  BY <1>17 DEF StorageFails, EndTick, OnceInv, MissedOnce, HasHead, Checked, NetPC
<1>18. ASSUME NEW S \in SUBSET Validator, Restart(S) PROVE OnceInv'
  BY <1>18 DEF Restart, EndTick, OnceInv, MissedOnce, HasHead, Checked, NetPC
<1>19. CASE UNCHANGED vars
  BY <1>19 DEF vars, OnceInv, MissedOnce, HasHead, Checked, NetPC
<1> QED
  BY <1>1, <1>2, <1>3, <1>4, <1>5, <1>6, <1>7, <1>8, <1>9, <1>10, <1>11,
     <1>12, <1>13, <1>14, <1>15, <1>16, <1>17, <1>18, <1>19
     DEF Next, TickStep, Environment, Failure

\* Every step keeps the invariant about the shown validators.
LEMMA KeptStep ==
  ASSUME TypeOK, KeptInv, [Next]_vars
  PROVE  KeptInv'
<1> USE DEF apis, tick, disk, seen
<1>1. ASSUME TickBegin PROVE KeptInv'
  BY <1>1 DEF TickBegin, KeptInv, LastKnownDataStay, HasList, NetPC
<1>2. ASSUME FetchHead PROVE KeptInv'
  BY <1>2 DEF FetchHead, KeptInv, LastKnownDataStay, HasList, NetPC
<1>3. ASSUME FetchExec PROVE KeptInv'
  BY <1>3 DEF FetchExec, KeptInv, LastKnownDataStay, HasList, NetPC
<1>4. ASSUME FetchDuties PROVE KeptInv'
  BY <1>4 DEF FetchDuties, KeptInv, LastKnownDataStay, HasList, NetPC
<1>5. ASSUME CheckLiveness PROVE KeptInv'
  BY <1>5 DEF CheckLiveness, KeptInv, LastKnownDataStay, HasList, NetPC
<1>6. ASSUME SkipLiveness PROVE KeptInv'
  BY <1>6 DEF SkipLiveness, KeptInv, LastKnownDataStay, HasList, NetPC
<1>7. ASSUME NEW v \in Validator, FetchSnapshot(v) PROVE KeptInv'
  BY <1>7 DEF FetchSnapshot, KeptInv, LastKnownDataStay, HasList, NetPC
<1>8. ASSUME DetectDegradation PROVE KeptInv'
  BY <1>8 DEF DetectDegradation, KeptInv, LastKnownDataStay, HasList, NetPC
<1>9. ASSUME TickTimesOut PROVE KeptInv'
  BY <1>9 DEF TickTimesOut, EndTick, KeptInv, LastKnownDataStay, HasList, NetPC
<1>10. ASSUME StoreIncidents PROVE KeptInv'
  BY <1>10 DEF StoreIncidents, KeptInv, LastKnownDataStay, HasList, NetPC
<1>11. ASSUME Publish PROVE KeptInv'
  <2>1. kept \subseteq mine /\ kept \subseteq payload.shown
    BY <1>11 DEF Publish, KeptInv, LastKnownDataStay, HasList
  <2>2. payload'.shown = Merged
    BY <1>11 DEF Publish
  <2>3. kept \subseteq Merged
    BY <2>1 DEF Merged
  <2> QED
    BY <1>11, <2>2, <2>3 DEF Publish, EndTick, KeptInv, LastKnownDataStay, HasList
<1>12. ASSUME ApisChange PROVE KeptInv'
  BY <1>12 DEF ApisChange, KeptInv, LastKnownDataStay, HasList, NetPC
<1>13. ASSUME NextEpoch PROVE KeptInv'
  BY <1>13 DEF NextEpoch, KeptInv, LastKnownDataStay, HasList, NetPC
<1>14. ASSUME NEW S \in SUBSET Validator, SetTracked(S) PROVE KeptInv'
  BY <1>14 DEF SetTracked, KeptInv, LastKnownDataStay, HasList, NetPC
<1>15. ASSUME ClearCache PROVE KeptInv'
  BY <1>15 DEF ClearCache, KeptInv, LastKnownDataStay, HasList, NetPC
<1>16. ASSUME NEW R \in SUBSET NotLive, LivenessNotSaved(R) PROVE KeptInv'
  BY <1>16 DEF LivenessNotSaved, KeptInv, LastKnownDataStay, HasList, NetPC
<1>17. ASSUME StorageFails PROVE KeptInv'
  BY <1>17 DEF StorageFails, EndTick, KeptInv, LastKnownDataStay, HasList, NetPC
<1>18. ASSUME NEW S \in SUBSET Validator, Restart(S) PROVE KeptInv'
  BY <1>18 DEF Restart, EndTick, KeptInv, LastKnownDataStay, HasList
<1>19. CASE UNCHANGED vars
  BY <1>19 DEF vars, KeptInv, LastKnownDataStay, HasList, NetPC
<1> QED
  BY <1>1, <1>2, <1>3, <1>4, <1>5, <1>6, <1>7, <1>8, <1>9, <1>10, <1>11,
     <1>12, <1>13, <1>14, <1>15, <1>16, <1>17, <1>18, <1>19
     DEF Next, TickStep, Environment, Failure

\* Every step keeps the invariant about what is published.
LEMMA PublishStep ==
  ASSUME TypeOK, PublishInv, [Next]_vars
  PROVE  PublishInv'
<1> USE DEF apis, tick, disk, seen
<1>1. ASSUME TickBegin PROVE PublishInv'
  BY <1>1 DEF TickBegin, PublishInv, HasHead, NetPC
<1>2. ASSUME FetchHead PROVE PublishInv'
  <2>1. None \notin Epoch
    BY ConstantsAssumption DEF Epoch, None
  <2>2. payload.head # None => head' # None
    BY <1>2, <2>1 DEF FetchHead, UseHead
  <2> QED
    BY <1>2, <2>2 DEF FetchHead, PublishInv, HasHead
<1>3. ASSUME FetchExec PROVE PublishInv'
  BY <1>3 DEF FetchExec, PublishInv, HasHead, NetPC
<1>4. ASSUME FetchDuties PROVE PublishInv'
  BY <1>4 DEF FetchDuties, PublishInv, HasHead, NetPC
<1>5. ASSUME CheckLiveness PROVE PublishInv'
  BY <1>5 DEF CheckLiveness, PublishInv, HasHead, NetPC
<1>6. ASSUME SkipLiveness PROVE PublishInv'
  BY <1>6 DEF SkipLiveness, PublishInv, HasHead, NetPC
<1>7. ASSUME NEW v \in Validator, FetchSnapshot(v) PROVE PublishInv'
  BY <1>7 DEF FetchSnapshot, PublishInv, HasHead, NetPC
<1>8. ASSUME DetectDegradation PROVE PublishInv'
  BY <1>8 DEF DetectDegradation, PublishInv, HasHead, NetPC
<1>9. ASSUME TickTimesOut PROVE PublishInv'
  BY <1>9 DEF TickTimesOut, EndTick, PublishInv, HasHead, NetPC
<1>10. ASSUME StoreIncidents PROVE PublishInv'
  BY <1>10 DEF StoreIncidents, PublishInv, HasHead, NetPC
<1>11. ASSUME Publish PROVE PublishInv'
  BY <1>11 DEF Publish, EndTick, PublishInv, HasHead, NetPC
<1>12. ASSUME ApisChange PROVE PublishInv'
  BY <1>12 DEF ApisChange, PublishInv, HasHead, NetPC
<1>13. ASSUME NextEpoch PROVE PublishInv'
  BY <1>13 DEF NextEpoch, PublishInv, HasHead, NetPC
<1>14. ASSUME NEW S \in SUBSET Validator, SetTracked(S) PROVE PublishInv'
  BY <1>14 DEF SetTracked, PublishInv, HasHead, NetPC
<1>15. ASSUME ClearCache PROVE PublishInv'
  BY <1>15 DEF ClearCache, PublishInv, HasHead, NetPC
<1>16. ASSUME NEW R \in SUBSET NotLive, LivenessNotSaved(R) PROVE PublishInv'
  BY <1>16 DEF LivenessNotSaved, PublishInv, HasHead, NetPC
<1>17. ASSUME StorageFails PROVE PublishInv'
  BY <1>17 DEF StorageFails, EndTick, PublishInv, HasHead, NetPC
<1>18. ASSUME NEW S \in SUBSET Validator, Restart(S) PROVE PublishInv'
  BY <1>18 DEF Restart, EndTick, PublishInv, HasHead, NetPC
<1>19. CASE UNCHANGED vars
  BY <1>19 DEF vars, PublishInv, HasHead, NetPC
<1> QED
  BY <1>1, <1>2, <1>3, <1>4, <1>5, <1>6, <1>7, <1>8, <1>9, <1>10, <1>11,
     <1>12, <1>13, <1>14, <1>15, <1>16, <1>17, <1>18, <1>19
     DEF Next, TickStep, Environment, Failure

\* A missed attestation is stored at most once while heads do not go back, for
\* every number of ticks, crashes, storage errors and timeouts.
THEOREM MissedIsStoredOnce == Spec => []MissedOnce
<1>1. Init => TypeOK /\ OnceInv
  BY InitType, InitInv
<1>2. TypeOK /\ OnceInv /\ [Next]_vars => (TypeOK /\ OnceInv)'
  BY NextType, OnceStep
<1>3. OnceInv => MissedOnce
  BY DEF OnceInv
<1> QED
  BY <1>1, <1>2, <1>3, PTL DEF Spec

\* A validator shown and tracked ever since stays on the dashboard, whatever
\* the APIs, the imports and the timeouts do.
THEOREM ShownStaysShown == Spec => []LastKnownDataStay
<1>1. Init => TypeOK /\ KeptInv
  BY InitType, InitInv
<1>2. TypeOK /\ KeptInv /\ [Next]_vars => (TypeOK /\ KeptInv)'
  BY NextType, KeptStep
<1>3. KeptInv => LastKnownDataStay
  BY DEF KeptInv
<1> QED
  BY <1>1, <1>2, <1>3, PTL DEF Spec

\* Only a tick's last step and a restart change the payload.
LEMMA PayloadChanges ==
  ASSUME [Next]_vars, payload' # payload
  PROVE  Publish \/ payload' = EmptyPayload
BY DEF Next, TickStep, Environment, Failure, vars, TickBegin, FetchHead, FetchExec,
       FetchDuties, CheckLiveness, SkipLiveness, FetchSnapshot, DetectDegradation,
       TickTimesOut, StoreIncidents, ApisChange, NextEpoch, SetTracked, ClearCache,
       LivenessNotSaved, StorageFails, Restart

\* A published tick's incidents are in the database before the alert engine
\* sees them.
THEOREM AlertedIsStored == Spec => AlertsAreStored
<1> DEFINE P == pc = "publish" /\ payload' # payload /\ payload' # EmptyPayload =>
       /\ codes \subseteq storedCodes /\ missed \subseteq storedMissed
       /\ payload'.mode = "degraded" => Critical \intersect storedCodes # {}
<1>1. TypeOK /\ PublishInv /\ [Next]_vars => [P]_vars
  <2> SUFFICES ASSUME PublishInv, [Next]_vars, pc = "publish", payload' # payload,
                      payload' # EmptyPayload
               PROVE  /\ codes \subseteq storedCodes /\ missed \subseteq storedMissed
                      /\ payload'.mode = "degraded" =>
                           Critical \intersect storedCodes # {}
    OBVIOUS
  <2>1. codes \subseteq storedCodes /\ missed \subseteq storedMissed
    BY DEF PublishInv
  <2>2. payload'.mode = "degraded" => codes \intersect Critical # {}
    BY PayloadChanges DEF Publish
  <2> QED
    BY <2>1, <2>2
<1>2. Init => TypeOK /\ PublishInv
  BY InitType, InitInv
<1>3. TypeOK /\ PublishInv /\ [Next]_vars => (TypeOK /\ PublishInv)'
  BY NextType, PublishStep
<1> QED
  BY <1>1, <1>2, <1>3, PTL DEF Spec, AlertsAreStored

\* Only a restart takes a shown head off the dashboard.
THEOREM ShownHeadStays == Spec => HeadStays
<1> DEFINE P == payload.head # None /\ payload'.head = None => payload' = EmptyPayload
<1>1. TypeOK /\ PublishInv /\ [Next]_vars => [P]_vars
  <2> SUFFICES ASSUME PublishInv, [Next]_vars, payload.head # None,
                      payload'.head = None
               PROVE  payload' = EmptyPayload
    OBVIOUS
  <2>1. ASSUME Publish PROVE FALSE
    BY <2>1 DEF Publish, PublishInv, HasHead
  <2> QED
    BY <2>1, PayloadChanges
<1>2. Init => TypeOK /\ PublishInv
  BY InitType, InitInv
<1>3. TypeOK /\ PublishInv /\ [Next]_vars => (TypeOK /\ PublishInv)'
  BY NextType, PublishStep
<1> QED
  BY <1>1, <1>2, <1>3, PTL DEF Spec, HeadStays

(***************************************************************************)
(* The alert engine a tick hands its incidents to: for every policy, every *)
(* list of incidents and every timing, alerts and digests are not repeated *)
(* except where a failure hid an earlier one.                              *)
(***************************************************************************)

\* The day of a time within the bound is one of the modelled days.
LEMMA DayType == \A t \in 0..MaxTime : Day(t) \in Days
BY DEF Days

\* The initial state has the declared types.
LEMMA AlertInitType == AlertInit => AlertTypeOK
BY AlertAssumption
   DEF AlertInit, AlertTypeOK, AlertPC, SendPC, AcceptedPC, Never

\* Every action keeps the types: one step per action.
LEMMA AlertNextType == AlertTypeOK /\ [AlertNext]_alertVars => AlertTypeOK'
<1> SUFFICES ASSUME AlertTypeOK, [AlertNext]_alertVars PROVE AlertTypeOK'
  OBVIOUS
<1> USE AlertAssumption
    DEF AlertTypeOK, AlertPC, SendPC, AcceptedPC, alertRows, history, alertHistory,
        digestHistory
<1>1. CASE Advance
  BY <1>1 DEF Advance
<1>2. ASSUME NEW batch \in Batches, Begin(batch) PROVE AlertTypeOK'
  <2>1. batch \in Seq(FP)
    OBVIOUS
  <2>2. emitted' \subseteq FP
    <3>1. \A i \in 1..Len(batch) : batch[i] \in FP
      BY <2>1
    <3>2. emitted \subseteq FP
      OBVIOUS
    <3>3. emitted' = emitted \union {batch[i] : i \in 1..Len(batch)}
      BY <1>2 DEF Begin
    <3> QED
      BY <3>1, <3>2, <3>3
  <2> QED
    BY <1>2, <2>1, <2>2 DEF Begin
<1>3. CASE SkipIncident
  BY <1>3 DEF SkipIncident, NextIncident
<1>4. CASE DeferIncident
  BY <1>4 DEF DeferIncident, NextIncident
<1>5. CASE SendIncident
  BY <1>5 DEF SendIncident
<1>6. CASE HandleIncidentBlindly
  <2>1. Head(pending) \in FP /\ Tail(pending) \in Seq(FP)
    BY <1>6 DEF HandleIncidentBlindly
  <2>2. alertFaults' \in 0..MaxAlertFaults
    BY <1>6 DEF HandleIncidentBlindly, AlertFault
  <2>3. tainted' \subseteq FP /\ pending' \in Seq(FP)
    BY <1>6, <2>1 DEF HandleIncidentBlindly, NextIncident
  <2>4. queue' \in Seq(FP)
    <3>1. CASE queue' = Append(queue, Head(pending))
      BY <2>1, <3>1
    <3>2. CASE UNCHANGED queue
      BY <3>2
    <3> QED
      BY <1>6, <3>1, <3>2 DEF HandleIncidentBlindly
  <2> QED
    BY <1>6, <2>2, <2>3, <2>4 DEF HandleIncidentBlindly, NextIncident
<1>7. CASE IncidentsDone
  BY <1>7 DEF IncidentsDone
<1>8. CASE HeartbeatCheck
  BY <1>8 DEF HeartbeatCheck
<1>9. CASE DigestCheck
  BY <1>9 DEF DigestCheck
<1>10. CASE AcceptIncident
  <2>1. CASE Enabled
    BY <1>10, <2>1 DEF AcceptIncident
  <2>2. CASE ~Enabled
    BY <1>10, <2>2 DEF AcceptIncident
  <2> QED
    BY <2>1, <2>2
<1>11. CASE AcceptHeartbeat
  BY <1>11 DEF AcceptHeartbeat
<1>12. CASE AcceptDigest
  BY <1>12, DayType DEF AcceptDigest
<1>13. CASE SendFails
  <2>1. alertFaults' \in 0..MaxAlertFaults
    BY <1>13 DEF SendFails, AlertFault
  <2>2. CASE at = "sendIncident"
    <3>1. at' = "incident" /\ pending' = Tail(pending)
          /\ refused' = refused \union {Head(pending)}
      BY <1>13, <2>2 DEF SendFails, NextIncident
    <3>2. pending' \in Seq(FP) /\ refused' \subseteq FP
      BY <2>2, <3>1
    <3> QED
      BY <1>13, <2>1, <3>1, <3>2 DEF SendFails
  <2>3. CASE at # "sendIncident"
    BY <1>13, <2>1, <2>3 DEF SendFails
  <2> QED
    BY <2>2, <2>3
<1>14. CASE SendHangs
  <2>1. tainted' \subseteq FP
    BY <1>14 DEF SendHangs
  <2>2. digestTainted' \subseteq Days
    BY <1>14, DayType DEF SendHangs
  <2> QED
    BY <1>14, <2>1, <2>2 DEF SendHangs, AlertFault
<1>15. CASE RecordIncident
  BY <1>15 DEF RecordIncident, NextIncident
<1>16. CASE RecordIncidentFails
  BY <1>16 DEF RecordIncidentFails, NextIncident, AlertFault
<1>17. CASE RecordHeartbeat
  BY <1>17 DEF RecordHeartbeat, AlertFault
<1>18. CASE RecordDigest
  <2>1. unlisted' \subseteq FP
    BY <1>18 DEF RecordDigest
  <2>2. digestDays' \subseteq Days /\ digestTainted' \subseteq Days
    BY <1>18, DayType DEF RecordDigest
  <2> QED
    BY <1>18, <2>1, <2>2 DEF RecordDigest, AlertFault
<1>19. CASE DigestAnswerLost
  BY <1>19, DayType DEF DigestAnswerLost, AlertFault
<1>20. CASE AlertRestart
  <2>1. tainted' \subseteq FP
    BY <1>20 DEF AlertRestart
  <2>2. digestTainted' \subseteq Days
    BY <1>20, DayType DEF AlertRestart
  <2> QED
    BY <1>20, <2>1, <2>2 DEF AlertRestart, AlertFault
<1>21. CASE HeartbeatBlindly
  BY <1>21 DEF HeartbeatBlindly, AlertFault
<1>22. CASE DigestBlindly
  BY <1>22, DayType DEF DigestBlindly, AlertFault
<1>23. CASE UNCHANGED alertVars
  BY <1>23 DEF alertVars
<1> QED
  BY <1>1, <1>2, <1>3, <1>4, <1>5, <1>6, <1>7, <1>8, <1>9, <1>10, <1>11, <1>12,
     <1>13, <1>14, <1>15, <1>16, <1>17, <1>18, <1>19, <1>20, <1>21, <1>22, <1>23
     DEF AlertNext, Tick, Step, AlertFailure

\* The state always has the declared types.
THEOREM AlertTypeCorrect == AlertSpec => []AlertTypeOK
<1>1. QED
  BY AlertInitType, AlertNextType, PTL DEF AlertSpec

(***************************************************************************)
(* The inductive invariant.  A fingerprint that is not tainted was last    *)
(* delivered no later than its newest row says, except between Telegram's  *)
(* acceptance and the row; and a send that is under way was decided when   *)
(* that row was already outside the window.                                *)
(***************************************************************************)
Current == Head(pending)

AlertInv ==
  /\ AntiSpam
  /\ \A f \in FP : lastDelivered[f] <= now
  /\ \A f \in FP \ tainted :
       \/ lastDelivered[f] <= sentAt[f]
       \/ at = "acceptedIncident" /\ f = Current
  /\ at = "sendIncident" /\ Current \notin tainted =>
       sentAt[Current] < now - Window

DigestInv ==
  /\ OneDigestPerDay
  /\ \A d \in digested \ digestTainted :
       d \in digestDays \/ (at = "acceptedDigest" /\ d = Day(stamp))
  /\ at = "sendDigest" => Day(stamp) \notin digestDays \ digestTainted

\* Nothing has been delivered in the initial state.
LEMMA AlertInitInv == AlertInit => AlertInv /\ DigestInv
BY AlertAssumption
   DEF AlertInit, AlertInv, AntiSpam, DigestInv, OneDigestPerDay, Never

\* Every step keeps the part of the invariant about alerts.
LEMMA AlertStep ==
  ASSUME AlertTypeOK, AlertInv, [AlertNext]_alertVars
  PROVE  AlertInv'
<1> USE AlertAssumption DEF AlertInv, AntiSpam, Current, alertRows, history,
        alertHistory, digestHistory
<1>1. CASE Advance
  BY <1>1 DEF Advance, AlertTypeOK
<1>2. ASSUME NEW batch \in Batches, Begin(batch) PROVE AlertInv'
  BY <1>2 DEF Begin
<1>3. CASE SkipIncident
  BY <1>3 DEF SkipIncident, NextIncident
<1>4. CASE DeferIncident
  BY <1>4 DEF DeferIncident, NextIncident
<1>5. CASE SendIncident
  BY <1>5 DEF SendIncident, SentRecently, AlertTypeOK
<1>6. CASE HandleIncidentBlindly
  <2>1. at' = "sendIncident" => Head(pending') \in tainted'
    BY <1>6 DEF HandleIncidentBlindly, NextIncident
  <2> QED
    BY <1>6, <2>1 DEF HandleIncidentBlindly, NextIncident
<1>7. CASE AcceptIncident
  <2>1. Current \in FP
    BY <1>7 DEF AcceptIncident, AlertTypeOK
  <2>2. CASE Enabled
    <3>1. Current \notin tainted => now > lastDelivered[Current] + Window
      <4>1. CASE Current \in tainted
        BY <4>1
      <4>2. CASE Current \notin tainted
        <5>1. sentAt[Current] < now - Window /\ lastDelivered[Current] <= sentAt[Current]
          BY <1>7, <2>1, <4>2 DEF AcceptIncident
        <5>2. sentAt[Current] \in Int /\ lastDelivered[Current] \in Int /\ now \in Int
          BY <2>1 DEF AlertTypeOK
        <5> QED
          BY <5>1, <5>2
      <4> QED
        BY <4>1, <4>2
    <3>2. spam' \subseteq tainted
      BY <1>7, <2>1, <2>2, <3>1 DEF AcceptIncident, AlertTypeOK
    <3>3. \A f \in FP \ {Current} : lastDelivered'[f] = lastDelivered[f]
      BY <1>7, <2>2 DEF AcceptIncident, AlertTypeOK
    <3>4. lastDelivered'[Current] = now
      BY <1>7, <2>1, <2>2 DEF AcceptIncident, AlertTypeOK
    <3>5. /\ at' = "acceptedIncident" /\ pending' = pending /\ now' = now
          /\ sentAt' = sentAt /\ tainted' = tainted /\ now \in Int
      BY <1>7 DEF AcceptIncident, AlertTypeOK
    <3>6. \A f \in FP : lastDelivered'[f] <= now
      BY <3>3, <3>4, <3>5
    <3>7. at # "acceptedIncident"
      BY <1>7 DEF AcceptIncident
    <3>8. \A f \in FP \ tainted : lastDelivered'[f] <= sentAt[f] \/ f = Current
      BY <3>3, <3>7
    <3> QED
      BY <3>2, <3>5, <3>6, <3>8
  <2>3. CASE ~Enabled
    BY <1>7, <2>3 DEF AcceptIncident
  <2> QED
    BY <2>2, <2>3
<1>8. CASE RecordIncident
  <2>1. Current \in FP
    BY <1>8 DEF RecordIncident, AlertTypeOK
  <2>2. \A f \in FP : sentAt'[f] = IF f = Current THEN now ELSE sentAt[f]
    BY <1>8 DEF RecordIncident, AlertTypeOK
  <2> QED
    BY <1>8, <2>1, <2>2 DEF RecordIncident, NextIncident
<1>9. CASE RecordIncidentFails
  BY <1>9 DEF RecordIncidentFails, NextIncident
<1>10. CASE SendHangs
  BY <1>10 DEF SendHangs, SendPC, AcceptedPC
<1>11. CASE AlertRestart
  BY <1>11 DEF AlertRestart
<1>12. CASE IncidentsDone \/ HeartbeatCheck \/ DigestCheck
  BY <1>12 DEF IncidentsDone, HeartbeatCheck, DigestCheck
<1>13. CASE AcceptHeartbeat \/ AcceptDigest
  BY <1>13 DEF AcceptHeartbeat, AcceptDigest
<1>14. CASE SendFails
  BY <1>14 DEF SendFails, SendPC, NextIncident
<1>15. CASE RecordHeartbeat
  BY <1>15 DEF RecordHeartbeat
<1>16. CASE RecordDigest \/ DigestAnswerLost
  BY <1>16 DEF RecordDigest, DigestAnswerLost
<1>17. CASE HeartbeatBlindly \/ DigestBlindly
  BY <1>17 DEF HeartbeatBlindly, DigestBlindly
<1>18. CASE UNCHANGED alertVars
  BY <1>18 DEF alertVars
<1> QED
  BY <1>1, <1>2, <1>3, <1>4, <1>5, <1>6, <1>7, <1>8, <1>9, <1>10, <1>11, <1>12,
     <1>13, <1>14, <1>15, <1>16, <1>17, <1>18 DEF AlertNext, Tick, Step, AlertFailure

\* Every step keeps the part of the invariant about digests.
LEMMA DigestStep ==
  ASSUME AlertTypeOK, DigestInv, [AlertNext]_alertVars
  PROVE  DigestInv'
<1> USE DEF DigestInv, OneDigestPerDay, alertRows, history, alertHistory,
        digestHistory
<1>1. CASE Advance
  BY <1>1 DEF Advance
<1>2. ASSUME NEW batch \in Batches, Begin(batch) PROVE DigestInv'
  BY <1>2 DEF Begin
<1>3. CASE SkipIncident \/ DeferIncident \/ SendIncident \/ IncidentsDone
  BY <1>3 DEF SkipIncident, DeferIncident, SendIncident, IncidentsDone,
              NextIncident
<1>4. CASE HandleIncidentBlindly
  BY <1>4 DEF HandleIncidentBlindly, NextIncident
<1>5. CASE HeartbeatCheck
  BY <1>5 DEF HeartbeatCheck
<1>6. CASE DigestCheck
  BY <1>6 DEF DigestCheck, DigestDue
<1>7. CASE AcceptIncident \/ AcceptHeartbeat
  BY <1>7 DEF AcceptIncident, AcceptHeartbeat
<1>8. CASE AcceptDigest
  BY <1>8 DEF AcceptDigest
<1>9. CASE SendFails
  BY <1>9 DEF SendFails, SendPC, NextIncident
<1>10. CASE SendHangs
  BY <1>10 DEF SendHangs, SendPC, AcceptedPC
<1>11. CASE RecordIncident \/ RecordIncidentFails
  BY <1>11 DEF RecordIncident, RecordIncidentFails, NextIncident
<1>12. CASE RecordHeartbeat
  BY <1>12 DEF RecordHeartbeat
<1>13. CASE RecordDigest
  BY <1>13 DEF RecordDigest
<1>14. CASE DigestAnswerLost
  BY <1>14 DEF DigestAnswerLost
<1>15. CASE AlertRestart
  BY <1>15 DEF AlertRestart
<1>16. CASE HeartbeatBlindly
  BY <1>16 DEF HeartbeatBlindly
<1>17. CASE DigestBlindly
  BY <1>17 DEF DigestBlindly
<1>18. CASE UNCHANGED alertVars
  BY <1>18 DEF alertVars
<1> QED
  BY <1>1, <1>2, <1>3, <1>4, <1>5, <1>6, <1>7, <1>8, <1>9, <1>10, <1>11, <1>12,
     <1>13, <1>14, <1>15, <1>16, <1>17, <1>18 DEF AlertNext, Tick, Step, AlertFailure

\* Two alerts of one fingerprint are more than the anti-spam window apart,
\* unless a failure hid the first, for every policy, batch and timing.
THEOREM AlertsRespectWindow == AlertSpec => []AntiSpam
<1>1. AlertInit => AlertTypeOK /\ AlertInv
  BY AlertInitType, AlertInitInv
<1>2. AlertTypeOK /\ AlertInv /\ [AlertNext]_alertVars => (AlertTypeOK /\ AlertInv)'
  BY AlertNextType, AlertStep
<1>3. AlertInv => AntiSpam
  BY DEF AlertInv
<1>4. QED
  BY <1>1, <1>2, <1>3, PTL DEF AlertSpec

\* A day has at most one digest, unless a failure hid the first.
THEOREM DigestsAreDaily == AlertSpec => []OneDigestPerDay
<1>1. AlertInit => AlertTypeOK /\ DigestInv
  BY AlertInitType, AlertInitInv
<1>2. AlertTypeOK /\ DigestInv /\ [AlertNext]_alertVars => (AlertTypeOK /\ DigestInv)'
  BY AlertNextType, DigestStep
<1>3. DigestInv => OneDigestPerDay
  BY DEF DigestInv
<1>4. QED
  BY <1>1, <1>2, <1>3, PTL DEF AlertSpec

\* What a step does to the digest queue: it stays, grows by the incident at
\* hand, or is emptied by an answered digest or by a restart.
LEMMA QueueStep ==
  ASSUME AlertTypeOK, [AlertNext]_alertVars
  PROVE  \/ queue' = queue
         \/ pending # <<>> /\ queue' = Append(queue, Head(pending))
         \/ at = "acceptedDigest" /\ queue' = <<>>
         \/ AlertRestart
<1>1. CASE Advance \/ Tick \/ UNCHANGED alertVars
  BY <1>1 DEF Advance, Tick, Begin, alertVars
<1>2. CASE Step
  BY <1>2 DEF Step, SkipIncident, DeferIncident, SendIncident, IncidentsDone,
      HeartbeatCheck,
     DigestCheck, AcceptIncident, AcceptHeartbeat, AcceptDigest, RecordIncident,
         RecordHeartbeat,
     RecordDigest
<1>3. CASE AlertFailure
  BY <1>3 DEF AlertFailure, HandleIncidentBlindly, HeartbeatBlindly, DigestBlindly,
      SendFails,
     SendHangs, RecordIncidentFails, DigestAnswerLost
<1> QED
  BY <1>1, <1>2, <1>3 DEF AlertNext

\* What quiet hours deferred leaves the queue only with a digest Telegram has
\* accepted, or with the process, for every policy, batch and timing.
THEOREM DeferredStaysQueued == AlertSpec => DeferredUntilDigest
<1> DEFINE Leaves == queue' # queue /\ Len(queue') <= Len(queue) =>
                       \/ at = "acceptedDigest" /\ queue' = <<>>
                       \/ AlertRestart
<1>1. AlertTypeOK /\ [AlertNext]_alertVars => [Leaves]_alertVars
  <2> SUFFICES ASSUME AlertTypeOK, [AlertNext]_alertVars PROVE Leaves
    OBVIOUS
  <2>1. CASE pending # <<>> /\ queue' = Append(queue, Head(pending))
    <3>1. queue \in Seq(FP) /\ Head(pending) \in FP
      BY <2>1 DEF AlertTypeOK
    <3>2. Len(queue') = Len(queue) + 1 /\ Len(queue) \in Nat
      BY <2>1, <3>1
    <3> QED
      BY <3>2
  <2>2. QED
    BY <2>1, QueueStep
<1>2. QED
  BY <1>1, AlertTypeCorrect, PTL DEF AlertSpec, DeferredUntilDigest
-----------------------------------------------------------------------------
(***************************************************************************)
(* Nothing is skipped unsent: a row is written only for an alert Telegram  *)
(* has accepted.                                                           *)
(***************************************************************************)
RowInv ==
  /\ \A f \in FP : sentAt[f] >= 0 \/ sentAt[f] = Never
  /\ \A f \in FP : Enabled /\ sentAt[f] >= 0 => lastDelivered[f] >= 0
  /\ Enabled /\ at = "acceptedIncident" => lastDelivered[Head(pending)] >= 0
  /\ pending # <<>> => at \in {"incident", "sendIncident", "acceptedIncident", "hung"}

\* Every step keeps rows and deliveries together.
LEMMA RowStep ==
  ASSUME AlertTypeOK, RowInv, [AlertNext]_alertVars
  PROVE  RowInv'
<1> USE DEF RowInv, alertRows, history, alertHistory, digestHistory
<1>1. CASE AcceptIncident
  <2> DEFINE f == Head(pending)
  <2>1. f \in FP /\ now \in Nat /\ lastDelivered \in [FP -> Int]
    BY <1>1 DEF AcceptIncident, AlertTypeOK
  <2>2. /\ sentAt' = sentAt /\ at' = "acceptedIncident" /\ pending' = pending
        /\ lastDelivered' = IF Enabled THEN [lastDelivered EXCEPT ![f] = now] ELSE lastDelivered
    BY <1>1 DEF AcceptIncident
  <2> HIDE DEF f
  <2>3. \A g \in FP : lastDelivered[g] >= 0 => lastDelivered'[g] >= 0
    BY <2>1, <2>2
  <2>4. Enabled => lastDelivered'[f] >= 0
    BY <2>1, <2>2
  <2>5. lastDelivered'[Head(pending')] = lastDelivered'[f]
    BY <2>2 DEF f
  <2>6. QED
    BY <2>2, <2>3, <2>4, <2>5
<1>2. CASE RecordIncident
  <2>1. Head(pending) \in FP /\ now \in Nat
    BY <1>2 DEF RecordIncident, AlertTypeOK
  <2>2. \A f \in FP : sentAt'[f] = IF f = Head(pending) THEN now ELSE sentAt[f]
    BY <1>2 DEF RecordIncident, AlertTypeOK
  <2>3. /\ lastDelivered' = lastDelivered /\ at' = "incident" /\ at = "acceptedIncident"
    BY <1>2 DEF RecordIncident, NextIncident
  <2>4. QED
    BY <2>1, <2>2, <2>3
<1>3. CASE Advance \/ Tick \/ UNCHANGED alertVars
  BY <1>3 DEF Advance, Tick, Begin, alertVars
<1>4. CASE SkipIncident \/ DeferIncident \/ SendIncident \/ IncidentsDone
  BY <1>4 DEF SkipIncident, DeferIncident, SendIncident, IncidentsDone, NextIncident
<1>5. CASE HeartbeatCheck \/ DigestCheck \/ AcceptHeartbeat \/ AcceptDigest
           \/ RecordHeartbeat \/ RecordDigest
  BY <1>5 DEF HeartbeatCheck, DigestCheck, AcceptHeartbeat, AcceptDigest, RecordHeartbeat,
              RecordDigest
<1>6. CASE HandleIncidentBlindly \/ SendFails \/ RecordIncidentFails
  BY <1>6 DEF HandleIncidentBlindly, SendFails, RecordIncidentFails, NextIncident
<1>7. CASE SendHangs
  <2>1. pending' = pending /\ at' = "hung" /\ UNCHANGED <<sentAt, lastDelivered>>
    BY <1>7 DEF SendHangs
  <2>2. QED
    BY <2>1
<1>8. CASE HeartbeatBlindly \/ DigestBlindly \/ DigestAnswerLost \/ AlertRestart
  BY <1>8 DEF HeartbeatBlindly, DigestBlindly, DigestAnswerLost, AlertRestart
<1>9. QED
  BY <1>1, <1>2, <1>3, <1>4, <1>5, <1>6, <1>7, <1>8 DEF AlertNext, Step, AlertFailure

\* An incident the anti-spam check holds back has been sent.
LEMMA SkipIsBacked ==
  ASSUME AlertTypeOK, RowInv, Enabled, NEW f \in FP, SentRecently(f)
  PROVE  Suppressed(f)
<1>1. sentAt[f] \in Int /\ now \in Nat /\ Window \in Nat
  BY AlertAssumption DEF AlertTypeOK
<1>2. sentAt[f] >= now - Window /\ sentAt[f] # Never
  BY <1>1 DEF SentRecently, Never
<1>3. QED
  BY <1>1, <1>2 DEF RowInv, Suppressed

\* No incident leaves the loop of process_incidents unseen: an anti-spam skip
\* always stands for an alert Telegram has accepted, for every policy, batch,
\* timing and number of faults.
THEOREM SkippedWereSent == AlertSpec => NothingSkippedUnsent
<1> DEFINE Seen ==
      Enabled /\ pending # <<>> /\ pending' # pending =>
        LET f == Head(pending)
        IN  \/ BelowMinimum(f)
            \/ queue' = Append(queue, f)
            \/ at = "acceptedIncident" /\ lastDelivered[f] >= 0
            \/ at = "sendIncident" /\ f \in refused'
            \/ Suppressed(f)
            \/ AlertRestart
<1>1. AlertInit => RowInv
  BY DEF AlertInit, RowInv
<1>2. AlertTypeOK /\ RowInv /\ [AlertNext]_alertVars => RowInv'
  BY RowStep
<1>3. AlertTypeOK /\ RowInv /\ [AlertNext]_alertVars => [Seen]_alertVars
  <2> SUFFICES ASSUME AlertTypeOK, RowInv, [AlertNext]_alertVars,
                      Enabled, pending # <<>>, pending' # pending
               PROVE  LET f == Head(pending)
                      IN  \/ BelowMinimum(f)
                          \/ queue' = Append(queue, f)
                          \/ at = "acceptedIncident" /\ lastDelivered[f] >= 0
                          \/ at = "sendIncident" /\ f \in refused'
                          \/ Suppressed(f)
                          \/ AlertRestart
    OBVIOUS
  <2>1. Head(pending) \in FP
    BY DEF AlertTypeOK
  <2>2. CASE SkipIncident
    BY <2>1, <2>2, SkipIsBacked DEF SkipIncident
  <2>3. CASE DeferIncident
    BY <2>3 DEF DeferIncident
  <2>4. CASE HandleIncidentBlindly
    BY <2>4 DEF HandleIncidentBlindly
  <2>5. CASE SendFails
    BY <2>5 DEF SendFails
  <2>6. CASE RecordIncident \/ RecordIncidentFails
    BY <2>6 DEF RecordIncident, RecordIncidentFails, RowInv
  <2>7. ASSUME NEW batch \in Batches, Begin(batch) PROVE FALSE
    BY <2>7 DEF Begin, RowInv
  <2>8. QED
    BY <2>2, <2>3, <2>4, <2>5, <2>6, <2>7
    DEF AlertNext, Tick, Step, AlertFailure, Advance, SendIncident, IncidentsDone,
        HeartbeatCheck, DigestCheck, AcceptIncident, AcceptHeartbeat, AcceptDigest,
        RecordHeartbeat, RecordDigest, HeartbeatBlindly, DigestBlindly, SendHangs,
        DigestAnswerLost, alertVars
<1>4. QED
  BY <1>1, <1>2, <1>3, AlertTypeCorrect, PTL DEF AlertSpec, NothingSkippedUnsent
=============================================================================
