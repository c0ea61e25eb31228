-------------------------- MODULE AccessGateProofs --------------------------
(***************************************************************************)
(* Proofs about the access gate: its types, that the unlock form is no     *)
(* dead end, that a reset which met nothing under way is final, and that   *)
(* an application without an open gate is going to be locked.              *)
(***************************************************************************)
EXTENDS AccessGate, TLAPS

TasksOK ==
  /\ tasks \in [Slot -> Task]
  /\ \A s \in Slot : tasks[s].kind \in {"secret", "import"} =>
       tasks[s].who \in Validator /\ tasks[s].pw \in Password

\* What makes a quiet reset final: no copy of the profile is left in an open
\* gate, no form that shows the main window is open, and none is under way.
ResetInv ==
  cleared /\ ~raced =>
    /\ stored = None /\ ~mainShown
    /\ gate = "open" => profile = None /\ stage # "unlock"
    /\ \A s \in Slot : tasks[s].kind \notin Entering
-----------------------------------------------------------------------------
(***************************************************************************)
(* The records of tasks.                                                   *)
(***************************************************************************)
\* A free slot holds no handler.
LEMMA FreeTask == Free \in Task /\ Free.kind = "free"
  BY DEF Free, Task

\* A form that resolves an identity.
LEMMA ResolvingTask ==
  ASSUME NEW v \in Validator PROVE Resolving(v) \in Task /\ Resolving(v).kind = "resolve"
  BY DEF Resolving, Free, Task

\* A setup under way, with the validator and the password it captured.
LEMMA SettingUpTask ==
  ASSUME NEW v \in Validator, NEW p \in Password
  PROVE  /\ SettingUp(v, p) \in Task /\ SettingUp(v, p).kind = "secret"
         /\ SettingUp(v, p).who \in Validator /\ SettingUp(v, p).pw \in Password
  BY DEF SettingUp, Free, Task

\* An unlock under way, with the profile and the attempts it captured.
LEMMA UnlockingTask ==
  ASSUME NEW p \in Password, NEW known \in Profile, NEW n \in Nat
  PROVE  Unlocking(p, known, n) \in Task /\ Unlocking(p, known, n).kind = "unlock"
  BY DEF Unlocking, Free, Task

\* Another task in a slot keeps TasksOK if the new one is a good one.
LEMMA TaskSet ==
  ASSUME TasksOK, NEW s \in Slot, NEW t \in Task,
         t.kind \in {"secret", "import"} => t.who \in Validator /\ t.pw \in Password,
         tasks' = [tasks EXCEPT ![s] = t]
  PROVE  TasksOK'
<1>1. tasks' \in [Slot -> Task]
  BY DEF TasksOK
<1>2. \A r \in Slot : tasks'[r] = IF r = s THEN t ELSE tasks[r]
  BY DEF TasksOK
<1>3. QED
  BY <1>1, <1>2 DEF TasksOK

\* A handler that ends frees its slot and changes no other.
LEMMA TaskFreed ==
  ASSUME TasksOK, NEW s \in Slot, tasks' = [tasks EXCEPT ![s] = Free]
  PROVE  /\ TasksOK'
         /\ \A r \in Slot : tasks'[r].kind \in {"free", tasks[r].kind}
<1>1. TasksOK'
  BY FreeTask, TaskSet
<1>2. \A r \in Slot : tasks'[r] = IF r = s THEN Free ELSE tasks[r]
  BY DEF TasksOK
<1>3. QED
  BY <1>1, <1>2, FreeTask

\* A task that goes on to its next request.
LEMMA TaskMoved ==
  ASSUME TasksOK, NEW s \in Slot, NEW k \in {"direct", "import"},
         k = "import" => tasks[s].kind = "secret",
         tasks' = [tasks EXCEPT ![s].kind = k]
  PROVE  TasksOK'
<1>1. tasks[s] \in Task
  BY DEF TasksOK
<1> DEFINE t == [tasks[s] EXCEPT !.kind = k]
<1>2. t \in Task /\ t.kind = k /\ t.who = tasks[s].who /\ t.pw = tasks[s].pw
  BY <1>1 DEF Task
<1>3. k = "import" => t.who \in Validator /\ t.pw \in Password
  BY <1>2 DEF TasksOK
<1>4. tasks' = [tasks EXCEPT ![s] = t]
  OBVIOUS
<1> HIDE DEF t
<1>5. QED
  BY <1>2, <1>3, <1>4, TaskSet
-----------------------------------------------------------------------------
(***************************************************************************)
(* Windows.                                                                *)
(***************************************************************************)
FormOK ==
  /\ stage \in Stage /\ profile \in Profile \union {None}
  /\ resolved \in Validator \union {None} /\ attempts \in Nat
  /\ busy \in {"none", "resolve", "setup", "unlock"} /\ prompt \in BOOLEAN
  /\ checksDone \in 0..StartupSteps
  /\ checksFailed \in BOOLEAN /\ checksCompleted \in BOOLEAN
  /\ TasksOK /\ streak \in Nat

\* The type invariant, with the gate's form as one part.
LEMMA TypeParts ==
  TypeOK <=> /\ stored \in Profile \union {None}
             /\ mainShown \in BOOLEAN /\ armed \in BOOLEAN /\ syncDue \in BOOLEAN
             /\ mainProfile \in Profile \union {None}
             /\ gate \in {"open", "closing", "closed"}
             /\ FormOK
             /\ cleared \in BOOLEAN /\ raced \in BOOLEAN
  BY DEF TypeOK, FormOK, TasksOK

\* What a gate loaded anew starts with: no handler under way, no attempts, and an
\* unlock form only for a known profile.
LEMMA FreshGate ==
  ASSUME NEW l \in BOOLEAN, NEW known \in Profile \union {None}, Fresh(l, known)
  PROVE  /\ FormOK'
         /\ profile' = known /\ attempts' = 0 /\ streak' = 0
         /\ stage' = "unlock" => known # None
         /\ \A s \in Slot : tasks'[s].kind = "free"
<1>1. /\ stage' \in Stage /\ profile' = known /\ attempts' = 0 /\ streak' = 0
      /\ stage' = "unlock" => known # None
  BY DEF Fresh, Stage
<1>2. tasks' = [s \in Slot |-> Free]
  BY DEF Fresh
<1>3. TasksOK'
  BY <1>2, FreeTask DEF TasksOK
<1>4. /\ resolved' \in Validator \union {None} /\ attempts' \in Nat
      /\ busy' \in {"none", "resolve", "setup", "unlock"}
      /\ checksDone' \in 0..StartupSteps
  BY DEF Fresh, StartupSteps
<1>5. prompt' \in BOOLEAN /\ checksFailed' \in BOOLEAN /\ checksCompleted' \in BOOLEAN
  BY Zenon DEF Fresh
<1>6. FormOK'
  BY <1>1, <1>3, <1>4, <1>5 DEF FormOK
<1>7. QED
  BY <1>1, <1>2, <1>6, FreeTask
-----------------------------------------------------------------------------
(***************************************************************************)
(* The inductive invariant.                                                *)
(***************************************************************************)

\* An open gate hides the main window.
HiddenInv == gate = "open" => ~mainShown

\* The form has a profile, and a counter at its limit has raised the prompt.
UnlockInv ==
  /\ stage = "unlock" => profile # None
  /\ attempts >= MaxAttempts => prompt

Inv == TypeOK /\ HiddenInv /\ UnlockInv /\ ResetInv

\* A step inside the gate.
LEMMA GateStep ==
  ASSUME Inv, UNCHANGED <<stored, mainShown, mainProfile, armed, syncDue, gate, cleared, raced>>,
         FormOK', UnlockInv',
         cleared /\ ~raced =>
           /\ gate = "open" => profile' = None /\ stage' # "unlock"
           /\ \A s \in Slot : tasks'[s].kind \notin Entering
  PROVE  Inv'
<1>1. TypeOK'
  BY TypeParts DEF Inv, TypeOK, FormOK, TasksOK
<1>2. HiddenInv'
  BY DEF Inv, HiddenInv
<1>3. ResetInv'
  BY DEF Inv, ResetInv
<1>4. QED
  BY <1>1, <1>2, <1>3 DEF Inv

\* The main window is shown: the gate is going to be closed.
LEMMA MainShownStep ==
  ASSUME Inv, ShowMain, stored' \in Profile \union {None}, UNCHANGED history,
         FormOK', UnlockInv', ~(cleared /\ ~raced)
  PROVE  Inv'
<1>1. mainShown' = TRUE /\ gate' = "closing" /\ syncDue' = TRUE
      /\ UNCHANGED <<mainProfile, armed, cleared, raced>>
  BY DEF ShowMain, history
<1>2. TypeOK'
  BY <1>1 DEF Inv, TypeOK, FormOK, TasksOK
<1>3. HiddenInv' /\ ResetInv'
  BY <1>1 DEF HiddenInv, ResetInv
<1>4. QED
  BY <1>2, <1>3 DEF Inv

\* The event loop closes the gate: nothing of its page is left.
LEMMA GateClosesStep ==
  ASSUME Inv, GateCloses PROVE Inv'
<1>1. /\ gate = "closing" /\ gate' = "closed"
      /\ UNCHANGED <<stored, mainShown, mainProfile, armed, syncDue, cleared, raced>>
  BY DEF GateCloses, shell, history
<1>2. /\ FormOK' /\ profile' = None /\ attempts' = 0 /\ stage' # "unlock"
      /\ \A s \in Slot : tasks'[s].kind = "free"
  BY FreshGate DEF GateCloses
<1>3. TypeOK'
  BY <1>1, <1>2 DEF Inv, TypeOK, FormOK, TasksOK
<1>4. HiddenInv' /\ UnlockInv'
  BY <1>1, <1>2, GateAssumption DEF HiddenInv, UnlockInv
<1>5. \A s \in Slot : tasks'[s].kind \notin Entering
  BY <1>2 DEF Entering
<1>6. ResetInv'
  BY <1>1, <1>5 DEF Inv, ResetInv
<1>7. QED
  BY <1>3, <1>4, <1>6 DEF Inv

\* Locking, from the timer, the button or the settings page: a gate that exists
\* comes to the front as it is, closing or not, or a new one is loaded.
LEMMA LockStep ==
  ASSUME Inv, NEW known \in Profile \union {None}, ShowGate(known),
         stored' \in Profile \union {None}, mainProfile' \in Profile \union {None},
         armed' \in BOOLEAN, syncDue' = syncDue,
         cleared' \in BOOLEAN, raced' \in BOOLEAN,
         cleared' /\ ~raced' =>
           /\ stored' = None /\ known = None
           /\ (cleared /\ ~raced)
              \/ (gate # "open" /\ \A s \in Slot : tasks[s].kind \notin Entering)
  PROVE  Inv'
<1>1. mainShown' = FALSE
  BY DEF ShowGate
<1>2. HiddenInv'
  BY <1>1 DEF HiddenInv
<1>3. CASE gate # "closed"
  <2>1. UNCHANGED <<gate, stage, profile, resolved, attempts, busy, prompt, checksDone,
                    checksFailed, checksCompleted, tasks, streak>>
    BY <1>3 DEF ShowGate, form, checks
  <2>2. TypeOK'
    BY <1>1, <2>1 DEF Inv, TypeOK
  <2>3. UnlockInv'
    BY <2>1 DEF Inv, UnlockInv
  <2>4. ResetInv'
    BY <1>1, <2>1 DEF Inv, ResetInv
  <2>5. QED
    BY <1>2, <2>2, <2>3, <2>4 DEF Inv
<1>4. CASE gate = "closed"
  <2>1. Fresh(TRUE, known) /\ gate' = "open"
    BY <1>4 DEF ShowGate
  <2>2. /\ FormOK' /\ profile' = known /\ attempts' = 0
        /\ stage' = "unlock" => known # None
        /\ \A s \in Slot : tasks'[s].kind = "free"
    BY <2>1, FreshGate
  <2>3. TypeOK'
    BY <1>1, <2>1, <2>2 DEF Inv, TypeOK, FormOK, TasksOK
  <2>4. UnlockInv'
    BY <2>2, GateAssumption DEF UnlockInv
  <2>5. \A s \in Slot : tasks'[s].kind \notin Entering
    BY <2>2 DEF Entering
  <2>6. ASSUME cleared' /\ ~raced'
        PROVE  stored' = None /\ profile' = None /\ stage' # "unlock"
    BY <2>2, <2>6
  <2>7. ResetInv'
    BY <1>1, <2>5, <2>6 DEF ResetInv
  <2>8. QED
    BY <1>2, <2>3, <2>4, <2>7 DEF Inv
<1>5. QED
  BY <1>3, <1>4

\* The steps of the operator in the gate that await nothing.
LEMMA NavigateStep ==
  ASSUME Inv, CheckStep \/ Navigate PROVE Inv'
<1>0. FormOK /\ UnlockInv /\ ResetInv
  BY TypeParts DEF Inv
<1>1. UNCHANGED <<stored, mainShown, mainProfile, armed, syncDue, gate, cleared, raced>>
      /\ UNCHANGED <<profile, resolved, busy, tasks>>
  BY DEF CheckStep, Navigate, ContinueAfterChecks, BackToChecks, ContinueToPassword,
         BackToIdentity, TryAgain, GateRest, Outside, shell, history, form, checks
<1>2. CASE CheckStep
  <2>1. UNCHANGED <<stage, attempts, prompt, streak>> /\ checksDone' = checksDone + 1
        /\ checksDone < StartupSteps
    BY <1>2 DEF CheckStep, form, GateRest
  <2>2. checksFailed' \in BOOLEAN /\ checksCompleted' \in BOOLEAN
    BY <1>0, <1>2 DEF CheckStep, FormOK
  <2>3. checksDone' \in 0..StartupSteps
    BY <1>0, <2>1 DEF FormOK, StartupSteps
  <2>4. FormOK'
    BY <1>0, <1>1, <2>1, <2>2, <2>3 DEF FormOK, TasksOK
  <2>5. QED
    BY <1>0, <1>1, <2>1, <2>4, GateStep DEF UnlockInv, ResetInv
<1>3. CASE Navigate
  <2>1. /\ stage' \in Stage
        /\ stage' = "unlock" => stage = "unlock" \/ profile # None
    BY <1>0, <1>3 DEF Navigate, ContinueAfterChecks, BackToChecks, ContinueToPassword,
                 BackToIdentity, TryAgain, Stage, FormOK
  <2>2. attempts' \in {0, attempts} /\ (attempts' # 0 => prompt' = prompt)
        /\ prompt' \in {FALSE, prompt} /\ streak' \in {0, streak}
    BY <1>3 DEF Navigate, ContinueAfterChecks, BackToChecks, ContinueToPassword,
                 BackToIdentity, TryAgain, GateRest
  <2>3. /\ checksDone' \in {0, checksDone} /\ checksFailed' \in {FALSE, checksFailed}
        /\ checksCompleted' \in {FALSE, checksCompleted}
    BY <1>3 DEF Navigate, ContinueAfterChecks, BackToChecks, ContinueToPassword,
                 BackToIdentity, TryAgain, checks
  <2>4. FormOK'
    <3>1. prompt' \in BOOLEAN /\ checksFailed' \in BOOLEAN /\ checksCompleted' \in BOOLEAN
      BY <1>0, <2>2, <2>3, Zenon DEF FormOK
    <3>2. checksDone' \in 0..StartupSteps /\ attempts' \in Nat /\ streak' \in Nat
      BY <1>0, <2>2, <2>3 DEF FormOK, StartupSteps
    <3>3. QED
      BY <1>0, <1>1, <2>1, <3>1, <3>2 DEF FormOK, TasksOK
  <2>5. UnlockInv'
    BY <1>0, <1>1, <2>1, <2>2, GateAssumption DEF UnlockInv, FormOK
  <2>6. QED
    BY <1>0, <1>1, <2>1, <2>4, <2>5, GateStep DEF ResetInv, UnlockInv
<1>4. QED
  BY <1>2, <1>3
-----------------------------------------------------------------------------
(***************************************************************************)
(* The forms that await.                                                   *)
(***************************************************************************)
\* Submitting a form, which starts its handler, keeps the invariant.
LEMMA SubmitStep ==
  ASSUME Inv, NEW s \in Slot, Submit(s) PROVE Inv'
<1>0. FormOK /\ UnlockInv /\ ResetInv /\ TasksOK /\ stored \in Profile \union {None}
  BY TypeParts DEF Inv, FormOK
<1>1. ASSUME NEW v \in Validator, SubmitResolve(s, v) PROVE Inv'
  <2>1. /\ UNCHANGED <<stored, mainShown, mainProfile, armed, syncDue, gate, cleared, raced>>
        /\ UNCHANGED <<stage, profile, resolved, attempts, prompt, checksDone, checksFailed,
                       checksCompleted, streak>>
        /\ busy' = "resolve" /\ tasks' = [tasks EXCEPT ![s] = Resolving(v)]
    BY <1>1 DEF SubmitResolve, GateRest, Outside, shell, history, checks
  <2>2. TasksOK' /\ \A r \in Slot : tasks'[r] = IF r = s THEN Resolving(v) ELSE tasks[r]
    BY <1>0, <2>1, ResolvingTask, TaskSet DEF TasksOK
  <2>3. FormOK'
    BY <1>0, <2>1, <2>2 DEF FormOK
  <2>4. UnlockInv'
    BY <1>0, <2>1 DEF UnlockInv
  <2>5. \A r \in Slot : tasks[r].kind \notin Entering => tasks'[r].kind \notin Entering
    BY <2>2, ResolvingTask DEF Entering
  <2>6. QED
    BY <1>0, <2>1, <2>3, <2>4, <2>5, GateStep DEF ResetInv
<1>2. ASSUME NEW p \in Password, SubmitSetup(s, p) PROVE Inv'
  <2>1. /\ UNCHANGED <<stored, mainShown, mainProfile, armed, syncDue, gate>>
        /\ UNCHANGED <<stage, profile, resolved, attempts, prompt, checksDone, checksFailed,
                       checksCompleted, streak>>
        /\ busy' = "setup" /\ tasks' = [tasks EXCEPT ![s] = SettingUp(resolved, p)]
        /\ resolved # None
    BY <1>2 DEF SubmitSetup, shell, checks
  <2>2. cleared' = FALSE /\ raced' = FALSE
    BY <1>2 DEF SubmitSetup
  <2>3. TasksOK'
    BY <1>0, <2>1, SettingUpTask, TaskSet DEF FormOK
  <2>4. FormOK'
    BY <1>0, <2>1, <2>3 DEF FormOK
  <2>5. TypeOK'
    BY <2>1, <2>2, <2>4 DEF Inv, TypeOK, FormOK, TasksOK
  <2>6. UnlockInv' /\ HiddenInv' /\ ResetInv'
    BY <1>0, <2>1, <2>2 DEF Inv, UnlockInv, HiddenInv, ResetInv
  <2>7. QED
    BY <2>5, <2>6 DEF Inv
<1>3. ASSUME NEW p \in Password, SubmitUnlock(s, p) PROVE Inv'
  <2> DEFINE current == IF profile # None THEN profile ELSE stored
  <2>1. /\ UNCHANGED <<stored, mainShown, mainProfile, armed, syncDue, gate, cleared, raced>>
        /\ UNCHANGED <<profile, resolved, attempts, prompt, checksDone, checksFailed,
                       checksCompleted>>
        /\ stage = "unlock" /\ gate = "open"
    BY <1>3 DEF Here, SubmitUnlock, Outside, shell, history, checks
  <2>2. ~(cleared /\ ~raced)
    BY <1>0, <2>1 DEF ResetInv
  <2>3. CASE current = None
    <3>1. stage' = "identity" /\ UNCHANGED <<tasks, busy, streak>>
      BY <1>3, <2>3 DEF SubmitUnlock
    <3>2. FormOK' /\ UnlockInv'
      BY <1>0, <2>1, <3>1 DEF FormOK, TasksOK, Stage, UnlockInv
    <3>3. QED
      BY <2>1, <2>2, <3>2, GateStep
  <2>4. CASE current # None
    <3>1. /\ tasks' = [tasks EXCEPT ![s] = Unlocking(p, current, attempts)]
          /\ busy' = "unlock" /\ stage' = stage /\ streak' \in {0, streak}
      BY <1>3, <2>4 DEF SubmitUnlock
    <3>2. current \in Profile /\ attempts \in Nat
      BY <1>0, <2>4 DEF FormOK
    <3>3. TasksOK'
      BY <1>0, <3>1, <3>2, UnlockingTask, TaskSet
    <3>4. FormOK' /\ UnlockInv'
      BY <1>0, <2>1, <3>1, <3>3 DEF FormOK, UnlockInv
    <3>5. QED
      BY <2>1, <2>2, <3>4, GateStep
  <2>5. QED
    BY <2>3, <2>4
<1>4. QED
  BY <1>1, <1>2, <1>3 DEF Submit

\* A handler that goes on keeps the invariant.
LEMMA ContinueStep ==
  ASSUME Inv, NEW s \in Slot, Continue(s) PROVE Inv'
<1>0. /\ FormOK /\ UnlockInv /\ ResetInv /\ TasksOK /\ stored \in Profile \union {None}
      /\ tasks[s] \in Task
  BY TypeParts DEF Inv, FormOK, TasksOK
<1>1. CASE ResolveAnswer(s) \/ ResolveDirectly(s)
  <2>1. /\ UNCHANGED <<stored, mainShown, mainProfile, armed, syncDue, gate, cleared, raced>>
        /\ UNCHANGED <<stage, profile, attempts, prompt, checksDone, checksFailed,
                       checksCompleted, streak>>
        /\ resolved' \in {tasks[s].who, None} /\ busy' = "none"
        /\ tasks' = [tasks EXCEPT ![s] = Free]
    BY <1>1 DEF ResolveAnswer, ResolveDirectly, Resolution, GateRest, Outside, shell, history, checks
  <2>2. TasksOK' /\ \A r \in Slot : tasks'[r].kind \in {"free", tasks[r].kind}
    BY <1>0, <2>1, TaskFreed
  <2>3. FormOK' /\ UnlockInv'
    BY <1>0, <2>1, <2>2 DEF FormOK, UnlockInv, Task
  <2>4. \A r \in Slot : tasks[r].kind \notin Entering => tasks'[r].kind \notin Entering
    BY <2>2 DEF Entering
  <2>5. QED
    BY <1>0, <2>1, <2>3, <2>4, GateStep DEF ResetInv
<1>2. CASE DaemonSilent(s)
  <2>1. /\ UNCHANGED <<stored, mainShown, mainProfile, armed, syncDue, gate, cleared, raced>>
        /\ UNCHANGED <<stage, profile, resolved, attempts, busy, prompt, checksDone,
                       checksFailed, checksCompleted, streak>>
        /\ tasks' = [tasks EXCEPT ![s].kind = "direct"]
    BY <1>2 DEF DaemonSilent, GateRest, Outside, shell, history, checks, form
  <2>2. TasksOK'
    BY <1>0, <2>1, TaskMoved
  <2>3. FormOK' /\ UnlockInv'
    BY <1>0, <2>1, <2>2 DEF FormOK, UnlockInv
  <2>4. \A r \in Slot : tasks'[r].kind \in {"direct", tasks[r].kind}
    BY <1>0, <2>1 DEF TasksOK, Task
  <2>5. \A r \in Slot : tasks[r].kind \notin Entering => tasks'[r].kind \notin Entering
    BY <2>4 DEF Entering
  <2>6. QED
    BY <1>0, <2>1, <2>3, <2>5, GateStep DEF ResetInv
<1>3. CASE SetupSave(s)
  <2>1. /\ UNCHANGED <<mainShown, mainProfile, armed, gate, cleared, raced>>
        /\ UNCHANGED <<stage, resolved, attempts, busy, prompt, checksDone, checksFailed,
                       checksCompleted, streak>>
        /\ stored' = [validator |-> tasks[s].who, password |-> tasks[s].pw]
        /\ profile' = stored'
        /\ tasks[s].kind = "secret" /\ tasks' = [tasks EXCEPT ![s].kind = "import"]
    BY <1>3 DEF SetupSave, Save, shell, history, checks
  <2>2. syncDue' = TRUE
    BY <1>3 DEF SetupSave
  <2>3. stored' \in Profile /\ stored' # None
    BY <1>0, <2>1, GateAssumption DEF TasksOK, Profile
  <2>4. TasksOK'
    BY <1>0, <2>1, TaskMoved
  <2>5. TypeOK'
    BY <1>0, <2>1, <2>2, <2>3, <2>4 DEF Inv, TypeOK, TasksOK
  <2>6. UnlockInv' /\ HiddenInv'
    BY <1>0, <2>1, <2>3 DEF Inv, UnlockInv, HiddenInv
  <2>7. ~(cleared /\ ~raced)
    BY <1>0, <2>1 DEF ResetInv, Entering
  <2>8. QED
    BY <2>1, <2>5, <2>6, <2>7 DEF Inv, ResetInv
<1>4. CASE SetupFinish(s)
  <2>1. /\ tasks[s].kind = "import" /\ ShowMain /\ UNCHANGED history
        /\ stored' = [validator |-> tasks[s].who, password |-> tasks[s].pw]
        /\ profile' = stored' /\ busy' = "none" /\ tasks' = [tasks EXCEPT ![s] = Free]
        /\ UNCHANGED <<stage, resolved, attempts, prompt, checksDone, checksFailed,
                       checksCompleted, streak>>
    BY <1>4 DEF SetupFinish, Save, checks
  <2>2. ~(cleared /\ ~raced)
    BY <1>0, <2>1 DEF ResetInv, Entering
  <2>3. stored' \in Profile /\ stored' # None
    BY <1>0, <2>1, GateAssumption DEF TasksOK, Profile
  <2>4. TasksOK'
    BY <1>0, <2>1, TaskFreed
  <2>5. FormOK' /\ UnlockInv'
    BY <1>0, <2>1, <2>3, <2>4 DEF FormOK, UnlockInv
  <2>6. QED
    BY <2>1, <2>2, <2>3, <2>5, MainShownStep
<1>5. CASE UnlockSucceeds(s)
  <2>1. /\ tasks[s].kind = "unlock" /\ ShowMain /\ UNCHANGED history /\ stored' = stored
        /\ attempts' = 0 /\ streak' = 0 /\ busy' = "none"
        /\ tasks' = [tasks EXCEPT ![s] = Free]
        /\ UNCHANGED <<stage, profile, resolved, prompt, checksDone, checksFailed,
                       checksCompleted>>
    BY <1>5 DEF UnlockSucceeds, checks
  <2>2. ~(cleared /\ ~raced)
    BY <1>0, <2>1 DEF ResetInv, Entering
  <2>3. TasksOK'
    BY <1>0, <2>1, TaskFreed
  <2>4. FormOK' /\ UnlockInv'
    BY <1>0, <2>1, <2>3, GateAssumption DEF FormOK, UnlockInv
  <2>5. QED
    BY <1>0, <2>1, <2>2, <2>4, MainShownStep
<1>6. CASE SetupFails(s) \/ UnlockFails(s) \/ UnlockError(s)
  <2>1. /\ UNCHANGED <<stored, mainShown, mainProfile, armed, syncDue, gate, cleared, raced>>
        /\ UNCHANGED <<stage, profile, resolved, checksDone, checksFailed, checksCompleted>>
        /\ busy' = "none" /\ tasks' = [tasks EXCEPT ![s] = Free]
    BY <1>6 DEF SetupFails, UnlockFails, UnlockError, GateRest, Outside, shell, history, checks
  <2>2. TasksOK' /\ \A r \in Slot : tasks'[r].kind \in {"free", tasks[r].kind}
    BY <1>0, <2>1, TaskFreed
  <2>3. \A r \in Slot : tasks[r].kind \notin Entering => tasks'[r].kind \notin Entering
    BY <2>2 DEF Entering
  <2>4. attempts' \in Nat /\ prompt' \in BOOLEAN /\ (attempts' >= MaxAttempts => prompt')
        /\ streak' \in Nat
    <3>1. CASE UnlockFails(s)
      <4>1. tasks[s].count + 1 \in Nat /\ attempts' = tasks[s].count + 1
        BY <1>0, <3>1 DEF UnlockFails, Task
      <4>2. prompt' = (prompt \/ tasks[s].count + 1 >= MaxAttempts)
        BY <3>1 DEF UnlockFails
      <4>3. prompt' \in BOOLEAN
        BY <4>2, Zenon
      <4>4. attempts' >= MaxAttempts => prompt'
        BY <4>1, <4>2
      <4>5. streak' \in Nat
        BY <1>0, <3>1 DEF UnlockFails, FormOK
      <4>6. QED
        BY <4>1, <4>3, <4>4, <4>5
    <3>2. CASE SetupFails(s) \/ UnlockError(s)
      BY <1>0, <3>2 DEF SetupFails, UnlockError, FormOK, UnlockInv, GateRest
    <3>3. QED
      BY <1>6, <3>1, <3>2
  <2>5. FormOK' /\ UnlockInv'
    BY <1>0, <2>1, <2>2, <2>4 DEF FormOK, UnlockInv
  <2>6. QED
    BY <1>0, <2>1, <2>3, <2>5, GateStep DEF ResetInv
<1>7. QED
  BY <1>1, <1>2, <1>3, <1>4, <1>5, <1>6 DEF Continue
-----------------------------------------------------------------------------
(***************************************************************************)
(* Resets, the main shell and a new start.                                 *)
(***************************************************************************)
\* A reset of access keeps it, whatever is under way.
LEMMA ResetAccessStep ==
  ASSUME Inv, ResetAccess PROVE Inv'
<1>0. FormOK /\ TasksOK
  BY TypeParts DEF Inv, FormOK
<1>1. /\ UNCHANGED <<mainShown, mainProfile, armed, gate, busy, checksDone, checksFailed,
                     checksCompleted, tasks>>
      /\ stored' = None /\ stage' = "identity" /\ profile' = None /\ resolved' = None
      /\ attempts' = 0 /\ streak' = 0 /\ gate = "open"
  BY DEF ResetAccess, shell, checks, Here
<1>2. prompt' = FALSE /\ syncDue' = TRUE /\ cleared' = TRUE
  BY DEF ResetAccess
<1>3. raced' = \E s \in Slot : tasks[s].kind \in Entering
  BY DEF ResetAccess, Racing
<1>4. raced' \in BOOLEAN
  BY <1>3, Zenon
<1>5. TypeOK'
  BY <1>0, <1>1, <1>2, <1>4 DEF Inv, TypeOK, TasksOK, Stage
<1>6. UnlockInv' /\ HiddenInv' /\ ~mainShown'
  <2>1. HiddenInv' /\ ~mainShown'
    BY <1>1 DEF Inv, HiddenInv, TypeOK
  <2>2. UnlockInv'
    BY <1>1, GateAssumption DEF UnlockInv
  <2>3. QED
    BY <2>1, <2>2
<1>7. ResetInv'
  BY <1>1, <1>3, <1>6 DEF ResetInv
<1>8. QED
  BY <1>5, <1>6, <1>7 DEF Inv

\* A delivered event and the steps of the main shell keep it.
LEMMA ShellStep ==
  ASSUME Inv, SyncProfile \/ MainShell PROVE Inv'
<1>0. /\ FormOK /\ TasksOK /\ UnlockInv /\ ResetInv /\ stored \in Profile \union {None}
      /\ mainProfile \in Profile \union {None}
  BY TypeParts DEF Inv, FormOK
<1>1. CASE SyncProfile \/ Activity \/ ChangeAutoLock
  <2>1. /\ UNCHANGED <<stored, mainShown, gate, cleared, raced>>
        /\ UNCHANGED <<stage, profile, resolved, attempts, busy, prompt, checksDone,
                       checksFailed, checksCompleted, tasks, streak>>
        /\ mainProfile' \in {stored, mainProfile}
    BY <1>1 DEF SyncProfile, Activity, ChangeAutoLock, form, checks, history
  <2>2. armed' \in BOOLEAN /\ syncDue' \in {FALSE, syncDue}
    BY <1>1, Zenon DEF SyncProfile, Activity, ChangeAutoLock
  <2>3. TypeOK'
    <3>1. syncDue' \in BOOLEAN /\ mainProfile' \in Profile \union {None}
      BY <1>0, <2>1, <2>2, Zenon DEF Inv, TypeOK
    <3>2. QED
      BY <2>1, <2>2, <3>1 DEF Inv, TypeOK
  <2>4. UnlockInv' /\ HiddenInv' /\ ResetInv'
    BY <2>1 DEF Inv, UnlockInv, HiddenInv, ResetInv
  <2>5. QED
    BY <2>3, <2>4 DEF Inv
<1>2. CASE AutoLock \/ LockNow
  <2>1. /\ ShowGate(stored) /\ UNCHANGED <<stored, mainProfile, syncDue, cleared, raced>>
    BY <1>2 DEF AutoLock, LockNow, history
  <2>2. armed' \in {FALSE, armed}
    BY <1>2 DEF AutoLock, LockNow
  <2>3. armed' \in BOOLEAN /\ cleared' \in BOOLEAN /\ raced' \in BOOLEAN
    BY <2>1, <2>2, Zenon DEF Inv, TypeOK
  <2>4. cleared' /\ ~raced' => stored' = None /\ stored = None /\ cleared /\ ~raced
    BY <1>0, <2>1 DEF ResetInv
  <2>5. QED
    BY <1>0, <2>1, <2>3, <2>4, LockStep
<1>3. CASE ResetFromSettings
  <2>1. /\ ShowGate(None) /\ stored' = None /\ mainProfile' = None /\ syncDue' = syncDue
        /\ mainShown
    BY <1>3 DEF ResetFromSettings
  <2>2. armed' \in BOOLEAN /\ cleared' \in BOOLEAN /\ raced' \in BOOLEAN
    BY <1>3, Zenon DEF ResetFromSettings, Racing
  <2>3. gate # "open" /\ (~raced' => \A s \in Slot : tasks[s].kind \notin Entering)
    BY <1>3, <2>1 DEF Inv, HiddenInv, ResetFromSettings, Racing
  <2>4. QED
    BY <2>1, <2>2, <2>3, LockStep
<1>4. QED
  BY <1>1, <1>2, <1>3 DEF MainShell

\* A restart of the application keeps it.
LEMMA QuitStep ==
  ASSUME Inv, Quit PROVE Inv'
<1>0. stored \in Profile \union {None} /\ ResetInv
  BY DEF Inv, TypeOK
<1>1. /\ Fresh(FALSE, stored) /\ UNCHANGED <<stored, cleared, raced>>
      /\ mainProfile' = stored
  BY DEF Quit, history
<1>2. mainShown' = FALSE /\ gate' = "open" /\ syncDue' = FALSE /\ armed' \in BOOLEAN
  BY Zenon DEF Quit
<1>3. /\ FormOK' /\ profile' = stored /\ attempts' = 0
      /\ stage' = "unlock" => stored # None
      /\ \A s \in Slot : tasks'[s].kind = "free"
  BY <1>0, <1>1, FreshGate
<1>4. TypeOK'
  BY <1>0, <1>1, <1>2, <1>3 DEF Inv, TypeOK, FormOK, TasksOK
<1>5. UnlockInv' /\ HiddenInv'
  <2>1. HiddenInv'
    BY <1>2, Zenon DEF HiddenInv
  <2>2. UnlockInv'
    BY <1>3, GateAssumption DEF UnlockInv
  <2>3. QED
    BY <2>1, <2>2
<1>6. \A s \in Slot : tasks'[s].kind \notin Entering
  BY <1>3 DEF Entering
<1>7. ResetInv'
  BY <1>0, <1>1, <1>2, <1>3, <1>6 DEF ResetInv
<1>8. QED
  BY <1>4, <1>5, <1>7 DEF Inv
-----------------------------------------------------------------------------
\* It holds at launch, with or without a stored profile.
LEMMA InitInv == Init => Inv
<1> SUFFICES ASSUME Init PROVE Inv
  OBVIOUS
<1>1. tasks = [s \in Slot |-> Free]
  BY DEF Init
<1>2. TasksOK
  BY <1>1, FreeTask DEF TasksOK
<1>3. /\ armed \in BOOLEAN /\ mainShown = FALSE /\ gate = "open" /\ syncDue = FALSE
      /\ prompt = FALSE /\ checksFailed = FALSE /\ checksCompleted = FALSE
      /\ cleared = FALSE /\ raced = FALSE
  BY Zenon DEF Init
<1>4. TypeOK
  <2>1. /\ stored \in Profile \union {None} /\ mainProfile \in Profile \union {None}
        /\ profile \in Profile \union {None} /\ stage \in Stage
        /\ resolved \in Validator \union {None}
        /\ busy \in {"none", "resolve", "setup", "unlock"}
    BY Zenon DEF Init, Stage
  <2>2. attempts \in Nat /\ checksDone \in 0..StartupSteps /\ streak \in Nat
    BY DEF Init, StartupSteps
  <2>3. QED
    BY <1>2, <1>3, <2>1, <2>2 DEF TypeOK, TasksOK
<1>5. HiddenInv /\ ResetInv
  BY <1>3 DEF HiddenInv, ResetInv
<1>6. UnlockInv
  BY GateAssumption DEF Init, UnlockInv
<1>7. QED
  BY <1>4, <1>5, <1>6 DEF Inv

\* Every step keeps the invariant.
LEMMA StepInv == Inv /\ [Next]_vars => Inv'
<1> SUFFICES ASSUME Inv, [Next]_vars PROVE Inv'
  OBVIOUS
<1>1. CASE Next
  BY <1>1, NavigateStep, SubmitStep, ContinueStep, ResetAccessStep, ShellStep,
     GateClosesStep, QuitStep DEF Next
<1>2. CASE UNCHANGED vars
  BY <1>2 DEF Inv, TypeOK, HiddenInv, UnlockInv, ResetInv, vars, shell, form, checks, history
<1>3. QED
  BY <1>1, <1>2

\* The inductive invariant holds of every state the two windows reach.
THEOREM Invariance == Spec => []Inv
  BY InitInv, StepInv, PTL DEF Spec

\* The state of both windows keeps its types, for any validators, passwords and
\* number of forms under way (AccessGate, MainShell).
THEOREM TypeCorrect == Spec => []TypeOK
<1>1. Inv => TypeOK
  BY DEF Inv
<1>2. QED
  BY <1>1, Invariance, PTL

-----------------------------------------------------------------------------
(***************************************************************************)
(* Wrong passwords.                                                        *)
(***************************************************************************)

\* The counter, and the count each verification under way started from, is not
\* behind the passwords verified one at a time.
CountInv ==
  /\ streak <= attempts
  /\ \A s \in Slot : tasks[s].kind = "unlock" => streak <= tasks[s].count

\* A step that starts no verification and gives up the streak, or keeps it
\* together with the counter.
LEMMA CountStays ==
  ASSUME TypeOK, TypeOK', CountInv,
         streak' = 0 \/ (streak' = streak /\ attempts' = attempts),
         \A r \in Slot : tasks'[r].kind = "unlock" => tasks'[r] = tasks[r]
  PROVE  CountInv'
<1>1. streak \in Nat /\ attempts' \in Nat /\ \A r \in Slot : tasks'[r].count \in Nat
  BY DEF TypeOK, Task
<1>2. QED
  BY <1>1 DEF CountInv

\* A handler that ends, or goes on to its next request, leaves the
\* verifications of the others alone.
LEMMA OthersStay ==
  ASSUME TypeOK, NEW s \in Slot,
         \/ tasks' = [tasks EXCEPT ![s] = Free]
         \/ \E k \in {"direct", "import"} : tasks' = [tasks EXCEPT ![s].kind = k]
         \/ \E v : tasks' = [tasks EXCEPT ![s] = Resolving(v)]
         \/ \E v, p : tasks' = [tasks EXCEPT ![s] = SettingUp(v, p)]
  PROVE  \A r \in Slot : tasks'[r].kind = "unlock" => tasks'[r] = tasks[r]
<1>1. \A r \in Slot : r # s => tasks'[r] = tasks[r]
  BY DEF TypeOK
<1>2. tasks'[s].kind # "unlock"
  <2>1. tasks[s] \in Task
    BY DEF TypeOK
  <2>2. CASE tasks' = [tasks EXCEPT ![s] = Free]
    BY <2>2 DEF TypeOK, Free
  <2>3. CASE \E k \in {"direct", "import"} : tasks' = [tasks EXCEPT ![s].kind = k]
    BY <2>1, <2>3 DEF TypeOK, Task
  <2>4. CASE \E v : tasks' = [tasks EXCEPT ![s] = Resolving(v)]
    BY <2>4 DEF TypeOK, Resolving, Free
  <2>5. CASE \E v, p : tasks' = [tasks EXCEPT ![s] = SettingUp(v, p)]
    BY <2>5 DEF TypeOK, SettingUp, Free
  <2>6. QED
    BY <2>2, <2>3, <2>4, <2>5
<1>3. QED
  BY <1>1, <1>2

\* A wrong password counts from the render that submitted it.
LEMMA WrongCounts ==
  ASSUME TypeOK, TypeOK', CountInv, NEW s \in Slot, UnlockFails(s) PROVE CountInv'
<1>1. /\ tasks[s].kind = "unlock" /\ attempts' = tasks[s].count + 1
      /\ streak' = IF Verifying = {s} THEN streak + 1 ELSE 0
      /\ tasks' = [tasks EXCEPT ![s] = Free]
  BY DEF UnlockFails
<1>2. \A r \in Slot : tasks'[r].kind = "unlock" => tasks'[r] = tasks[r] /\ r # s
  BY <1>1 DEF TypeOK, Free
<1>3. /\ streak \in Nat /\ attempts' \in Nat /\ tasks[s].count \in Nat
      /\ streak <= tasks[s].count /\ \A r \in Slot : tasks'[r].count \in Nat
  BY <1>1 DEF TypeOK, Task, CountInv
<1>4. CASE Verifying = {s}
  <2>1. \A r \in Slot : tasks'[r].kind # "unlock"
    BY <1>2, <1>4 DEF Verifying
  <2>2. QED
    BY <1>1, <1>3, <1>4, <2>1 DEF CountInv
<1>5. CASE Verifying # {s}
  BY <1>1, <1>3, <1>5 DEF CountInv
<1>6. QED
  BY <1>4, <1>5

\* A password submitted starts from the counter of its render.
LEMMA TypedCounts ==
  ASSUME TypeOK, TypeOK', CountInv, NEW s \in Slot, NEW p \in Password, SubmitUnlock(s, p)
  PROVE  CountInv'
<1> DEFINE current == IF profile # None THEN profile ELSE stored
<1>1. attempts' = attempts
  BY DEF SubmitUnlock
<1>2. CASE current = None
  BY <1>1, <1>2, CountStays DEF SubmitUnlock
<1>3. CASE current # None
  <2>1. /\ tasks' = [tasks EXCEPT ![s] = Unlocking(p, current, attempts)]
        /\ streak' \in {0, streak}
    BY <1>3 DEF SubmitUnlock
  <2>2. Unlocking(p, current, attempts).count = attempts
    BY DEF Unlocking, Free
  <2> HIDE DEF current
  <2>3. \A r \in Slot : tasks'[r] = IF r = s THEN Unlocking(p, current, attempts) ELSE tasks[r]
    BY <2>1 DEF TypeOK
  <2>4. streak \in Nat /\ attempts \in Nat /\ \A r \in Slot : tasks[r].count \in Nat
    BY DEF TypeOK, Task
  <2>5. QED
    BY <1>1, <2>1, <2>2, <2>3, <2>4 DEF CountInv
<1>4. QED
  BY <1>2, <1>3

\* A gate that has just been loaded has counted nothing.
LEMMA FreshCount ==
  ASSUME TypeOK', NEW l \in BOOLEAN, NEW known \in Profile \union {None}, Fresh(l, known)
  PROVE  CountInv'
  BY FreshGate DEF CountInv

\* Every step keeps the counts in order: one case per group of actions.
LEMMA StepCount == TypeOK /\ TypeOK' /\ CountInv /\ [Next]_vars => CountInv'
<1> SUFFICES ASSUME TypeOK, TypeOK', CountInv, [Next]_vars PROVE CountInv'
  OBVIOUS
<1>1. ASSUME tasks' = tasks, streak' = 0 \/ (streak' = streak /\ attempts' = attempts)
      PROVE  CountInv'
  BY <1>1, CountStays
<1>2. CASE CheckStep \/ Navigate \/ ResetAccess
  BY <1>1, <1>2 DEF CheckStep, Navigate, ContinueAfterChecks, BackToChecks, ContinueToPassword,
                    BackToIdentity, TryAgain, ResetAccess, GateRest, form
<1>3. CASE SyncProfile \/ Activity \/ ChangeAutoLock \/ UNCHANGED vars
  BY <1>1, <1>3 DEF SyncProfile, Activity, ChangeAutoLock, vars, form
<1>4. ASSUME NEW known \in Profile \union {None}, ShowGate(known) PROVE CountInv'
  <2>1. CASE gate = "closed"
    BY <1>4, <2>1, FreshCount DEF ShowGate
  <2>2. CASE gate # "closed"
    BY <1>1, <1>4, <2>2 DEF ShowGate, form
  <2>3. QED
    BY <2>1, <2>2
<1>5. CASE AutoLock \/ LockNow \/ ResetFromSettings
  BY <1>4, <1>5 DEF AutoLock, LockNow, ResetFromSettings, TypeOK
<1>6. CASE GateCloses \/ Quit
  BY <1>6, FreshCount DEF GateCloses, Quit, TypeOK
<1>7. ASSUME NEW s \in Slot, NEW v \in Validator, SubmitResolve(s, v) PROVE CountInv'
  BY <1>7, OthersStay, CountStays DEF SubmitResolve, GateRest
<1>8. ASSUME NEW s \in Slot, NEW p \in Password, SubmitSetup(s, p) PROVE CountInv'
  BY <1>8, OthersStay, CountStays DEF SubmitSetup
<1>9. ASSUME NEW s \in Slot, Continue(s) PROVE CountInv'
  <2>1. CASE UnlockFails(s)
    BY <2>1, WrongCounts
  <2>2. CASE ResolveAnswer(s) \/ ResolveDirectly(s) \/ SetupFinish(s) \/ SetupFails(s)
             \/ UnlockSucceeds(s) \/ UnlockError(s)
    <3>1. tasks' = [tasks EXCEPT ![s] = Free]
      BY <2>2 DEF ResolveAnswer, ResolveDirectly, Resolution, SetupFinish, SetupFails,
                  UnlockSucceeds, UnlockError
    <3>2. streak' = 0 \/ (streak' = streak /\ attempts' = attempts)
      BY <2>2 DEF ResolveAnswer, ResolveDirectly, Resolution, SetupFinish, SetupFails,
                  UnlockSucceeds, UnlockError, GateRest
    <3>3. QED
      BY <3>1, <3>2, OthersStay, CountStays
  <2>3. CASE DaemonSilent(s) \/ SetupSave(s)
    <3>1. \E k \in {"direct", "import"} : tasks' = [tasks EXCEPT ![s].kind = k]
      BY <2>3 DEF DaemonSilent, SetupSave
    <3>2. streak' = streak /\ attempts' = attempts
      BY <2>3 DEF DaemonSilent, SetupSave, GateRest, form
    <3>3. QED
      BY <3>1, <3>2, OthersStay, CountStays
  <2>4. QED
    BY <1>9, <2>1, <2>2, <2>3 DEF Continue
<1>10. QED
  BY <1>2, <1>3, <1>5, <1>6, <1>7, <1>8, <1>9, TypedCounts DEF Next, Submit, MainShell

\* The unlock form always has a profile to compare with, and MaxAttempts wrong
\* passwords in a row, each verified before the next is typed, raise the reset
\* prompt, whatever verifications ran at once before them (unlock).
THEOREM UnlockIsNoDeadEnd == Spec => []UnlockIsPossible
<1>1. Init => CountInv
  <2>1. Init => streak = 0 /\ attempts = 0 /\ \A s \in Slot : tasks[s].kind = "free"
    BY FreeTask DEF Init
  <2>2. QED
    BY <2>1 DEF CountInv
<1>2. Inv /\ Inv' /\ CountInv /\ [Next]_vars => CountInv'
  BY StepCount DEF Inv
<1>3. Inv /\ CountInv => UnlockIsPossible
  <2>1. Inv => streak \in Nat /\ attempts \in Nat
    BY DEF Inv, TypeOK
  <2>2. QED
    BY <2>1, GateAssumption DEF Inv, UnlockInv, CountInv, UnlockIsPossible
<1>4. QED
  BY <1>1, <1>2, <1>3, Invariance, PTL DEF Spec
-----------------------------------------------------------------------------
(***************************************************************************)
(* The auto-lock timer.                                                    *)
(***************************************************************************)

\* The shell's copy of the profile is the stored one, or an event is waiting
\* that makes it so.
CopyInv == mainProfile = stored \/ syncDue

TimerInv == CopyInv /\ LockIsComing

\* Every step keeps the timer running or about to be started.
LEMMA StepTimer == Inv /\ TimerInv /\ [Next]_vars => TimerInv'
<1> SUFFICES ASSUME Inv, TimerInv, [Next]_vars PROVE TimerInv'
  OBVIOUS
<1>1. ASSUME UNCHANGED <<stored, mainProfile, armed, syncDue, gate>> PROVE TimerInv'
  BY <1>1 DEF TimerInv, CopyInv, LockIsComing
<1>2. ASSUME syncDue' = TRUE PROVE TimerInv'
  BY <1>2 DEF TimerInv, CopyInv, LockIsComing
<1>3. CASE CheckStep \/ Navigate \/ UNCHANGED vars
  BY <1>1, <1>3 DEF CheckStep, Navigate, ContinueAfterChecks, BackToChecks, ContinueToPassword,
                    BackToIdentity, TryAgain, GateRest, Outside, shell, vars
<1>4. CASE ResetAccess
  BY <1>2, <1>4 DEF ResetAccess
<1>5. ASSUME NEW s \in Slot, Submit(s) PROVE TimerInv'
  BY <1>1, <1>5 DEF Submit, SubmitResolve, SubmitSetup, SubmitUnlock, GateRest, Outside, shell
<1>6. ASSUME NEW s \in Slot, Continue(s) PROVE TimerInv'
  <2>1. CASE SetupSave(s) \/ SetupFinish(s) \/ UnlockSucceeds(s)
    BY <1>2, <2>1 DEF SetupSave, SetupFinish, UnlockSucceeds, ShowMain
  <2>2. CASE ResolveAnswer(s) \/ DaemonSilent(s) \/ ResolveDirectly(s) \/ SetupFails(s)
             \/ UnlockFails(s) \/ UnlockError(s)
    BY <1>1, <2>2 DEF ResolveAnswer, DaemonSilent, ResolveDirectly, Resolution, SetupFails,
                      UnlockFails, UnlockError, GateRest, Outside, shell
  <2>3. QED
    BY <1>6, <2>1, <2>2 DEF Continue
<1>7. CASE SyncProfile \/ ChangeAutoLock
  BY <1>7, Zenon DEF SyncProfile, ChangeAutoLock, TimerInv, CopyInv, LockIsComing
<1>8. CASE Activity
  <2>1. armed' = (mainProfile # None) /\ UNCHANGED <<stored, mainProfile, syncDue, gate>>
    BY <1>8 DEF Activity
  <2>2. QED
    BY <2>1 DEF TimerInv, CopyInv, LockIsComing
<1>9. CASE AutoLock \/ LockNow
  <2>1. UNCHANGED <<stored, mainProfile, syncDue>> /\ gate' = IF gate = "closed" THEN "open" ELSE gate
    BY <1>9 DEF AutoLock, LockNow, ShowGate
  <2>2. gate \in {"open", "closing", "closed"}
    BY DEF Inv, TypeOK
  <2>3. armed' = armed \/ (gate = "closing" => syncDue)
    BY <1>9 DEF AutoLock, LockNow
  <2>4. QED
    BY <2>1, <2>2, <2>3 DEF TimerInv, CopyInv, LockIsComing
<1>10. CASE ResetFromSettings
  BY <1>10 DEF ResetFromSettings, TimerInv, CopyInv, LockIsComing
<1>11. CASE GateCloses
  BY <1>11 DEF GateCloses, shell, TimerInv, CopyInv, LockIsComing
<1>12. CASE Quit
  BY <1>12 DEF Quit, TimerInv, CopyInv, LockIsComing
<1>13. QED
  BY <1>3, <1>4, <1>5, <1>6, <1>7, <1>8, <1>9, <1>10, <1>11, <1>12 DEF Next, MainShell

\* Whenever a profile is stored and no gate is open, the application visible or
\* without any window, the auto-lock timer runs or the event that starts it is
\* on its way (syncProfile, lock_and_show_gate), for any order of locks,
\* unlocks, resets and setups.
THEOREM LockIsAlwaysComing == Spec => []LockIsComing
<1>1. Init => TimerInv
  BY DEF Init, TimerInv, CopyInv, LockIsComing
<1>2. Inv /\ TimerInv /\ [Next]_vars => TimerInv'
  BY StepTimer
<1>3. TimerInv => LockIsComing
  BY DEF TimerInv
<1>4. QED
  BY <1>1, <1>2, <1>3, Invariance, PTL DEF Spec
-----------------------------------------------------------------------------
\* A reset that met no setup or unlock under way is final until a setup is
\* submitted (resetAccess, onResetAccess).
THEOREM QuietResetsAreFinal == Spec => []QuietResetIsFinal
<1>1. Inv => QuietResetIsFinal
  BY DEF Inv, ResetInv, QuietResetIsFinal
<1>2. QED
  BY <1>1, Invariance, PTL
=============================================================================
