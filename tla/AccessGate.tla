----------------------------- MODULE AccessGate -----------------------------
(***************************************************************************)
(* The access gate of the desktop application and the window it guards.    *)
(*                                                                         *)
(* Two web views run at once: the gate (AccessGate) and the main shell     *)
(* (MainShell).  They share localStorage, which holds the access profile,  *)
(* and each keeps a copy of it in React state.  Unlocking shows the main   *)
(* window and asks the event loop to close the gate, which then ends with  *)
(* everything that runs in it; locking hides the main window and shows the *)
(* gate, one that is being closed too, or opens a new one in lock mode.    *)
(* The shell loses its copy only by a focus or storage event.              *)
(*                                                                         *)
(* A form that awaits (resolve, setup, unlock) is a task in a slot, with   *)
(* what the handler captured when it was submitted.  Nothing cancels a     *)
(* task but the end of its window: the operator can leave the stage, and   *)
(* one busyAction serves all three forms.                                  *)
(*                                                                         *)
(* Abstractions.  PBKDF2 and its encodings: a password fits a profile iff  *)
(* it is the one the profile was built with.  loadAuthProfile deletes a    *)
(* profile it cannot parse, so that a damaged one equals none.  Of the     *)
(* other entries that RESET removes, DaemonControl has the launch          *)
(* settings; api.resetState is the reset of JsonCache.  Notices and field  *)
(* errors are left out.  The window commands succeed.                      *)
(***************************************************************************)
EXTENDS Naturals, FiniteSets

CONSTANTS
  Validator,     \* what the identity stage can resolve
  Password,      \* passwords the operator may type
  MaxAttempts,   \* MAX_UNLOCK_ATTEMPTS
  Slot,          \* bound: tasks under way in the gate
  MaxTyped,      \* bound: wrong passwords in a row, prompt or not
  None

ASSUME GateAssumption ==
  /\ MaxAttempts \in Nat \ {0} /\ MaxTyped \in Nat
  /\ None \notin Validator /\ None \notin Password
  /\ None \notin [validator : Validator, password : Password]

VARIABLES
  stored,          \* localStorage: the access profile
  mainShown,       \* the main window is visible
  mainProfile,     \* MainShell: authProfile
  armed,           \* MainShell: the auto-lock timer is running
  syncDue,         \* a focus or storage event waits for MainShell
  gate,            \* the gate window: open, closing after close(), or closed
  stage, profile, resolved, attempts, busy,
  prompt,          \* showResetPrompt
  checksDone,      \* startup steps that have run
  checksFailed,    \* a required one failed
  checksCompleted,
  tasks,
  cleared,         \* history: access was reset, and no setup begun since
  raced,           \* history: that reset met a setup or unlock under way
  streak           \* history: wrong passwords in a row, each verified alone

shell == <<mainShown, mainProfile, armed>>
checks == <<checksDone, checksFailed, checksCompleted>>
form == <<stage, profile, resolved, attempts, busy, prompt>>
history == <<cleared, raced>>
vars == <<stored, shell, syncDue, gate, form, checks, tasks, history, streak>>

Profile == [validator : Validator, password : Password]
Stage == {"checks", "identity", "password", "unlock"}
RequiredSteps == 3        \* rpc, cache, config; the fourth is the channel ping
StartupSteps == 4

Free == [kind |-> "free", who |-> None, pw |-> None, known |-> None, count |-> 0]
Resolving(v) == [Free EXCEPT !.kind = "resolve", !.who = v]
SettingUp(v, p) == [Free EXCEPT !.kind = "secret", !.who = v, !.pw = p]
Unlocking(p, known, n) ==
  [Free EXCEPT !.kind = "unlock", !.pw = p, !.known = known, !.count = n]
Task == [kind : {"free", "resolve", "direct", "secret", "import", "unlock"},
         who : Validator \union {None}, pw : Password \union {None},
         known : Profile \union {None}, count : Nat]

TypeOK ==
  /\ stored \in Profile \union {None}
  /\ mainShown \in BOOLEAN /\ armed \in BOOLEAN /\ syncDue \in BOOLEAN
  /\ mainProfile \in Profile \union {None}
  /\ gate \in {"open", "closing", "closed"}
  /\ stage \in Stage
  /\ profile \in Profile \union {None}
  /\ resolved \in Validator \union {None}
  /\ attempts \in Nat
  /\ busy \in {"none", "resolve", "setup", "unlock"}
  /\ prompt \in BOOLEAN
  /\ checksDone \in 0..StartupSteps
  /\ checksFailed \in BOOLEAN /\ checksCompleted \in BOOLEAN
  /\ tasks \in [Slot -> Task]
  /\ \A s \in Slot : tasks[s].kind \in {"secret", "import"} =>
       tasks[s].who \in Validator /\ tasks[s].pw \in Password
  /\ cleared \in BOOLEAN /\ raced \in BOOLEAN /\ streak \in Nat

Entering == {"secret", "import", "unlock"}   \* tasks that may show the main window
Racing == \E s \in Slot : tasks[s].kind \in Entering
-----------------------------------------------------------------------------
(***************************************************************************)
(* Windows.                                                                *)
(***************************************************************************)

\* The state of a gate page that has just been loaded.
Fresh(lockOnly, known) ==
  /\ stage' = IF ~lockOnly THEN "checks"
              ELSE IF known # None THEN "unlock" ELSE "identity"
  /\ profile' = known
  /\ resolved' = None /\ attempts' = 0 /\ busy' = "none" /\ prompt' = FALSE
  /\ checksDone' = 0 /\ checksFailed' = FALSE /\ checksCompleted' = lockOnly
  /\ tasks' = [s \in Slot |-> Free] /\ streak' = 0

\* Start of the application: both pages load, only the gate is visible.
Init ==
  /\ stored \in Profile \union {None}
  /\ mainShown = FALSE /\ mainProfile = stored /\ armed = (stored # None)
  /\ syncDue = FALSE
  /\ gate = "open"
  /\ stage = "checks" /\ profile = stored
  /\ resolved = None /\ attempts = 0 /\ busy = "none" /\ prompt = FALSE
  /\ checksDone = 0 /\ checksFailed = FALSE /\ checksCompleted = FALSE
  /\ tasks = [s \in Slot |-> Free]
  /\ cleared = FALSE /\ raced = FALSE /\ streak = 0

\* Mutant of ShowMain: the window is shown without the focus.
ShowMainWithoutFocus ==
  /\ mainShown' = TRUE /\ gate' = "closing"
  /\ UNCHANGED <<mainProfile, armed, syncDue>>

\* unlock_and_show_main: the focus reaches the shell; close() is a request to
\* the event loop, and the gate's page goes on until it is served.
ShowMain ==
  /\ mainShown' = TRUE /\ syncDue' = TRUE /\ gate' = "closing"
  /\ UNCHANGED <<mainProfile, armed>>

\* The event loop closes the gate; its page ends and its state with it.
GateCloses ==
  /\ gate = "closing" /\ gate' = "closed"
  /\ Fresh(FALSE, None)
  /\ UNCHANGED <<stored, shell, syncDue, history>>

\* lock_and_show_gate, with what localStorage holds then: a gate that exists,
\* closing or not, is only brought to the front.
ShowGate(known) ==
  /\ mainShown' = FALSE
  /\ IF gate = "closed" THEN gate' = "open" /\ Fresh(TRUE, known)
     ELSE UNCHANGED <<gate, form, checks, tasks, streak>>

\* The application ends, by close_gate_window or otherwise, and is started again.
Quit ==
  /\ mainShown' = FALSE /\ mainProfile' = stored /\ armed' = (stored # None)
  /\ syncDue' = FALSE /\ gate' = "open"
  /\ Fresh(FALSE, stored)
  /\ UNCHANGED <<stored, history>>
-----------------------------------------------------------------------------
(***************************************************************************)
(* The stages of the gate.                                                 *)
(***************************************************************************)
\* The operator can use the page.  Bound: nothing is typed or clicked in a gate
\* whose close has been requested.
Here == gate = "open"
Outside == <<stored, shell, syncDue, gate, history>>
GateRest == <<Outside, streak>>

\* One startup step ends, well or not; the last one opens the way if the
\* required ones went well.
CheckStep ==
  /\ gate # "closed" /\ stage = "checks" /\ checksDone < StartupSteps
  /\ checksDone' = checksDone + 1
  /\ checksFailed' \in IF checksDone < RequiredSteps
                       THEN {checksFailed, TRUE} ELSE {checksFailed}
  /\ checksCompleted' = (checksDone' = StartupSteps /\ ~checksFailed)
  /\ UNCHANGED <<GateRest, form, tasks>>

ContinueAfterChecks ==
  /\ Here /\ stage = "checks" /\ checksCompleted
  /\ stage' = IF profile # None THEN "unlock" ELSE "identity"
  /\ UNCHANGED <<GateRest, profile, resolved, attempts, busy, prompt, checks, tasks>>

\* Back to the checks: the effect of that stage runs them anew.
BackToChecks ==
  /\ Here /\ stage = "identity"
  /\ stage' = "checks"
  /\ checksDone' = 0 /\ checksFailed' = FALSE /\ checksCompleted' = FALSE
  /\ UNCHANGED <<GateRest, profile, resolved, attempts, busy, prompt, tasks>>

ContinueToPassword ==
  /\ Here /\ stage = "identity" /\ resolved # None
  /\ stage' = "password"
  /\ UNCHANGED <<GateRest, profile, resolved, attempts, busy, prompt, checks, tasks>>

BackToIdentity ==
  /\ Here /\ stage = "password"
  /\ stage' = "identity"
  /\ UNCHANGED <<GateRest, profile, resolved, attempts, busy, prompt, checks, tasks>>
-----------------------------------------------------------------------------
(***************************************************************************)
(* resolveValidator.                                                       *)
(***************************************************************************)
SubmitResolve(s, v) ==
  /\ Here /\ stage = "identity" /\ busy # "resolve"
  /\ tasks[s] = Free
  /\ tasks' = [tasks EXCEPT ![s] = Resolving(v)]
  /\ busy' = "resolve"
  /\ UNCHANGED <<GateRest, stage, profile, resolved, attempts, prompt, checks>>

\* resolved becomes the validator, or None when the lookup has failed.
Resolution(s) ==
  /\ resolved' \in {tasks[s].who, None}
  /\ busy' = "none"
  /\ tasks' = [tasks EXCEPT ![s] = Free]
  /\ UNCHANGED <<GateRest, stage, profile, attempts, prompt, checks>>

\* The daemon has the validator, or answers with an error.
ResolveAnswer(s) ==
  /\ tasks[s].kind = "resolve"
  /\ Resolution(s)

\* DAEMON_TIMEOUT or DAEMON_UNREACHABLE: the public beacon nodes are asked.
DaemonSilent(s) ==
  /\ tasks[s].kind = "resolve"
  /\ tasks' = [tasks EXCEPT ![s].kind = "direct"]
  /\ UNCHANGED <<GateRest, form, checks>>

\* One of them knows the validator, or none in time.
ResolveDirectly(s) ==
  /\ tasks[s].kind = "direct"
  /\ Resolution(s)
-----------------------------------------------------------------------------
(***************************************************************************)
(* completeSetup: the profile is saved before the daemon has the validator *)
(* and again before the main window is shown.                              *)
(***************************************************************************)
SubmitSetup(s, p) ==
  /\ Here /\ stage = "password" /\ busy # "setup"
  /\ resolved # None
  /\ tasks[s] = Free
  /\ tasks' = [tasks EXCEPT ![s] = SettingUp(resolved, p)]
  /\ busy' = "setup"
  /\ cleared' = FALSE /\ raced' = FALSE
  /\ UNCHANGED <<stored, shell, syncDue, gate, stage, profile, resolved,
                 attempts, prompt, checks, streak>>

\* buildAuthProfile, saveAuthProfile, setProfile.
Save(t) ==
  LET next == [validator |-> t.who, password |-> t.pw]
  IN  stored' = next /\ profile' = next

SetupSave(s) ==
  /\ tasks[s].kind = "secret"
  /\ Save(tasks[s])
  /\ syncDue' = TRUE
  /\ tasks' = [tasks EXCEPT ![s].kind = "import"]
  /\ UNCHANGED <<shell, gate, stage, resolved, attempts, busy, prompt, checks,
                 history, streak>>

\* import, retry and the wait for the dashboard have succeeded.
SetupFinish(s) ==
  /\ tasks[s].kind = "import"
  /\ Save(tasks[s])
  /\ ShowMain
  /\ busy' = "none"
  /\ tasks' = [tasks EXCEPT ![s] = Free]
  /\ UNCHANGED <<stage, resolved, attempts, prompt, checks, history, streak>>

SetupFails(s) ==
  /\ tasks[s].kind \in {"secret", "import"}
  /\ busy' = "none"
  /\ tasks' = [tasks EXCEPT ![s] = Free]
  /\ UNCHANGED <<GateRest, stage, profile, resolved, attempts, prompt, checks>>
-----------------------------------------------------------------------------
(***************************************************************************)
(* unlock.  Enter calls requestSubmit, which ignores the disabled button.  *)
(***************************************************************************)
Verifying == {s \in Slot : tasks[s].kind = "unlock"}

SubmitUnlock(s, p) ==
  /\ Here /\ stage = "unlock"
  /\ tasks[s] = Free /\ attempts < MaxTyped
  /\ LET current == IF profile # None THEN profile ELSE stored
     IN  IF current = None
         THEN stage' = "identity" /\ UNCHANGED <<tasks, busy, streak>>
         ELSE /\ tasks' = [tasks EXCEPT ![s] = Unlocking(p, current, attempts)]
              /\ busy' = "unlock"
              /\ streak' = IF Verifying = {} THEN streak ELSE 0
              /\ UNCHANGED stage
  /\ UNCHANGED <<Outside, profile, resolved, attempts, prompt, checks>>

\* Salted and derived anew, the password gives the stored hash.
verifyPassword(p, known) == p = known.password

UnlockSucceeds(s) ==
  /\ tasks[s].kind = "unlock"
  /\ verifyPassword(tasks[s].pw, tasks[s].known)
  /\ ShowMain
  /\ attempts' = 0 /\ streak' = 0 /\ busy' = "none"
  /\ tasks' = [tasks EXCEPT ![s] = Free]
  /\ UNCHANGED <<stored, stage, profile, resolved, prompt, checks, history>>

\* Mutant of UnlockFails: the limit is compared before the attempt counts.
UnlockFailsLate(s) ==
  /\ tasks[s].kind = "unlock"
  /\ ~verifyPassword(tasks[s].pw, tasks[s].known)
  /\ attempts' = tasks[s].count + 1
  /\ prompt' = (prompt \/ tasks[s].count >= MaxAttempts)
  /\ streak' = IF Verifying = {s} THEN streak + 1 ELSE 0
  /\ busy' = "none"
  /\ tasks' = [tasks EXCEPT ![s] = Free]
  /\ UNCHANGED <<Outside, stage, profile, resolved, checks>>

\* The count is the one of the render that submitted the password.
UnlockFails(s) ==
  /\ tasks[s].kind = "unlock"
  /\ ~verifyPassword(tasks[s].pw, tasks[s].known)
  /\ attempts' = tasks[s].count + 1
  /\ prompt' = (prompt \/ tasks[s].count + 1 >= MaxAttempts)
  /\ streak' = IF Verifying = {s} THEN streak + 1 ELSE 0
  /\ busy' = "none"
  /\ tasks' = [tasks EXCEPT ![s] = Free]
  /\ UNCHANGED <<Outside, stage, profile, resolved, checks>>

\* verifyPassword throws (no WebCrypto).
UnlockError(s) ==
  /\ tasks[s].kind = "unlock"
  /\ busy' = "none"
  /\ tasks' = [tasks EXCEPT ![s] = Free]
  /\ UNCHANGED <<GateRest, stage, profile, resolved, attempts, prompt, checks>>

\* "Try again" and the backdrop of the reset prompt.
TryAgain ==
  /\ Here /\ prompt
  /\ prompt' = FALSE /\ attempts' = 0 /\ streak' = 0
  /\ UNCHANGED <<Outside, stage, profile, resolved, busy, checks, tasks>>

\* Mutant of ResetAccess: the page keeps its copy of the profile.
ResetAccessKeepsCopy ==
  /\ Here /\ prompt
  /\ stored' = None /\ syncDue' = TRUE
  /\ stage' = "identity"
  /\ resolved' = None /\ attempts' = 0 /\ prompt' = FALSE /\ streak' = 0
  /\ cleared' = TRUE
  /\ raced' = Racing
  /\ UNCHANGED <<profile, shell, gate, busy, checks, tasks>>

\* RESET of the prompt; tasks under way go on.
ResetAccess ==
  /\ Here /\ prompt
  /\ stored' = None /\ syncDue' = TRUE
  /\ stage' = "identity" /\ profile' = None
  /\ resolved' = None /\ attempts' = 0 /\ prompt' = FALSE /\ streak' = 0
  /\ cleared' = TRUE
  /\ raced' = Racing
  /\ UNCHANGED <<shell, gate, busy, checks, tasks>>
-----------------------------------------------------------------------------
(***************************************************************************)
(* The main shell.                                                         *)
(***************************************************************************)
\* Mutant of SyncProfile: an unchanged profile does not arm the timer anew.
SyncProfileIfChanged ==
  /\ syncDue
  /\ syncDue' = FALSE
  /\ mainProfile' = stored
  /\ armed' = IF stored = mainProfile THEN armed ELSE stored # None
  /\ UNCHANGED <<stored, mainShown, gate, form, checks, tasks, history, streak>>

\* syncProfile on focus and storage; the new object re-arms the timer.
SyncProfile ==
  /\ syncDue
  /\ syncDue' = FALSE
  /\ mainProfile' = stored /\ armed' = (stored # None)
  /\ UNCHANGED <<stored, mainShown, gate, form, checks, tasks, history, streak>>

\* Mouse, key, touch or scroll: arm.
Activity ==
  /\ mainShown
  /\ armed' = (mainProfile # None)
  /\ UNCHANGED <<stored, mainShown, mainProfile, syncDue, gate, form, checks,
                 tasks, history, streak>>

\* The timer fires, also while the main window is hidden.  It runs for minutes,
\* so that one armed by the focus of an unlock outlives the closing gate.
AutoLock ==
  /\ armed /\ (gate = "closing" => syncDue)
  /\ armed' = FALSE
  /\ ShowGate(stored)
  /\ UNCHANGED <<stored, mainProfile, syncDue, history>>

LockNow ==
  /\ mainShown
  /\ ShowGate(stored)
  /\ UNCHANGED <<stored, mainProfile, armed, syncDue, history>>

\* onAutoLockChange: read, change and save the stored profile, if there is one.
ChangeAutoLock ==
  /\ mainShown /\ stored # None
  /\ mainProfile' = stored /\ armed' = TRUE
  /\ UNCHANGED <<stored, mainShown, syncDue, gate, form, checks, tasks, history, streak>>

\* onResetAccess of the settings page.
ResetFromSettings ==
  /\ mainShown
  /\ stored' = None /\ mainProfile' = None /\ armed' = FALSE
  /\ ShowGate(None)
  /\ cleared' = TRUE
  /\ raced' = Racing
  /\ UNCHANGED syncDue
-----------------------------------------------------------------------------
Navigate ==
  \/ ContinueAfterChecks
  \/ BackToChecks
  \/ ContinueToPassword
  \/ BackToIdentity
  \/ TryAgain

Submit(s) ==
  \/ \E v \in Validator : SubmitResolve(s, v)
  \/ \E p \in Password : SubmitSetup(s, p) \/ SubmitUnlock(s, p)

Continue(s) ==
  \/ ResolveAnswer(s)
  \/ DaemonSilent(s)
  \/ ResolveDirectly(s)
  \/ SetupSave(s)
  \/ SetupFinish(s)
  \/ SetupFails(s)
  \/ UnlockSucceeds(s)
  \/ UnlockFails(s)
  \/ UnlockError(s)

MainShell ==
  \/ Activity
  \/ AutoLock
  \/ LockNow
  \/ ChangeAutoLock
  \/ ResetFromSettings

Next ==
  \/ CheckStep
  \/ Navigate
  \/ \E s \in Slot : Submit(s) \/ Continue(s)
  \/ ResetAccess
  \/ SyncProfile
  \/ MainShell
  \/ GateCloses \/ Quit

Spec == Init /\ [][Next]_vars

\* The browser delivers events, promises settle, checks end, the event loop
\* closes windows, and the timer of a hidden window, which no activity can
\* prolong, runs out.  Of the operator nothing is assumed.
FairSpec ==
  /\ Spec
  /\ WF_vars(SyncProfile) /\ WF_vars(CheckStep)
  /\ WF_vars(GateCloses) /\ WF_vars(~mainShown /\ AutoLock)
  /\ \A s \in Slot : WF_vars(Continue(s))
-----------------------------------------------------------------------------
(***************************************************************************)
(* Properties.                                                             *)
(***************************************************************************)

\* A reset that met no setup or unlock under way is final: no profile comes
\* back and the main window stays hidden until a setup is submitted
\* (resetAccess, onResetAccess).
QuietResetIsFinal == cleared /\ ~raced => stored = None /\ ~mainShown

\* An application with a profile and without an open gate, so unlocked or left
\* without any window, has its auto-lock timer running or the event on its way
\* that starts it, although a lock uses the timer up and the profile is
\* changed by the other window (syncProfile, the auto-lock effect).
LockIsComing == stored # None /\ gate # "open" => armed \/ syncDue

\* A lock that meets the gate while it is being closed hides the main window
\* and opens no other: neither is left.  With a profile the application does
\* not stay so, as the timer opens a new gate (unlock_and_show_main,
\* lock_and_show_gate, syncProfile).
WindowComesBack ==
  (stored # None /\ ~mainShown /\ gate = "closed") ~> (mainShown \/ gate = "open")

\* The operator is never asked for a password that nothing can match; and
\* MaxAttempts wrong passwords in a row, each verified before the next is
\* typed, raise the reset prompt, whatever verifications ran at once before
\* them and counted from the same render (unlock).
UnlockIsPossible ==
  /\ Here /\ stage = "unlock" => profile # None
  /\ streak >= MaxAttempts => prompt

\* The timer that a lock has used up runs again after the next unlock: a
\* visible main window with a profile does not stay without auto-lock.
AutoLockComesBack ==
  (mainShown /\ stored # None) ~> (armed \/ ~mainShown)

\* The documented promise of RESET: onboarding must be completed again.
ResetNeedsOnboarding == cleared => stored = None /\ ~mainShown

\* What unlock and lock are for: there is always a window to use.
SomeWindow == mainShown \/ gate # "closed"

\* Every wrong password counts: the counter falls to 0 or not at all.
CountNeverFalls == [][attempts' < attempts => attempts' = 0]_vars
=============================================================================
