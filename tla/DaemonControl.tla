--------------------------- MODULE DaemonControl ---------------------------
(***************************************************************************)
(* How the desktop application starts, stops and watches the daemon        *)
(* process: the manager behind the window's commands (src-tauri/main.rs),  *)
(* the callers in both windows (AccessGate.tsx, App.tsx) and the runtime   *)
(* actions and launch settings of the settings page (SettingsPage.tsx,     *)
(* lib/tauri.ts).                                                          *)
(*                                                                         *)
(* `calls' holds the commands the windows have invoked, in order of        *)
(* arrival, each with the point it has reached.  A command is a plain fn,  *)
(* which Tauri runs on its main thread: only the first of them advances.   *)
(* The mutex of the manager is released while a daemon is spawned and      *)
(* awaited, so these are steps of their own.  `answers' holds what the     *)
(* commands returned until the window's script resumes, in order as one    *)
(* thread posts them.                                                      *)
(*                                                                         *)
(* A daemon process is one of Pid; Operator is the one the operator runs   *)
(* by hand.  They share a port.  Quitting or killing the application does  *)
(* not end a daemon it has spawned.                                        *)
(*                                                                         *)
(* Left out: pid, paths and last_error in the payload, the config path     *)
(* (handled like the executable's), the timeout's value, error sheets, a   *)
(* local storage that refuses writes.                                      *)
(***************************************************************************)
EXTENDS Integers, Sequences, SequencesExt

CONSTANTS
  MaxSpawns,     \* bound: daemons spawned
  MaxCalls,      \* bound: commands and answers under way at once
  MaxMoves,      \* bound: visits to the settings page, clicks, forms, relaunches
  Default,       \* the executable Tauri detects by itself: "mount" in an AppImage
  None

ASSUME ControlAssumption ==
  /\ MaxSpawns \in Nat /\ MaxCalls \in Nat /\ MaxMoves \in Nat
  /\ Default \in {"mount", "bundle"}
  /\ None \notin 0..MaxSpawns /\ None # "info"

VARIABLES
  proc,          \* state of each daemon process
  child,         \* ManagedDaemon.child
  spawned,       \* processes this launch of the application has spawned
  calls,
  answers,
  gate,          \* the gate has run its daemon check
  shell,         \* the main window's script is mounted
  settings,      \* daemonSettings of the shell
  stored,        \* the launch settings in local storage
  triggered,     \* daemonAutostartTriggeredRef
  tab,           \* the settings page is shown
  busy,          \* busyAction
  feedback,      \* tone of runtimeFeedback
  shown,         \* daemonRuntime
  wiped,         \* history: RESET has removed them since the last save or launch
  moves          \* counts towards MaxMoves

manager == <<proc, child, spawned>>
page == <<tab, busy, feedback>>
windows == <<gate, shell, settings, stored, triggered, wiped>>
vars == <<manager, calls, answers, windows, page, shown, moves>>
-----------------------------------------------------------------------------
Operator == 0
Pid == 1..MaxSpawns
Alive(p) == proc[p] \in {"starting", "ready"}
Reachable == \E p \in Pid \union {Operator} : proc[p] = "ready"

Path == {"", "own", "mount", "bundle"}
Settings == [autostart : BOOLEAN, exe : Path]
Runtime == [running : BOOLEAN, managed : BOOLEAN]
Kind == {"defaults", "status", "ensure", "stop", "restart"}
Button == Kind \union {"request"}
Caller == {"gate", "auto", "load", "poll", "page", "left", "disposed"}
Call == [kind : Kind, by : Caller, pid : Pid \union {None},
         pc : {"start", "ensure", "spawn", "store", "waitChild", "waitSpawn"}]
Answer == [kind : Button, by : Caller, ok : BOOLEAN, runtime : Runtime \union {None}]

TypeOK ==
  /\ proc \in [Pid \union {Operator} -> {"none", "starting", "ready", "dead"}]
  /\ child \in Pid \union {None} /\ spawned \subseteq Pid
  /\ calls \in Seq(Call) /\ answers \in Seq(Answer)
  /\ gate \in BOOLEAN /\ shell \in BOOLEAN /\ triggered \in BOOLEAN /\ wiped \in BOOLEAN
  /\ settings \in Settings /\ stored \in Settings
  /\ tab \in BOOLEAN /\ busy \in Button \union {None}
  /\ feedback \in {"info", "success", "error", None}
  /\ shown \in Runtime \union {None}
  /\ moves \in 0..MaxMoves

\* An AppImage mount is gone at the next launch of the application.
sanitizeDaemonPath(p) == IF p = "mount" THEN "" ELSE p
normalizeDaemonSettings(s) == [s EXCEPT !.exe = sanitizeDaemonPath(@)]

\* What loadDaemonLaunchSettings makes of a missing entry.
Unset == [autostart |-> TRUE, exe |-> ""]

\* The executable an ensure request with these settings launches.
Launched(s) ==
  LET p == normalizeDaemonSettings(s).exe IN IF p = "" THEN Default ELSE p

Invoke(kind, by) == [kind |-> kind, by |-> by, pid |-> None, pc |-> "start"]
HasRoom(n) == Len(calls) + Len(answers) + n <= MaxCalls
Move == moves < MaxMoves /\ moves' = moves + 1

Init ==
  /\ proc = [p \in Pid \union {Operator} |-> "none"]
  /\ child = None /\ spawned = {}
  /\ calls = <<>> /\ answers = <<>>
  /\ gate = FALSE /\ shell = FALSE /\ triggered = FALSE
  /\ stored \in [autostart : BOOLEAN, exe : {""}]
  /\ settings = stored /\ wiped = FALSE
  /\ tab = FALSE /\ busy = None /\ feedback = None
  /\ shown = None
  /\ moves = 0
-----------------------------------------------------------------------------
(***************************************************************************)
(* Daemon processes (external).                                            *)
(***************************************************************************)

DaemonListens(p) ==
  /\ proc[p] = "starting" /\ ~Reachable
  /\ proc' = [proc EXCEPT ![p] = "ready"]

\* It crashes, is ended by hand, or finds the port in use.
DaemonExits(p) ==
  /\ Alive(p)
  /\ proc' = [proc EXCEPT ![p] = "dead"]

OperatorStarts ==
  /\ proc[Operator] = "none" /\ ~Reachable
  /\ proc' = [proc EXCEPT ![Operator] = "ready"]

Process ==
  /\ OperatorStarts \/ \E p \in Pid \union {Operator} : DaemonListens(p) \/ DaemonExits(p)
  /\ UNCHANGED <<child, spawned, calls, answers, windows, page, shown, moves>>
-----------------------------------------------------------------------------
(***************************************************************************)
(* The manager's commands.                                                 *)
(***************************************************************************)

\* Mutant of Turn: the commands are async and run side by side.
TurnAsync(i) == i \in DOMAIN calls

\* The i-th invoked command may advance: commands run on the main thread.
Turn(i) == i = 1

\* The child if it has not exited, else None.
refresh_managed_daemon == IF child # None /\ proc[child] = "dead" THEN None ELSE child

\* What a command returns; the manager's child is c, the processes are q.
build_runtime_payload(q, c) ==
  [running |-> \E p \in DOMAIN q : q[p] = "ready", managed |-> c # None]

Return(i, ok, runtime) ==
  /\ calls' = RemoveAt(calls, i)
  /\ answers' = Append(answers, [kind |-> calls[i].kind, by |-> calls[i].by,
                                 ok |-> ok, runtime |-> runtime])

Goto(i, pc) == calls' = [calls EXCEPT ![i].pc = pc] /\ UNCHANGED answers

KillChild(c) == [p \in DOMAIN proc |-> IF p = c THEN "dead" ELSE proc[p]]

daemon_default_paths(i) ==
  /\ calls[i].kind = "defaults"
  /\ Return(i, TRUE, None)
  /\ UNCHANGED manager

daemon_runtime_status(i) ==
  /\ calls[i].kind = "status"
  /\ child' = refresh_managed_daemon
  /\ Return(i, TRUE, build_runtime_payload(proc, child'))
  /\ UNCHANGED <<proc, spawned>>

stop_managed_daemon(i) ==
  /\ calls[i].kind = "stop"
  /\ child' = None
  /\ proc' = KillChild(refresh_managed_daemon)
  /\ Return(i, TRUE, build_runtime_payload(proc', None))
  /\ UNCHANGED spawned

restart_managed_daemon(i) ==
  /\ calls[i].kind = "restart" /\ calls[i].pc = "start"
  /\ child' = None
  /\ proc' = KillChild(refresh_managed_daemon)
  /\ Goto(i, "ensure")
  /\ UNCHANGED spawned

\* The first section under the lock.
EnsureLooks(i) ==
  /\ \/ calls[i].kind = "ensure" /\ calls[i].pc = "start"
     \/ calls[i].pc = "ensure"
  /\ child' = refresh_managed_daemon
  /\ \/ Reachable /\ Return(i, TRUE, build_runtime_payload(proc, child'))
     \/ ~Reachable /\ Goto(i, IF child' # None THEN "waitChild" ELSE "spawn")
  /\ UNCHANGED <<proc, spawned>>

EnsureSpawns(i) ==
  /\ calls[i].pc = "spawn"
  /\ \/ \E p \in Pid :
          /\ proc[p] = "none" /\ \A q \in 1..(p - 1) : proc[q] # "none"
          /\ proc' = [proc EXCEPT ![p] = "starting"]
          /\ spawned' = spawned \union {p}
          /\ calls' = [calls EXCEPT ![i].pc = "store", ![i].pid = p]
          /\ UNCHANGED answers
     \/ Return(i, FALSE, None) /\ UNCHANGED <<proc, spawned>>    \* failed to spawn
  /\ UNCHANGED child

EnsureStores(i) ==
  /\ calls[i].pc = "store"
  /\ child' = calls[i].pid
  /\ Goto(i, "waitSpawn")
  /\ UNCHANGED <<proc, spawned>>

\* wait_for_daemon_ready finds the port open.
WaitSucceeds(i) ==
  /\ calls[i].pc \in {"waitChild", "waitSpawn"} /\ Reachable
  /\ child' = refresh_managed_daemon
  /\ Return(i, TRUE, build_runtime_payload(proc, child'))
  /\ UNCHANGED <<proc, spawned>>

\* The startup timeout: a daemon spawned by this command is ended, one found
\* starting is left alone.
WaitTimesOut(i) ==
  /\ calls[i].pc \in {"waitChild", "waitSpawn"} /\ ~Reachable
  /\ IF calls[i].pc = "waitSpawn"
     THEN child' = None /\ proc' = KillChild(child)
     ELSE UNCHANGED <<child, proc>>
  /\ Return(i, FALSE, None)
  /\ UNCHANGED spawned

Command ==
  /\ \E i \in DOMAIN calls :
       /\ Turn(i)
       /\ \/ daemon_default_paths(i) \/ daemon_runtime_status(i)
          \/ stop_managed_daemon(i) \/ restart_managed_daemon(i)
          \/ EnsureLooks(i) \/ EnsureSpawns(i) \/ EnsureStores(i)
          \/ WaitSucceeds(i) \/ WaitTimesOut(i)
  /\ UNCHANGED <<windows, page, shown, moves>>
-----------------------------------------------------------------------------
(***************************************************************************)
(* The windows.                                                            *)
(***************************************************************************)

\* The gate's daemon check.
GateEnsures ==
  /\ ~gate /\ gate' = TRUE
  /\ HasRoom(1)
  /\ calls' = IF stored.autostart THEN Append(calls, Invoke("ensure", "gate")) ELSE calls
  /\ UNCHANGED <<manager, answers, shell, settings, stored, triggered, wiped, page, shown, moves>>

\* RESET of the gate removes every entry of the application from local
\* storage, the launch settings among them; the shell keeps its copy.  From the
\* identity stage the operator may go back to the checks, which run again.
\* Bound: a reset with no settings to remove is left out.
GateReset ==
  /\ shell /\ stored # Unset /\ gate /\ gate' \in BOOLEAN
  /\ Move
  /\ stored' = Unset /\ wiped' = TRUE
  /\ UNCHANGED <<manager, calls, answers, shell, settings, triggered, page, shown>>

\* The autostart effect, when it runs with these settings: once per launch.
AutostartEffect(s) ==
  /\ triggered' = (triggered \/ s.autostart)
  /\ calls' = calls
       \o (IF shell THEN <<>> ELSE <<Invoke("defaults", "load")>>)
       \o (IF s.autostart /\ ~triggered THEN <<Invoke("ensure", "auto")>> ELSE <<>>)

\* The effects of the first render of the main window.
ShellMounts ==
  /\ ~shell /\ shell' = TRUE
  /\ HasRoom(2)
  /\ AutostartEffect(settings)
  /\ UNCHANGED <<manager, answers, gate, settings, stored, wiped, page, shown, moves>>

\* submitDaemonSettings with the form as it was filled, then updateDaemonSettings.
SaveSettings(s) ==
  /\ tab /\ HasRoom(1)
  /\ Move
  /\ settings' = s
  /\ stored' = normalizeDaemonSettings(s) /\ wiped' = FALSE
  /\ AutostartEffect(s)
  /\ feedback' = "success"
  /\ UNCHANGED <<manager, answers, gate, shell, tab, busy, shown>>

\* The settings page opens: the polling effect asks at once.
OpenSettings ==
  /\ shell /\ ~tab /\ tab' = TRUE
  /\ Move
  /\ HasRoom(1)
  /\ calls' = Append(calls, Invoke("status", "poll"))
  /\ UNCHANGED <<manager, answers, windows, busy, feedback, shown>>

IsPoll(c) == c.by = "poll"

\* Mutant of PollTimer: the status is read once per visit.
PollTimerOff == FALSE /\ UNCHANGED vars

\* Every 5 s.  Bound: a poll waits while the one before is under way.
PollTimer ==
  /\ tab /\ HasRoom(1)
  /\ \A c \in Range(calls) \union Range(answers) : ~IsPoll(c)
  /\ calls' = Append(calls, Invoke("status", "poll"))
  /\ UNCHANGED <<manager, answers, windows, page, shown, moves>>

\* Another tab: the page is unmounted, its polls are disposed of.
Orphaned(c) == [c EXCEPT !.by = CASE @ = "page" -> "left" [] @ = "poll" -> "disposed"
                                  [] OTHER -> @]
CloseSettings ==
  /\ tab /\ tab' = FALSE
  /\ busy' = None /\ feedback' = None
  /\ calls' = [i \in DOMAIN calls |-> Orphaned(calls[i])]
  /\ answers' = [i \in DOMAIN answers |-> Orphaned(answers[i])]
  /\ UNCHANGED <<manager, windows, shown, moves>>

\* A button of the page, disabled only by its own action (runRuntimeAction).
\* "request" stands for manual retry and cache reset, which the daemon answers.
Click(b) ==
  /\ tab /\ busy # b /\ HasRoom(1)
  /\ Move
  /\ busy' = b /\ feedback' = "info"
  /\ IF b = "request"
     THEN /\ \E ok \in {FALSE, Reachable} :
               answers' = Append(answers, [kind |-> b, by |-> "page", ok |-> ok, runtime |-> None])
          /\ UNCHANGED calls
     ELSE calls' = Append(calls, Invoke(b, "page")) /\ UNCHANGED answers
  /\ UNCHANGED <<manager, windows, tab, shown>>

\* What an action's result says: stopping always succeeds, the others succeed
\* if the daemon answers.
Succeeded(a) == a.ok /\ (a.kind \in {"stop", "request"} \/ a.runtime.running)

\* setDaemonRuntime, for every caller that still listens.
ShowRuntime(a) ==
  shown' = IF a.runtime = None \/ a.by \in {"gate", "disposed"} THEN shown ELSE a.runtime

\* Mutant of ShowFeedback: the busy mark is cleared on success only.
ShowFeedbackNotFinally(a) ==
  IF a.by = "page"
  THEN IF Succeeded(a) THEN busy' = None /\ feedback' = "success"
                       ELSE busy' = busy /\ feedback' = "error"
  ELSE UNCHANGED <<busy, feedback>>

\* The page's handler resumes (runRuntimeAction).
ShowFeedback(a) ==
  IF a.by = "page"
  THEN busy' = None /\ feedback' = IF Succeeded(a) THEN "success" ELSE "error"
  ELSE UNCHANGED <<busy, feedback>>

\* Mutant of UseDefaults: the detected paths win over the operator's.
UseDefaultsFirst(a) ==
  IF a.kind = "defaults"
  THEN /\ settings' = [settings EXCEPT !.exe = Default]
       /\ calls' = Append(calls, Invoke("status", "load"))
  ELSE UNCHANGED <<settings, calls>>

\* The detected paths fill the fields that are empty; then the status is read.
UseDefaults(a) ==
  IF a.kind = "defaults"
  THEN /\ settings' = [settings EXCEPT !.exe = IF @ = "" THEN Default ELSE @]
       /\ calls' = Append(calls, Invoke("status", "load"))
  ELSE UNCHANGED <<settings, calls>>

\* The script that awaits the first answer resumes.
Resume ==
  /\ answers # <<>> /\ answers' = Tail(answers)
  /\ UseDefaults(Head(answers))
  /\ ShowRuntime(Head(answers))
  /\ ShowFeedback(Head(answers))
  /\ UNCHANGED <<manager, gate, shell, stored, triggered, wiped, tab, moves>>

\* The application is quit or killed and launched again.
Relaunch ==
  /\ Move
  /\ child' = None /\ spawned' = {}
  /\ calls' = <<>> /\ answers' = <<>>
  /\ gate' = FALSE /\ shell' = FALSE /\ triggered' = FALSE
  /\ settings' = normalizeDaemonSettings(stored) /\ wiped' = FALSE
  /\ tab' = FALSE /\ busy' = None /\ feedback' = None /\ shown' = None
  /\ UNCHANGED <<proc, stored>>

Operate ==
  \/ OpenSettings \/ CloseSettings
  \/ \E a \in BOOLEAN, e \in {"", "own", settings.exe} : SaveSettings([autostart |-> a, exe |-> e])
  \/ \E b \in Button \ {"defaults"} : Click(b)

Next ==
  \/ Process \/ Command
  \/ GateEnsures \/ GateReset \/ ShellMounts \/ Operate \/ PollTimer
  \/ Resume \/ Relaunch

Spec == Init /\ [][Next]_vars

\* Commands run, timers fire, answers reach their scripts.
FairSpec ==
  Spec /\ WF_vars(Command) /\ WF_vars(PollTimer) /\ WF_vars(Resume)
-----------------------------------------------------------------------------
(***************************************************************************)
(* Properties.                                                             *)
(***************************************************************************)

\* A daemon this launch of the application has spawned and that still runs is
\* the one the manager can stop, or is about to be: both windows ask for a
\* daemon at launch, and the lock is free while one is spawned
\* (ensure_daemon_running_impl, gate check, autostart effect).
NoDaemonLost ==
  \A p \in spawned :
    Alive(p) => child = p \/ \E i \in DOMAIN calls : calls[i].pc = "store" /\ calls[i].pid = p

\* The page shows an action as pending only while the action is: switching
\* tabs, overlapping actions, failures and timeouts included
\* (runRuntimeAction).
PendingIsPending ==
  LET pending == {c.kind : c \in {d \in Range(calls) \union Range(answers) : d.by = "page"}}
  IN (busy # None => busy \in pending) /\ (feedback = "info" => pending # {})

\* The daemon the running shell would start is the one the next launch of the
\* application would start, whatever the order of the detected paths, the
\* stored settings and the form.  RESET in the gate parts the two, and the
\* stored ones stay unset, also when detected paths arrive, until a save or a
\* launch brings both together again (updateDaemonSettings,
\* sanitizeDaemonPath, resetAccess).
SettingsAgree ==
  IF wiped THEN stored = Unset
  ELSE Launched(settings) = Launched(stored) /\ settings.autostart = stored.autostart

\* Whoever looks at the settings page long enough sees the daemon as it is:
\* polls queue up behind starts and restarts that may wait in vain for a
\* daemon, and results of actions begun before arrive between them
\* (the 5 s poll, wait_for_daemon_ready).
StatusCatchesUp ==
  <>[]tab => <>[](shown = [running |-> Reachable,
                           managed |-> child # None /\ proc[child] # "dead"])

\* Without the exception: the gate's RESET leaves a running shell that would
\* start the operator's daemon, the next launch starts the detected one.
SettingsAlwaysAgree ==
  Launched(settings) = Launched(stored) /\ settings.autostart = stored.autostart
=============================================================================
