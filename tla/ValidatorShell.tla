--------------------------- MODULE ValidatorShell ---------------------------
(***************************************************************************)
(* The main shell of the desktop application: which validators it knows,   *)
(* which one is selected, and how its copy of the daemon's dashboard is    *)
(* brought up to date (App.tsx, hooks, lib/api.ts).                        *)
(*                                                                         *)
(* The copy, `data', is the entry of the query cache.  Three things write  *)
(* it: the query's own request, of which at most one is live and which a   *)
(* refresh replaces, and the polling loop of every import and profile      *)
(* synchronisation (waitForValidatorSnapshot).  An answer is what the      *)
(* daemon published when it served the request; it is applied later, so    *)
(* answers can be applied out of order.                                    *)
(*                                                                         *)
(* A handler that awaits is a task in a slot; `phase' is the request it    *)
(* awaits.  The daemon is external to this module: its list only grows, an *)
(* import publishes the new list at once, a tick publishes the list it     *)
(* read when it began (see ValidatorTargets for the daemon itself).        *)
(*                                                                         *)
(* Left out: the other queries, error sheets and their texts, the theme,   *)
(* the clock.  Two equal answers differ in updated_at if a tick ended      *)
(* between them, which wakes the effects.                                  *)
(***************************************************************************)
EXTENDS Integers, FiniteSets, FiniteSetsExt

CONSTANTS
  Index,         \* validator indices, ordered as the picker lists them
  Earlier,       \* the ones the daemon has from earlier sessions
  Slot,          \* bound: handlers under way at once
  MaxMoves,      \* bound: submissions, switches and changes of the profile
  None

ASSUME ShellAssumption ==
  /\ Index \subseteq Nat /\ Earlier \subseteq Index
  /\ None \notin Index /\ \A S \in SUBSET Index : S # None
  /\ Slot \subseteq Nat /\ None \notin Slot /\ MaxMoves \in Nat

VARIABLES
  monitored,     \* daemon: the indices it polls
  ticking,       \* daemon: the list the running tick has read, or None
  published,     \* daemon: the dashboard it serves
  profile,       \* authProfile.validatorIndex
  data,          \* dashboardQuery.data
  fetch,         \* the live request of the dashboard query
  active,        \* activeValidatorIndex
  importing,     \* isImportingValidator
  syncRef,       \* profileSyncRef
  syncDue,       \* the profile-sync effect has to run
  tasks,
  moves,         \* counts towards MaxMoves
  chosen,        \* history: what the last import selected, until the operator switches
  raced          \* history: indices shown while a dashboard without them was on its way

daemon == <<monitored, ticking, published>>
ui == <<active, importing>>
vars == <<daemon, profile, data, fetch, ui, syncRef, syncDue, tasks, moves, chosen, raced>>

Payload == SUBSET Index      \* the indices a dashboard tracks
Lists(p, i) == p # None /\ i \in p
Phase == {"resolve", "import", "retry", "ask", "look", "sleep",
          "invalidate", "refetch"}
NoTask == [kind |-> "free", phase |-> "resolve", who |-> None, known |-> TRUE, latest |-> None]
Request(s) == [by |-> s, live |-> TRUE, answer |-> None]
Idle == [by |-> None, live |-> FALSE, answer |-> None]
Task == [kind : {"free", "add", "sync", "refresh", "retry"}, phase : Phase,
         who : Index \union {None}, known : BOOLEAN, latest : Payload \union {None}]

TypeOK ==
  /\ monitored \subseteq Index
  /\ ticking \in (SUBSET Index) \union {None}
  /\ published \in Payload
  /\ profile \in Index \union {None} /\ active \in Index \union {None}
  /\ data \in Payload \union {None}
  /\ fetch \in [by : Slot \union {None}, live : BOOLEAN, answer : Payload \union {None}]
  /\ importing \in BOOLEAN
  /\ syncRef \in [key : Index \union {None}, inFlight : BOOLEAN, recent : BOOLEAN]
  /\ syncDue \in BOOLEAN
  /\ tasks \in [Slot -> Task]
  /\ \A s \in Slot : tasks[s].kind \in {"add", "sync"} => tasks[s].who \in Index
  /\ moves \in 0..MaxMoves
  /\ chosen \in Index \union {None} /\ raced \subseteq Index

\* A new task takes the first free slot.
IsFree(s) == tasks[s] = NoTask /\ \A r \in Slot : r < s => tasks[r] # NoTask

\* Start of the shell.
Init ==
  /\ monitored = Earlier /\ published = Earlier
  /\ ticking = None
  /\ profile \in Index \union {None} /\ active = profile
  /\ data = None /\ fetch = Idle
  /\ importing = FALSE
  /\ syncRef = [key |-> None, inFlight |-> FALSE, recent |-> FALSE]
  /\ syncDue = (profile # None)
  /\ tasks = [s \in Slot |-> NoTask]
  /\ moves = 0 /\ chosen = None /\ raced = {}
-----------------------------------------------------------------------------
(***************************************************************************)
(* The daemon.                                                             *)
(***************************************************************************)
shellState == <<profile, data, fetch, ui, syncRef, syncDue, tasks>>

TickBegins ==
  /\ ticking = None
  /\ ticking' = monitored
  /\ UNCHANGED <<monitored, published, shellState, chosen>>

TickPublishes ==
  /\ ticking # None
  /\ published' = ticking
  /\ ticking' = None
  /\ UNCHANGED <<monitored, shellState, chosen>>
-----------------------------------------------------------------------------
(***************************************************************************)
(* The query cache.  A new value of data, or a newer updated_at in it,     *)
(* makes the effects run.                                                  *)
(***************************************************************************)

SetData(p, newer) ==
  /\ data' = p
  /\ syncDue' = (syncDue \/ p # data \/ newer)

\* Mutant of Poll: a filled cache is not fetched again.
PollOnce ==
  /\ ~fetch.live /\ data = None
  /\ fetch' = Request(None)
  /\ UNCHANGED <<daemon, profile, data, ui, syncRef, syncDue, tasks, chosen>>

\* refetchInterval, window focus; a request under way is not doubled.
Poll ==
  /\ ~fetch.live
  /\ fetch' = Request(None)
  /\ UNCHANGED <<daemon, profile, data, ui, syncRef, syncDue, tasks, chosen>>

\* The daemon serves /api/v1/dashboard.
FetchServed ==
  /\ fetch.live /\ fetch.answer = None
  /\ fetch' = [fetch EXCEPT !.answer = published]
  /\ UNCHANGED <<daemon, profile, data, ui, syncRef, syncDue, tasks, chosen>>

FetchApplied(newer) ==
  /\ fetch.live /\ fetch.answer # None
  /\ SetData(fetch.answer, newer)
  /\ fetch' = Idle
  /\ UNCHANGED <<daemon, profile, ui, syncRef, tasks, chosen>>

\* Refused, timed out, or not a dashboard, and the one retry as well.
FetchFails ==
  /\ fetch.live
  /\ fetch' = Idle
  /\ UNCHANGED <<daemon, profile, data, ui, syncRef, syncDue, tasks, chosen>>
-----------------------------------------------------------------------------
(***************************************************************************)
(* Effects of MainShell.                                                   *)
(***************************************************************************)
Available ==
  (IF data = None THEN {} ELSE data) \union (IF profile = None THEN {} ELSE {profile})

\* focus and storage events: the profile the gate has saved, or none.
SyncProfile(p) ==
  /\ profile' = p
  /\ syncDue' = TRUE
  /\ UNCHANGED <<daemon, data, fetch, ui, syncRef, tasks, chosen>>

\* A selection that is not listed is replaced.
SelectEffect ==
  /\ \/ active = None /\ Available # {}
     \/ active # None /\ active \notin Available
  /\ active' = IF Available = {} THEN None
               ELSE IF active = None /\ profile # None THEN profile
               ELSE Min(Available)
  /\ UNCHANGED <<daemon, profile, data, fetch, importing, syncRef,
                 syncDue, tasks, chosen>>

\* The profile's validator is known to the daemon, or is being imported, or
\* the last attempt is less than 15 s old.
SyncEffectSkips ==
  /\ syncDue
  /\ \/ /\ profile = None
        /\ UNCHANGED syncRef
     \/ /\ profile # None /\ Lists(data, profile)
        /\ syncRef' = [key |-> profile, inFlight |-> FALSE, recent |-> TRUE]
     \/ /\ profile # None /\ ~Lists(data, profile)
        /\ \/ syncRef.inFlight
           \/ syncRef.key = profile /\ syncRef.recent
        /\ UNCHANGED syncRef
  /\ syncDue' = FALSE
  /\ UNCHANGED <<daemon, profile, data, fetch, ui, tasks, chosen>>

\* Mutant of SyncEffectStarts: a key is tried once, whatever its age.
SyncEffectStartsOnce(s) ==
  /\ syncDue
  /\ profile # None /\ ~Lists(data, profile) /\ ~syncRef.inFlight
  /\ syncRef.key # profile
  /\ IsFree(s)
  /\ syncRef' = [key |-> profile, inFlight |-> TRUE, recent |-> TRUE]
  /\ tasks' = [tasks EXCEPT ![s] = [NoTask EXCEPT !.kind = "sync", !.phase = "import",
                                                  !.who = profile]]
  /\ syncDue' = FALSE
  /\ UNCHANGED <<daemon, profile, data, fetch, ui, chosen>>

SyncEffectStarts(s) ==
  /\ syncDue
  /\ profile # None /\ ~Lists(data, profile) /\ ~syncRef.inFlight
  /\ ~(syncRef.key = profile /\ syncRef.recent)
  /\ IsFree(s)
  /\ syncRef' = [key |-> profile, inFlight |-> TRUE, recent |-> TRUE]
  /\ tasks' = [tasks EXCEPT ![s] = [NoTask EXCEPT !.kind = "sync", !.phase = "import",
                                                  !.who = profile]]
  /\ syncDue' = FALSE
  /\ UNCHANGED <<daemon, profile, data, fetch, ui, chosen>>

\* 15 s pass since lastAttemptAt.
AttemptAges ==
  /\ syncRef.recent
  /\ syncRef' = [syncRef EXCEPT !.recent = FALSE]
  /\ UNCHANGED <<daemon, profile, data, fetch, ui, syncDue, tasks, chosen>>
-----------------------------------------------------------------------------
(***************************************************************************)
(* The operator.                                                           *)
(***************************************************************************)

\* The picker: its list, closed and disabled while an import runs.
Offered(i) == ~importing /\ i \in Available

SwitchValidator(i) ==
  /\ Offered(i) /\ i # active
  /\ active' = i
  /\ chosen' = None
  /\ UNCHANGED <<daemon, profile, data, fetch, importing, syncRef,
                 syncDue, tasks>>

\* The button of the dialog, or Enter in its field, which ignores that an
\* import runs.  The dialog can always be open: it only refuses to be closed
\* while an import runs.
SubmitImport(s, i) ==
  /\ IsFree(s)
  /\ importing' = TRUE
  /\ tasks' = [tasks EXCEPT ![s] = [NoTask EXCEPT !.kind = "add", !.who = i]]
  /\ UNCHANGED <<daemon, profile, data, fetch, active, syncRef,
                 syncDue, chosen>>

\* The refresh button of the header.
SubmitRefresh(s) ==
  /\ \A r \in Slot : tasks[r].kind # "refresh"    \* isManualRefreshing
  /\ ~importing
  /\ IsFree(s)
  /\ tasks' = [tasks EXCEPT ![s] = [NoTask EXCEPT !.kind = "refresh", !.phase = "invalidate"]]
  /\ fetch' = Request(s)
  /\ UNCHANGED <<daemon, profile, data, active, importing, syncRef,
                 syncDue, chosen>>

\* Retry and reset-state, of the error sheet or the settings page.
SubmitRetry(s) ==
  /\ IsFree(s)
  /\ tasks' = [tasks EXCEPT ![s] = [NoTask EXCEPT !.kind = "retry", !.phase = "retry"]]
  /\ UNCHANGED <<daemon, profile, data, fetch, ui, syncRef, syncDue, chosen>>
-----------------------------------------------------------------------------
(***************************************************************************)
(* Tasks: importValidatorFromInput, the profile synchronisation, refreshAll*)
(* and retryMonitor.                                                       *)
(***************************************************************************)
taskRest == <<monitored, ticking, published, profile, ui, syncRef>>
\* A new phase; the two phases of refreshAll, invalidateQueries and then
\* refetchQueries, replace the live request of the query by one of their own.
Enter(s, phase) ==
  /\ tasks' = [tasks EXCEPT ![s].phase = phase, ![s].latest = IF phase = "sleep" THEN @ ELSE None]
  /\ fetch' = IF phase \in {"invalidate", "refetch"} THEN Request(s) ELSE fetch

At(s, phase) == tasks[s].kind # "free" /\ tasks[s].phase = phase

\* The id is resolved; if that fails, digits are an index all the same and a
\* public key is imported without knowing its index.
Resolved(s) ==
  /\ At(s, "resolve")
  /\ \E k \in BOOLEAN :
       tasks' = [tasks EXCEPT ![s].phase = "import", ![s].known = k]
  /\ UNCHANGED <<taskRest, data, fetch, syncDue, chosen>>

\* The daemon takes the validator into its list and into the dashboard.
ImportServed(s) ==
  /\ At(s, "import")
  /\ monitored' = monitored \union {tasks[s].who}
  /\ published' = monitored'
  /\ Enter(s, "retry")
  /\ UNCHANGED <<ticking, profile, data, ui, syncRef, syncDue, chosen>>

RetryAnswered(s) ==
  /\ At(s, "retry")
  /\ Enter(s, IF tasks[s].kind # "retry" /\ tasks[s].known THEN "ask" ELSE "invalidate")
  /\ UNCHANGED <<taskRest, data, syncDue, chosen>>

\* waitForValidatorSnapshot: one round of the loop, and the pause after it.
WaitServed(s) ==
  /\ At(s, "ask")
  /\ tasks' = [tasks EXCEPT ![s].phase = "look", ![s].latest = published]
  /\ UNCHANGED <<taskRest, data, fetch, syncDue, chosen>>

\* Tracked and with a snapshot; the snapshot may be missing from the answer.
Synchronized(t) == {FALSE, Lists(t.latest, t.who)}

\* Mutant of WaitLooks: the answer is looked at but not put into the cache.
WaitLooksOnly(s) ==
  /\ At(s, "look")
  /\ \E done \in Synchronized(tasks[s]) : Enter(s, IF done THEN "invalidate" ELSE "sleep")
  /\ UNCHANGED <<taskRest, data, syncDue, chosen>>

WaitLooks(s) ==
  /\ At(s, "look")
  /\ \E newer \in BOOLEAN : SetData(tasks[s].latest, newer)
  /\ \E done \in Synchronized(tasks[s]) : Enter(s, IF done THEN "invalidate" ELSE "sleep")
  /\ UNCHANGED <<taskRest, chosen>>

WaitAgain(s) ==
  /\ At(s, "sleep")
  /\ Enter(s, "ask")
  /\ UNCHANGED <<taskRest, data, syncDue, chosen>>

\* A phase of refreshAll ends when its request has settled or was replaced.
InvalidateEnds(s) ==
  /\ At(s, "invalidate") /\ fetch.by # s
  /\ Enter(s, "refetch")
  /\ UNCHANGED <<taskRest, data, syncDue, chosen>>

\* The statements after refreshAll, and the `finally' clauses.
TaskEnds(s) ==
  /\ At(s, "refetch") /\ fetch.by # s
  /\ LET t == tasks[s]
         selects == t.kind = "add" /\ t.known
     IN  /\ active' = IF selects THEN t.who ELSE active
         /\ importing' = IF t.kind = "add" THEN FALSE ELSE importing
         /\ syncRef' = IF t.kind = "sync"
                       THEN [key |-> t.who, inFlight |-> FALSE, recent |-> TRUE]
                       ELSE syncRef
         /\ tasks' = [tasks EXCEPT ![s] = NoTask]
         /\ chosen' = IF selects THEN t.who ELSE chosen
  /\ UNCHANGED <<daemon, profile, data, fetch, syncDue>>

\* `catch' and `finally' of a request that failed.
Fails(s) ==
  /\ importing' = IF tasks[s].kind = "add" THEN FALSE ELSE importing
  /\ syncRef' = IF tasks[s].kind = "sync"
                THEN [key |-> tasks[s].who, inFlight |-> FALSE, recent |-> TRUE]
                ELSE syncRef
  /\ tasks' = [tasks EXCEPT ![s] = NoTask]
  /\ UNCHANGED <<daemon, profile, fetch, active>>

\* A request of the task is refused, times out or is answered with an error,
\* though the daemon may have done what it asks.
RequestFails(s) ==
  /\ \E phase \in {"import", "retry", "ask"} : At(s, phase)
  /\ Fails(s)
  /\ UNCHANGED <<data, syncDue, chosen>>

\* 22 s have passed: the last answer is put into the cache once more.
WaitTimesOut(s) ==
  /\ At(s, "sleep")
  /\ \E newer \in BOOLEAN : SetData(tasks[s].latest, newer)
  /\ Fails(s)
  /\ UNCHANGED chosen
-----------------------------------------------------------------------------
Daemon == TickBegins \/ TickPublishes

Query ==
  \/ Poll
  \/ FetchServed
  \/ \E newer \in BOOLEAN : FetchApplied(newer)
  \/ FetchFails

Move ==
  /\ moves < MaxMoves
  /\ moves' = moves + 1
  /\ \/ \E i \in Index : SwitchValidator(i)
     \/ \E s \in Slot, i \in Index : SubmitImport(s, i)
     \/ \E s \in Slot : SubmitRefresh(s) \/ SubmitRetry(s)
     \/ \E p \in Index \union {None} : SyncProfile(p)

Advance(s) ==
  \/ Resolved(s)
  \/ ImportServed(s)
  \/ RetryAnswered(s)
  \/ WaitServed(s)
  \/ WaitLooks(s)
  \/ InvalidateEnds(s)
  \/ TaskEnds(s)

Step ==
  \/ Daemon
  \/ Query
  \/ SelectEffect
  \/ SyncEffectSkips
  \/ AttemptAges
  \/ \E s \in Slot :
       SyncEffectStarts(s) \/ Advance(s) \/ WaitAgain(s) \/ RequestFails(s) \/ WaitTimesOut(s)

\* A dashboard without i is published or on its way.
Threat(i) ==
  \/ ~Lists(published, i)
  \/ \E p \in {fetch.answer} \union {tasks[s].latest : s \in Slot} :
       p # None /\ ~Lists(p, i)

Note == raced' = raced \union {i \in Index : Lists(data, i)' /\ Threat(i)'}
Quiet == UNCHANGED moves /\ Note

Next == (Move /\ Note) \/ (Step /\ Quiet)

Spec == Init /\ [][Next]_vars

\* The daemon ticks, effects and timers run, requests settle.  Requests that
\* are repeated for ever do not fail for ever, and an answer now and then
\* follows a tick.  Of the operator nothing is assumed.
FairSpec ==
  /\ Spec
  /\ WF_vars(Daemon /\ Quiet)
  /\ WF_vars(Poll /\ Quiet)
  /\ SF_vars(FetchServed /\ Quiet) /\ SF_vars(FetchApplied(TRUE) /\ Quiet)
  /\ WF_vars((SelectEffect \/ SyncEffectSkips) /\ Quiet) /\ WF_vars(AttemptAges /\ Quiet)
  /\ \A s \in Slot : /\ SF_vars(SyncEffectStarts(s) /\ Quiet)
                     /\ WF_vars((Advance(s) \/ WaitAgain(s) \/ WaitTimesOut(s)) /\ Quiet)
                     /\ SF_vars(ImportServed(s) /\ Quiet)
                     /\ SF_vars(WaitTimesOut(s) /\ Quiet)
-----------------------------------------------------------------------------
(***************************************************************************)
(* Properties.                                                             *)
(***************************************************************************)

\* The validator an import ended with stays selected until the operator
\* switches, through polls, ticks, refreshes, other imports that fail and a
\* changing profile, unless a dashboard older than the import was still on its
\* way (importValidatorFromInput, waitForValidatorSnapshot).
ImportKeepsSelection == chosen # None /\ chosen \notin raced => active = chosen

\* The profile's validator reaches the daemon's list even if onboarding
\* could not import it, whatever attempts, refreshes and switches came between
\* (the profile-sync effect).
ProfileIsTracked ==
  \A i \in Index : profile = i ~> (profile # i \/ i \in monitored)

\* What the daemon polls is shown in the end and stays, although older
\* answers may be applied after newer ones: of a daemon whose list only grows
\* and whose ticks go on publishing it.
DashboardCatchesUp ==
  \A i \in Index : i \in monitored ~> []Lists(data, i)
=============================================================================
