------------------------ MODULE ValidatorShellProofs ------------------------
(***************************************************************************)
(* Proofs about the main shell: its types, and that the validator an       *)
(* import ended with stays selected.                                       *)
(***************************************************************************)
EXTENDS ValidatorShell, TLAPS, WellFoundedInduction

\* A set of indices has a least member, and the picker's first one is in it.
LEMMA MinIsMember ==
  ASSUME NEW S, S \subseteq Nat, S # {} PROVE Min(S) \in S
<1> DEFINE R == OpToRel(<, Nat)
<1>1. PICK x \in S : \A y \in S : ~(<<y, x>> \in R)
  <2>1. IsWellFoundedOn(R, Nat)
    BY NatLessThanWellFounded
  <2> HIDE DEF R
  <2>2. QED
    BY <2>1, WFMin
<1>2. \A y \in S : x =< y
  <2> SUFFICES ASSUME NEW y \in S PROVE x =< y
    OBVIOUS
  <2>1. ~(y < x)
    BY <1>1 DEF OpToRel
  <2>2. QED
    BY <2>1
<1>3. QED
  BY <1>2 DEF Min
-----------------------------------------------------------------------------
(***************************************************************************)
(* Types of tasks and requests.                                            *)
(***************************************************************************)
Fetch == [by : Slot \union {None}, live : BOOLEAN, answer : Payload \union {None}]

\* A waiting import looks only at answers it has.
WaitInv ==
  \A s \in Slot : At(s, "look") \/ At(s, "sleep") => tasks[s].latest # None

\* Only imports and synchronisations talk to the import routes.
Belongs(kind, phase) ==
  /\ kind = "refresh" => phase \in {"invalidate", "refetch"}
  /\ kind = "retry" => phase \in {"retry", "invalidate", "refetch"}

TasksOK ==
  /\ tasks \in [Slot -> Task]
  /\ \A s \in Slot : tasks[s].kind \in {"add", "sync"} => tasks[s].who \in Index
  /\ \A s \in Slot : Belongs(tasks[s].kind, tasks[s].phase)
  /\ WaitInv

\* A request has no answer yet.
LEMMA Requests ==
  ASSUME NEW s \in Slot \union {None} PROVE Request(s) \in Fetch /\ Request(s).answer = None
  BY DEF Request, Fetch

\* A query at rest has no answer.
LEMMA IdleFetch == Idle \in Fetch /\ Idle.answer = None
  BY DEF Idle, Fetch

\* A free slot has no handler.
LEMMA FreeTask == NoTask \in Task /\ NoTask.kind = "free" /\ NoTask.latest = None
  BY DEF NoTask, Task, Phase

\* No dashboard is None.
LEMMA PayloadIsSome == \A p \in Payload : p # None
  BY ShellAssumption DEF Payload

\* Another record in one slot.
LEMMA TaskSet ==
  ASSUME TasksOK, NEW s \in Slot, NEW t \in Task,
         t.kind \in {"add", "sync"} => t.who \in Index,
         t.kind # "free" /\ t.phase \in {"look", "sleep"} => t.latest # None,
         Belongs(t.kind, t.phase),
         tasks' = [tasks EXCEPT ![s] = t]
  PROVE  TasksOK' /\ \A r \in Slot : tasks'[r] = IF r = s THEN t ELSE tasks[r]
<1>1. tasks' \in [Slot -> Task] /\ \A r \in Slot : tasks'[r] = IF r = s THEN t ELSE tasks[r]
  BY DEF TasksOK
<1>2. WaitInv'
  BY <1>1 DEF TasksOK, WaitInv, At
<1>3. QED
  BY <1>1, <1>2 DEF TasksOK

\* A task enters its next phase.
LEMMA EnterSet ==
  ASSUME TasksOK, fetch \in Fetch, NEW s \in Slot, NEW phase \in Phase \ {"look"},
         phase = "sleep" => tasks[s].latest # None, Belongs(tasks[s].kind, phase),
         Enter(s, phase)
  PROVE  /\ TasksOK' /\ fetch' \in Fetch
         /\ fetch'.answer \in {fetch.answer, None}
         /\ \A r \in Slot \ {s} : tasks'[r] = tasks[r]
         /\ tasks'[s].phase = phase /\ tasks'[s].kind = tasks[s].kind
         /\ tasks'[s].who = tasks[s].who /\ tasks'[s].known = tasks[s].known
         /\ tasks'[s].latest \in {tasks[s].latest, None}
<1>1. tasks[s] \in Task
  BY DEF TasksOK
<1> DEFINE t == [tasks[s] EXCEPT !.phase = phase,
                                 !.latest = IF phase = "sleep" THEN tasks[s].latest ELSE None]
<1>2. /\ t \in Task /\ t.phase = phase /\ t.kind = tasks[s].kind /\ t.who = tasks[s].who
      /\ t.known = tasks[s].known
      /\ t.latest = IF phase = "sleep" THEN tasks[s].latest ELSE None
  BY <1>1 DEF Task
<1>3. tasks' = [tasks EXCEPT ![s] = t]
  BY <1>1 DEF Enter, TasksOK, Task
<1> HIDE DEF t
<1>4. TasksOK' /\ \A r \in Slot : tasks'[r] = IF r = s THEN t ELSE tasks[r]
  BY <1>2, <1>3, TaskSet DEF TasksOK
<1>5. fetch' \in Fetch /\ fetch'.answer \in {fetch.answer, None}
  BY Requests DEF Enter
<1>6. QED
  BY <1>2, <1>4, <1>5
-----------------------------------------------------------------------------
(***************************************************************************)
(* The inductive invariant.                                                *)
(***************************************************************************)
SyncRef == [key : Index \union {None}, inFlight : BOOLEAN, recent : BOOLEAN]

ShellOK ==
  /\ monitored \subseteq Index /\ ticking \in (SUBSET Index) \union {None}
  /\ published \in Payload
  /\ profile \in Index \union {None} /\ active \in Index \union {None}
  /\ data \in Payload \union {None} /\ fetch \in Fetch
  /\ importing \in BOOLEAN /\ syncRef \in SyncRef /\ syncDue \in BOOLEAN
  /\ TasksOK
  /\ chosen \in Index \union {None}

\* Whatever is shown and threatened by an older dashboard is marked.
RacedInv == \A i \in Index : Lists(data, i) /\ Threat(i) => i \in raced

\* The last import is selected, and shown, so that the selection has no cause
\* to move.
KeptInv == chosen # None /\ chosen \notin raced => active = chosen /\ Lists(data, chosen)

\* An import that has seen its validator on the dashboard and now refreshes.
AddDone(s) ==
  /\ tasks[s].kind = "add" /\ tasks[s].known
  /\ tasks[s].phase \in {"invalidate", "refetch"}

DoneInv ==
  \A s \in Slot : AddDone(s) => tasks[s].who \in raced \/ Lists(data, tasks[s].who)

Inv == ShellOK /\ moves \in 0..MaxMoves /\ raced \subseteq Index /\ RacedInv /\ KeptInv /\ DoneInv

\* The invariant contains the types.
LEMMA InvTypes == Inv => TypeOK
  BY DEF Inv, ShellOK, TasksOK, TypeOK, Fetch, SyncRef

(***************************************************************************)
(* What every step does to the parts the invariant speaks of.              *)
(***************************************************************************)

\* Data are replaced only by an answer that was on its way.
DataMoves ==
  \/ data' = data
  \/ data' # None /\ data' = fetch.answer
  \/ data' # None /\ \E s \in Slot : data' = tasks[s].latest

\* An import begins its last refresh only when its validator is shown.
Carried ==
  \A r \in Slot : AddDone(r)' =>
    \/ AddDone(r) /\ tasks'[r].who = tasks[r].who
    \/ Lists(data', tasks'[r].who)

\* The selection moves with an import that ends, and otherwise not away from a
\* selection that is listed.
ChosenMoves ==
  \/ chosen' = None
  \/ chosen' = chosen /\ (active = chosen /\ Lists(data, chosen) => active' = active)
  \/ data' = data /\ active' = chosen' /\ \E r \in Slot : AddDone(r) /\ chosen' = tasks[r].who

StepOK == ShellOK' /\ DataMoves /\ Carried /\ ChosenMoves

\* What every step does (StepOK) preserves the invariant.
LEMMA StepKeeps ==
  ASSUME Inv, StepOK, Note, moves' \in 0..MaxMoves PROVE Inv'
<1>0. /\ ShellOK /\ raced \subseteq Index /\ RacedInv /\ KeptInv /\ DoneInv
      /\ ShellOK' /\ DataMoves /\ Carried /\ ChosenMoves
  BY DEF Inv, StepOK
<1>1. /\ raced' \subseteq Index /\ raced \subseteq raced'
      /\ \A i \in Index : Lists(data, i)' /\ Threat(i)' => i \in raced'
  BY <1>0 DEF Note
<1>2. RacedInv'
  BY <1>1 DEF RacedInv
<1>3. \A i \in Index : Lists(data, i) /\ i \notin raced => Lists(data', i)
  <2> SUFFICES ASSUME NEW i \in Index, Lists(data, i), i \notin raced PROVE Lists(data', i)
    OBVIOUS
  <2>1. ~Threat(i)
    BY <1>0 DEF RacedInv
  <2>2. \A p \in {fetch.answer} \union {tasks[s].latest : s \in Slot} : p # None => Lists(p, i)
    BY <2>1 DEF Threat
  <2>3. QED
    BY <1>0, <2>2 DEF DataMoves
<1>4. DoneInv'
  <2> SUFFICES ASSUME NEW r \in Slot, AddDone(r)'
               PROVE  tasks'[r].who \in raced' \/ Lists(data', tasks'[r].who)
    BY DEF DoneInv
  <2>1. CASE Lists(data', tasks'[r].who)
    BY <2>1
  <2>2. CASE AddDone(r) /\ tasks'[r].who = tasks[r].who
    <3>1. tasks[r].who \in Index
      BY <1>0, <2>2 DEF ShellOK, TasksOK, AddDone
    <3>2. QED
      BY <1>0, <1>1, <1>3, <2>2, <3>1 DEF DoneInv
  <2>3. QED
    BY <1>0, <2>1, <2>2 DEF Carried
<1>5. KeptInv'
  <2> SUFFICES ASSUME chosen' # None, chosen' \notin raced'
               PROVE  active' = chosen' /\ Lists(data', chosen')
    BY DEF KeptInv
  <2>1. chosen' \in Index /\ chosen' \notin raced
    BY <1>0, <1>1 DEF ShellOK
  <2>2. CASE chosen' = chosen /\ (active = chosen /\ Lists(data, chosen) => active' = active)
    BY <1>0, <1>3, <2>1, <2>2 DEF KeptInv
  <2>3. CASE data' = data /\ active' = chosen' /\ \E r \in Slot : AddDone(r) /\ chosen' = tasks[r].who
    BY <1>0, <2>1, <2>3 DEF DoneInv
  <2>4. QED
    BY <1>0, <2>2, <2>3 DEF ChosenMoves
<1>6. QED
  BY <1>0, <1>1, <1>2, <1>4, <1>5 DEF Inv
-----------------------------------------------------------------------------
(***************************************************************************)
(* Steps that leave the tasks alone.                                       *)
(***************************************************************************)
\* Handlers that stay as they are carry what they carried.
LEMMA SameTasks ==
  ASSUME ShellOK, tasks' = tasks PROVE TasksOK' /\ Carried
  BY DEF ShellOK, TasksOK, WaitInv, At, Carried, AddDone

\* The daemon's own steps touch nothing of the shell.
LEMMA DaemonStep ==
  ASSUME Inv, Daemon PROVE StepOK
<1>0. ShellOK
  BY DEF Inv
<1>1. UNCHANGED <<profile, data, fetch, active, importing, syncRef, syncDue, tasks, chosen>>
  BY DEF Daemon, TickBegins, TickPublishes, shellState, ui
<1>2. monitored' \subseteq Index /\ ticking' \in (SUBSET Index) \union {None} /\ published' \in Payload
  <2>1. CASE TickBegins
    <3>1. UNCHANGED <<monitored, published>> /\ ticking' = monitored
      BY <2>1 DEF TickBegins
    <3>2. QED
      BY <1>0, <3>1 DEF ShellOK
  <2>2. CASE TickPublishes
    BY <1>0, <2>2 DEF TickPublishes, ShellOK, Payload
  <2>3. QED
    BY <2>1, <2>2 DEF Daemon
<1>3. TasksOK' /\ Carried
  BY <1>0, <1>1, SameTasks
<1>4. ShellOK'
  BY <1>0, <1>1, <1>2, <1>3 DEF ShellOK
<1>5. QED
  BY <1>1, <1>3, <1>4 DEF StepOK, DataMoves, ChosenMoves

\* The query takes an answer from the daemon and applies it.
LEMMA QueryStep ==
  ASSUME Inv, Query PROVE StepOK
<1>0. ShellOK
  BY DEF Inv
<1>1. UNCHANGED <<monitored, ticking, published, profile, active, importing, syncRef, tasks, chosen>>
  BY DEF Query, Poll, FetchServed, FetchApplied, FetchFails, daemon, ui
<1>2. TasksOK' /\ Carried
  BY <1>0, <1>1, SameTasks
<1>3. fetch' \in Fetch
  <2>1. CASE Poll
    BY <2>1, Requests DEF Poll
  <2>2. CASE FetchServed
    BY <1>0, <2>2 DEF FetchServed, ShellOK, Fetch
  <2>3. CASE FetchFails \/ \E newer \in BOOLEAN : FetchApplied(newer)
    BY <2>3, IdleFetch DEF FetchFails, FetchApplied
  <2>4. QED
    BY <2>1, <2>2, <2>3 DEF Query
<1>4. CASE \E newer \in BOOLEAN : FetchApplied(newer)
  <2>1. PICK newer \in BOOLEAN : FetchApplied(newer)
    BY <1>4
  <2>2. data' = fetch.answer /\ fetch.answer # None
    BY <2>1 DEF FetchApplied, SetData
  <2>3. syncDue' \in BOOLEAN
    BY <2>1, Zenon DEF FetchApplied, SetData
  <2>4. data' \in Payload
    BY <1>0, <2>2 DEF ShellOK, Fetch
  <2>5. ShellOK'
    BY <1>0, <1>1, <1>2, <1>3, <2>3, <2>4 DEF ShellOK
  <2>6. QED
    BY <1>1, <1>2, <2>2, <2>5 DEF StepOK, DataMoves, ChosenMoves
<1>5. CASE Poll \/ FetchServed \/ FetchFails
  <2>1. UNCHANGED <<data, syncDue>>
    BY <1>5 DEF Poll, FetchServed, FetchFails
  <2>2. ShellOK'
    BY <1>0, <1>1, <1>2, <1>3, <2>1 DEF ShellOK
  <2>3. QED
    BY <1>1, <1>2, <2>1, <2>2 DEF StepOK, DataMoves, ChosenMoves
<1>6. QED
  BY <1>4, <1>5 DEF Query

\* The selection effect moves only off a validator that is not listed.
LEMMA SelectStep ==
  ASSUME Inv, SelectEffect PROVE StepOK
<1>0. ShellOK
  BY DEF Inv
<1>1. UNCHANGED <<monitored, ticking, published, profile, data, fetch, importing, syncRef,
                  syncDue, tasks, chosen>>
  BY DEF SelectEffect, daemon
<1>2. Available \subseteq Index /\ Index \subseteq Nat
  BY <1>0, ShellAssumption DEF Available, ShellOK, Payload
<1>3. Available # {} => Min(Available) \in Available
  BY <1>2, MinIsMember
<1>4. active' \in Index \union {None}
  <2>1. CASE Available = {}
    BY <2>1 DEF SelectEffect
  <2>2. CASE Available # {}
    BY <1>0, <1>2, <1>3, <2>2 DEF SelectEffect, ShellOK
  <2>3. QED
    BY <2>1, <2>2
<1>5. ~(active = chosen /\ Lists(data, chosen))
  <2> SUFFICES ASSUME active = chosen, Lists(data, chosen) PROVE FALSE
    OBVIOUS
  <2>1. active \in Available /\ active # None
    <3>1. data # None /\ chosen \in data
      BY DEF Lists
    <3>2. chosen \in Available
      BY <3>1 DEF Available
    <3>3. chosen # None
      BY <1>2, <3>2, ShellAssumption
    <3>4. QED
      BY <3>2, <3>3
  <2>2. QED
    BY <2>1 DEF SelectEffect
<1>6. TasksOK' /\ Carried
  BY <1>0, <1>1, SameTasks
<1>7. ShellOK'
  BY <1>0, <1>1, <1>4, <1>6 DEF ShellOK
<1>8. QED
  BY <1>1, <1>5, <1>6, <1>7 DEF StepOK, DataMoves, ChosenMoves

\* The attempts of the profile synchronisation touch nothing else.
LEMMA AttemptStep ==
  ASSUME Inv, SyncEffectSkips \/ AttemptAges PROVE StepOK
<1>0. ShellOK
  BY DEF Inv
<1>1. UNCHANGED <<monitored, ticking, published, profile, data, fetch, active, importing,
                  tasks, chosen>>
  BY DEF SyncEffectSkips, AttemptAges, daemon, ui
<1>2. syncDue' \in {FALSE, syncDue}
  BY DEF SyncEffectSkips, AttemptAges
<1>3. syncDue' \in BOOLEAN
  BY <1>0, <1>2, Zenon DEF ShellOK
<1>4. syncRef' \in SyncRef
  <2>1. CASE AttemptAges
    BY <1>0, <2>1 DEF AttemptAges, ShellOK, SyncRef
  <2>2. CASE SyncEffectSkips
    <3>1. \/ syncRef' = syncRef
          \/ profile # None /\ syncRef' = [key |-> profile, inFlight |-> FALSE, recent |-> TRUE]
      BY <2>2 DEF SyncEffectSkips
    <3>2. profile \in Index \union {None}
      BY <1>0 DEF ShellOK
    <3>3. CASE syncRef' = syncRef
      BY <1>0, <3>3 DEF ShellOK
    <3>4. CASE profile # None /\ syncRef' = [key |-> profile, inFlight |-> FALSE, recent |-> TRUE]
      BY <3>2, <3>4 DEF SyncRef
    <3>5. QED
      BY <3>1, <3>3, <3>4
  <2>3. QED
    BY <2>1, <2>2
<1>5. TasksOK' /\ Carried
  BY <1>0, <1>1, SameTasks
<1>6. ShellOK'
  BY <1>0, <1>1, <1>3, <1>4, <1>5 DEF ShellOK
<1>7. QED
  BY <1>1, <1>5, <1>6 DEF StepOK, DataMoves, ChosenMoves
-----------------------------------------------------------------------------
(***************************************************************************)
(* New tasks.                                                              *)
(***************************************************************************)

\* A task that has just been started is not at its end.
LEMMA TaskStarted ==
  ASSUME ShellOK, NEW s \in Slot, NEW t \in Task,
         t.kind \in {"add", "sync"} => t.who \in Index,
         t.phase \notin {"look", "sleep"}, Belongs(t.kind, t.phase),
         t.kind = "add" => t.phase = "resolve",
         tasks' = [tasks EXCEPT ![s] = t]
  PROVE  TasksOK' /\ Carried
<1>1. TasksOK
  BY DEF ShellOK
<1>2. TasksOK' /\ \A r \in Slot : tasks'[r] = IF r = s THEN t ELSE tasks[r]
  BY <1>1, TaskSet
<1>3. Carried
  BY <1>2 DEF Carried, AddDone
<1>4. QED
  BY <1>2, <1>3

\* The profile synchronisation begins as a handler of its own.
LEMMA SyncStartsStep ==
  ASSUME Inv, NEW s \in Slot, SyncEffectStarts(s) PROVE StepOK
<1>0. ShellOK
  BY DEF Inv
<1>1. UNCHANGED <<monitored, ticking, published, profile, data, fetch, active, importing, chosen>>
  BY DEF SyncEffectStarts, daemon, ui
<1>2. /\ profile # None /\ syncRef' = [key |-> profile, inFlight |-> TRUE, recent |-> TRUE]
      /\ tasks' = [tasks EXCEPT ![s] = [NoTask EXCEPT !.kind = "sync", !.phase = "import",
                                                      !.who = profile]]
  BY DEF SyncEffectStarts
<1>3. syncDue' = FALSE
  BY DEF SyncEffectStarts
<1>4. profile \in Index
  BY <1>0, <1>2 DEF ShellOK
<1>5. TasksOK' /\ Carried
  <2> DEFINE t == [NoTask EXCEPT !.kind = "sync", !.phase = "import", !.who = profile]
  <2>1. t \in Task /\ t.kind = "sync" /\ t.phase = "import" /\ t.who = profile
    BY <1>4 DEF NoTask, Task, Phase
  <2>2. tasks' = [tasks EXCEPT ![s] = t]
    BY <1>2
  <2> HIDE DEF t
  <2>3. QED
    BY <1>0, <1>4, <2>1, <2>2, TaskStarted DEF Belongs
<1>6. syncRef' \in SyncRef
  BY <1>2, <1>4 DEF SyncRef
<1>7. ShellOK'
  BY <1>0, <1>1, <1>3, <1>5, <1>6 DEF ShellOK
<1>8. QED
  BY <1>1, <1>5, <1>7 DEF StepOK, DataMoves, ChosenMoves

\* The operator switches, or starts a handler.
LEMMA MoveStep ==
  ASSUME Inv, Move PROVE StepOK
<1>0. ShellOK
  BY DEF Inv
<1>1. ASSUME NEW i \in Index, SwitchValidator(i) PROVE StepOK
  <2>1. UNCHANGED <<monitored, ticking, published, profile, data, fetch, importing, syncRef,
                    syncDue, tasks>> /\ active' = i /\ chosen' = None
    BY <1>1 DEF SwitchValidator, daemon
  <2>2. TasksOK' /\ Carried
    BY <1>0, <2>1, SameTasks
  <2>3. ShellOK'
    BY <1>0, <2>1, <2>2 DEF ShellOK
  <2>4. QED
    BY <2>1, <2>2, <2>3 DEF StepOK, DataMoves, ChosenMoves
<1>2. ASSUME NEW s \in Slot, NEW i \in Index, SubmitImport(s, i) PROVE StepOK
  <2>1. UNCHANGED <<monitored, ticking, published, profile, data, fetch, active, syncRef,
                    syncDue, chosen>>
    BY <1>2 DEF SubmitImport, daemon
  <2>2. importing' = TRUE
    BY <1>2 DEF SubmitImport
  <2> DEFINE t == [NoTask EXCEPT !.kind = "add", !.who = i]
  <2>3. t \in Task /\ t.kind = "add" /\ t.phase = "resolve" /\ t.who = i
    BY DEF NoTask, Task, Phase
  <2>a. tasks' = [tasks EXCEPT ![s] = t]
    BY <1>2 DEF SubmitImport
  <2> HIDE DEF t
  <2>4. TasksOK' /\ Carried
    BY <1>0, <2>3, <2>a, TaskStarted DEF Belongs
  <2>5. ShellOK'
    BY <1>0, <2>1, <2>2, <2>4 DEF ShellOK
  <2>6. QED
    BY <2>1, <2>4, <2>5 DEF StepOK, DataMoves, ChosenMoves
<1>3. ASSUME NEW s \in Slot, SubmitRefresh(s) \/ SubmitRetry(s) PROVE StepOK
  <2>1. UNCHANGED <<monitored, ticking, published, profile, data, active, importing, syncRef,
                    syncDue, chosen>>
    BY <1>3 DEF SubmitRefresh, SubmitRetry, daemon, ui
  <2>2. fetch' \in Fetch
    BY <1>0, <1>3, Requests DEF SubmitRefresh, SubmitRetry, ShellOK
  <2> DEFINE t(k, phase) == [NoTask EXCEPT !.kind = k, !.phase = phase]
  <2>3. \A k, phase \in {"refresh", "retry", "invalidate"} :
          k # "invalidate" /\ phase # "refresh" =>
            t(k, phase) \in Task /\ t(k, phase).kind = k /\ t(k, phase).phase = phase
    BY DEF NoTask, Task, Phase
  <2>a. \/ tasks' = [tasks EXCEPT ![s] = t("refresh", "invalidate")]
        \/ tasks' = [tasks EXCEPT ![s] = t("retry", "retry")]
    BY <1>3 DEF SubmitRefresh, SubmitRetry
  <2> HIDE DEF t
  <2>4. TasksOK' /\ Carried
    BY <1>0, <2>3, <2>a, TaskStarted DEF Belongs
  <2>5. ShellOK'
    BY <1>0, <2>1, <2>2, <2>4 DEF ShellOK
  <2>6. QED
    BY <2>1, <2>4, <2>5 DEF StepOK, DataMoves, ChosenMoves
<1>4. ASSUME NEW p \in Index \union {None}, SyncProfile(p) PROVE StepOK
  <2>1. UNCHANGED <<monitored, ticking, published, data, fetch, active, importing, syncRef,
                    tasks, chosen>> /\ profile' = p
    BY <1>4 DEF SyncProfile, daemon, ui
  <2>2. syncDue' = TRUE
    BY <1>4 DEF SyncProfile
  <2>3. TasksOK' /\ Carried
    BY <1>0, <2>1, SameTasks
  <2>4. ShellOK'
    BY <1>0, <2>1, <2>2, <2>3 DEF ShellOK
  <2>5. QED
    BY <2>1, <2>3, <2>4 DEF StepOK, DataMoves, ChosenMoves
<1>5. QED
  BY <1>1, <1>2, <1>3, <1>4 DEF Move
-----------------------------------------------------------------------------
(***************************************************************************)
(* Tasks that go on.                                                       *)
(***************************************************************************)
\* A handler goes on to its next request.
LEMMA EnterStep ==
  ASSUME Inv, NEW s \in Slot, NEW phase \in Phase \ {"look"},
         phase = "sleep" => tasks[s].latest # None, Belongs(tasks[s].kind, phase),
         Enter(s, phase),
         phase \in {"invalidate", "refetch"} /\ tasks[s].kind = "add" /\ tasks[s].known =>
           AddDone(s) \/ Lists(data', tasks[s].who)
  PROVE  TasksOK' /\ Carried /\ fetch' \in Fetch
<1>0. ShellOK
  BY DEF Inv
<1>1. /\ TasksOK' /\ fetch' \in Fetch
      /\ \A r \in Slot \ {s} : tasks'[r] = tasks[r]
      /\ tasks'[s].phase = phase /\ tasks'[s].kind = tasks[s].kind
      /\ tasks'[s].who = tasks[s].who /\ tasks'[s].known = tasks[s].known
  BY <1>0, EnterSet DEF ShellOK
<1>2. Carried
  <2> SUFFICES ASSUME NEW r \in Slot, AddDone(r)'
               PROVE  (AddDone(r) /\ tasks'[r].who = tasks[r].who) \/ Lists(data', tasks'[r].who)
    BY DEF Carried
  <2>1. CASE r # s
    BY <1>1, <2>1 DEF AddDone
  <2>2. CASE r = s
    BY <1>1, <2>2 DEF AddDone
  <2>3. QED
    BY <2>1, <2>2
<1>3. QED
  BY <1>1, <1>2

\* A phase that changes neither the selection nor the copy of the dashboard.
LEMMA GoesOn ==
  ASSUME ShellOK, TasksOK', Carried, fetch' \in Fetch,
         monitored' \subseteq Index, published' \in Payload,
         UNCHANGED <<ticking, profile, data, active, importing, syncRef, syncDue, chosen>>
  PROVE  StepOK
<1>1. ShellOK'
  BY DEF ShellOK
<1>2. QED
  BY <1>1 DEF StepOK, DataMoves, ChosenMoves

\* A handler whose identity is resolved goes on to its import.
LEMMA ResolvedStep ==
  ASSUME Inv, NEW s \in Slot, Resolved(s) PROVE StepOK
<1>0. ShellOK /\ TasksOK
  BY DEF Inv, ShellOK
<1>1. UNCHANGED <<monitored, ticking, published, profile, data, fetch, active, importing,
                  syncRef, syncDue, chosen>>
  BY DEF Resolved, taskRest, ui
<1>2. PICK k \in BOOLEAN : tasks' = [tasks EXCEPT ![s].phase = "import", ![s].known = k]
  BY DEF Resolved
<1> DEFINE t == [tasks[s] EXCEPT !.phase = "import", !.known = k]
<1>3. tasks[s] \in Task
  BY <1>0 DEF TasksOK
<1>4. t \in Task /\ t.phase = "import" /\ t.kind = tasks[s].kind /\ t.who = tasks[s].who
  BY <1>3 DEF Task, Phase
<1>5. tasks' = [tasks EXCEPT ![s] = t]
  BY <1>0, <1>2, <1>3 DEF TasksOK, Task
<1> HIDE DEF t
<1>6. TasksOK' /\ \A r \in Slot : tasks'[r] = IF r = s THEN t ELSE tasks[r]
  <2>1. t.kind \in {"add", "sync"} => t.who \in Index
    BY <1>0, <1>4 DEF TasksOK
  <2>2. Belongs(t.kind, t.phase)
    BY <1>0, <1>4 DEF TasksOK, Resolved, At, Belongs
  <2>3. QED
    BY <1>0, <1>4, <1>5, <2>1, <2>2, TaskSet
<1>7. Carried
  BY <1>4, <1>6 DEF Carried, AddDone
<1>8. QED
  BY <1>0, <1>1, <1>6, <1>7, GoesOn DEF ShellOK

\* A task that is asking for an import, or waiting for it, has a validator.
LEMMA Busy ==
  ASSUME ShellOK, NEW s \in Slot, tasks[s].kind # "free"
  PROVE  /\ tasks[s].phase \notin {"invalidate", "refetch", "retry"} =>
              tasks[s].kind \in {"add", "sync"} /\ tasks[s].who \in Index
         /\ tasks[s].phase \notin {"invalidate", "refetch"} => tasks[s].kind # "refresh"
  BY DEF ShellOK, TasksOK, Task, Belongs

\* The daemon has taken the import; the handler asks for a retry.
LEMMA ImportServedStep ==
  ASSUME Inv, NEW s \in Slot, ImportServed(s) PROVE StepOK
<1>0. ShellOK
  BY DEF Inv
<1>1. /\ UNCHANGED <<ticking, profile, data, active, importing, syncRef, syncDue, chosen>>
      /\ monitored' = monitored \union {tasks[s].who} /\ published' = monitored'
      /\ Enter(s, "retry") /\ At(s, "import")
  BY DEF ImportServed, ui
<1>2. tasks[s].who \in Index /\ Belongs(tasks[s].kind, "retry")
  BY <1>0, <1>1, Busy DEF At, Belongs
<1>3. TasksOK' /\ Carried /\ fetch' \in Fetch
  BY <1>1, <1>2, EnterStep DEF Phase
<1>4. QED
  BY <1>0, <1>1, <1>2, <1>3, GoesOn DEF ShellOK, Payload

\* A retry that was answered goes on to wait for the dashboard, or to refresh.
LEMMA RetryAnsweredStep ==
  ASSUME Inv, NEW s \in Slot, RetryAnswered(s) PROVE StepOK
<1>0. ShellOK
  BY DEF Inv
<1> DEFINE phase == IF tasks[s].kind # "retry" /\ tasks[s].known THEN "ask" ELSE "invalidate"
<1>1. /\ UNCHANGED <<monitored, ticking, published, profile, data, active, importing, syncRef,
                     syncDue, chosen>>
      /\ Enter(s, phase) /\ At(s, "retry")
  BY DEF RetryAnswered, taskRest, ui
<1>2. /\ phase \in Phase \ {"look", "sleep"} /\ Belongs(tasks[s].kind, phase)
      /\ ~(phase \in {"invalidate", "refetch"} /\ tasks[s].kind = "add" /\ tasks[s].known)
  BY <1>0, <1>1, Busy DEF At, Belongs, Phase
<1> HIDE DEF phase
<1>3. TasksOK' /\ Carried /\ fetch' \in Fetch
  BY <1>1, <1>2, EnterStep
<1>4. QED
  BY <1>0, <1>1, <1>3, GoesOn DEF ShellOK

\* The dashboard a handler waits for is on its way.
LEMMA WaitServedStep ==
  ASSUME Inv, NEW s \in Slot, WaitServed(s) PROVE StepOK
<1>0. ShellOK /\ TasksOK
  BY DEF Inv, ShellOK
<1>1. /\ UNCHANGED <<monitored, ticking, published, profile, data, fetch, active, importing,
                     syncRef, syncDue, chosen>>
      /\ tasks' = [tasks EXCEPT ![s].phase = "look", ![s].latest = published]
      /\ At(s, "ask")
  BY DEF WaitServed, taskRest, ui
<1> DEFINE t == [tasks[s] EXCEPT !.phase = "look", !.latest = published]
<1>2. tasks[s] \in Task /\ published \in Payload
  BY <1>0 DEF ShellOK, TasksOK
<1>3. /\ t \in Task /\ t.phase = "look" /\ t.kind = tasks[s].kind /\ t.who = tasks[s].who
      /\ t.latest = published
  BY <1>2 DEF Task, Phase
<1>4. tasks' = [tasks EXCEPT ![s] = t]
  BY <1>0, <1>1, <1>2 DEF TasksOK, Task
<1> HIDE DEF t
<1>5. t.kind \in {"add", "sync"} => t.who \in Index
  BY <1>0, <1>3 DEF TasksOK
<1>6. Belongs(t.kind, t.phase) /\ t.latest # None
  BY <1>0, <1>1, <1>2, <1>3, Busy, PayloadIsSome DEF At, Belongs
<1>7. TasksOK' /\ \A r \in Slot : tasks'[r] = IF r = s THEN t ELSE tasks[r]
  BY <1>0, <1>3, <1>4, <1>5, <1>6, TaskSet
<1>8. Carried
  BY <1>3, <1>7 DEF Carried, AddDone
<1>9. QED
  BY <1>0, <1>1, <1>7, <1>8, GoesOn DEF ShellOK

\* The handler looks for its validator in the dashboard it got.
LEMMA WaitLooksStep ==
  ASSUME Inv, NEW s \in Slot, WaitLooks(s) PROVE StepOK
<1>0. ShellOK /\ TasksOK
  BY DEF Inv, ShellOK
<1>1. /\ UNCHANGED <<monitored, ticking, published, profile, active, importing, syncRef, chosen>>
      /\ data' = tasks[s].latest /\ At(s, "look")
  BY DEF WaitLooks, SetData, taskRest, ui
<1>2. syncDue' \in BOOLEAN
  BY Zenon DEF WaitLooks, SetData
<1>3. tasks[s].latest \in Payload /\ tasks[s].latest # None
  BY <1>0, <1>1 DEF TasksOK, WaitInv, Task
<1>4. PICK done \in Synchronized(tasks[s]) : Enter(s, IF done THEN "invalidate" ELSE "sleep")
  BY DEF WaitLooks
<1>5. done => Lists(data', tasks[s].who)
  BY <1>1, <1>4 DEF Synchronized
<1> DEFINE phase == IF done THEN "invalidate" ELSE "sleep"
<1>6. /\ phase \in {"invalidate", "sleep"} /\ phase \in Phase \ {"look"} /\ Enter(s, phase)
      /\ phase = "invalidate" => done
  BY <1>4 DEF Phase
<1> HIDE DEF phase
<1>7. Belongs(tasks[s].kind, phase)
  BY <1>0, <1>1, <1>6, Busy DEF At, Belongs
<1>8. TasksOK' /\ Carried /\ fetch' \in Fetch
  BY <1>3, <1>5, <1>6, <1>7, EnterStep
<1>9. ShellOK'
  BY <1>0, <1>1, <1>2, <1>3, <1>8 DEF ShellOK
<1>10. QED
  BY <1>1, <1>3, <1>8, <1>9 DEF StepOK, DataMoves, ChosenMoves

\* A handler polls again, or goes on to the second phase of its refresh.
LEMMA PassesStep ==
  ASSUME Inv, NEW s \in Slot, WaitAgain(s) \/ InvalidateEnds(s) PROVE StepOK
<1>0. ShellOK
  BY DEF Inv
<1>1. UNCHANGED <<monitored, ticking, published, profile, data, active, importing, syncRef,
                  syncDue, chosen>>
  BY DEF WaitAgain, InvalidateEnds, taskRest, ui
<1>2. CASE WaitAgain(s)
  <2>1. At(s, "sleep") /\ Enter(s, "ask") /\ "ask" \in Phase \ {"look"}
    BY <1>2 DEF WaitAgain, Phase
  <2>2. Belongs(tasks[s].kind, "ask")
    BY <1>0, <2>1, Busy DEF At, Belongs
  <2>3. TasksOK' /\ Carried /\ fetch' \in Fetch
    BY <2>1, <2>2, EnterStep
  <2>4. QED
    BY <1>0, <1>1, <2>3, GoesOn DEF ShellOK
<1>3. CASE InvalidateEnds(s)
  <2>1. At(s, "invalidate") /\ Enter(s, "refetch") /\ "refetch" \in Phase \ {"look"}
    BY <1>3 DEF InvalidateEnds, Phase
  <2>2. tasks[s].kind = "add" /\ tasks[s].known => AddDone(s)
    BY <2>1 DEF At, AddDone
  <2>3. Belongs(tasks[s].kind, "refetch")
    BY DEF Belongs
  <2>4. TasksOK' /\ Carried /\ fetch' \in Fetch
    BY <2>1, <2>2, <2>3, EnterStep
  <2>5. QED
    BY <1>0, <1>1, <2>4, GoesOn DEF ShellOK
<1>4. QED
  BY <1>2, <1>3
-----------------------------------------------------------------------------
(***************************************************************************)
(* Tasks that end.                                                         *)
(***************************************************************************)
\* A handler that ends leaves the others alone.
LEMMA SlotFreed ==
  ASSUME ShellOK, NEW s \in Slot, tasks' = [tasks EXCEPT ![s] = NoTask]
  PROVE  TasksOK' /\ Carried
<1>1. TasksOK
  BY DEF ShellOK
<1>2. Belongs(NoTask.kind, NoTask.phase)
  BY FreeTask DEF Belongs
<1>3. TasksOK' /\ \A r \in Slot : tasks'[r] = IF r = s THEN NoTask ELSE tasks[r]
  BY <1>1, <1>2, FreeTask, TaskSet
<1>4. Carried
  BY <1>3, FreeTask DEF Carried, AddDone
<1>5. QED
  BY <1>3, <1>4

\* What the `finally' clauses leave.
LEMMA Settled ==
  ASSUME ShellOK, NEW s \in Slot, tasks[s].kind # "free",
         importing' = (IF tasks[s].kind = "add" THEN FALSE ELSE importing),
         syncRef' = (IF tasks[s].kind = "sync"
                     THEN [key |-> tasks[s].who, inFlight |-> FALSE, recent |-> TRUE]
                     ELSE syncRef)
  PROVE  importing' \in BOOLEAN /\ syncRef' \in SyncRef
<1>1. importing' \in BOOLEAN
  BY Zenon DEF ShellOK
<1>2. syncRef' \in SyncRef
  <2>1. CASE tasks[s].kind = "sync"
    <3>1. tasks[s].who \in Index
      BY <2>1 DEF ShellOK, TasksOK
    <3>2. QED
      BY <2>1, <3>1 DEF SyncRef
  <2>2. CASE tasks[s].kind # "sync"
    BY <2>2 DEF ShellOK
  <2>3. QED
    BY <2>1, <2>2
<1>3. QED
  BY <1>1, <1>2

\* A handler that ends frees its slot; an import selects its validator.
LEMMA TaskEndsStep ==
  ASSUME Inv, NEW s \in Slot, TaskEnds(s) PROVE StepOK
<1>0. ShellOK /\ TasksOK
  BY DEF Inv, ShellOK
<1> DEFINE selects == tasks[s].kind = "add" /\ tasks[s].known
<1>1. /\ UNCHANGED <<monitored, ticking, published, profile, data, fetch, syncDue>>
      /\ At(s, "refetch")
      /\ tasks' = [tasks EXCEPT ![s] = NoTask]
      /\ selects => active' = tasks[s].who /\ chosen' = tasks[s].who
      /\ ~selects => UNCHANGED <<active, chosen>>
  BY DEF TaskEnds, daemon
<1>2. importing' \in BOOLEAN /\ syncRef' \in SyncRef
  BY <1>0, Settled DEF TaskEnds, At
<1>3. TasksOK' /\ Carried
  BY <1>0, <1>1, SlotFreed
<1>4. selects => AddDone(s) /\ tasks[s].who \in Index
  BY <1>0, <1>1 DEF At, AddDone, TasksOK
<1>5. active' \in Index \union {None} /\ chosen' \in Index \union {None}
  BY <1>0, <1>1, <1>4 DEF ShellOK
<1>6. ShellOK'
  BY <1>0, <1>1, <1>2, <1>3, <1>5 DEF ShellOK
<1>7. ChosenMoves
  BY <1>1, <1>4 DEF ChosenMoves
<1>8. QED
  BY <1>1, <1>3, <1>6, <1>7 DEF StepOK, DataMoves

\* A request that fails and a wait that times out end the handler.
LEMMA FailsStep ==
  ASSUME Inv, NEW s \in Slot, RequestFails(s) \/ WaitTimesOut(s) PROVE StepOK
<1>0. ShellOK /\ TasksOK
  BY DEF Inv, ShellOK
<1>1. /\ UNCHANGED <<monitored, ticking, published, profile, fetch, active, chosen>>
      /\ tasks' = [tasks EXCEPT ![s] = NoTask] /\ tasks[s].kind # "free"
  BY DEF RequestFails, WaitTimesOut, Fails, At, daemon
<1>2. importing' \in BOOLEAN /\ syncRef' \in SyncRef
  BY <1>0, <1>1, Settled DEF RequestFails, WaitTimesOut, Fails
<1>3. TasksOK' /\ Carried
  BY <1>0, <1>1, SlotFreed
<1>4. data' = data \/ (data' = tasks[s].latest /\ data' # None)
  BY <1>0 DEF RequestFails, WaitTimesOut, SetData, TasksOK, WaitInv
<1>5. data' \in Payload \union {None}
  BY <1>0, <1>4 DEF ShellOK, TasksOK, Task
<1>6. syncDue' \in BOOLEAN
  <2>1. CASE RequestFails(s)
    BY <1>0, <2>1, Zenon DEF RequestFails, ShellOK
  <2>2. CASE WaitTimesOut(s)
    BY <2>2, Zenon DEF WaitTimesOut, SetData
  <2>3. QED
    BY <2>1, <2>2
<1>7. ShellOK'
  BY <1>0, <1>1, <1>2, <1>3, <1>5, <1>6 DEF ShellOK
<1>8. QED
  BY <1>1, <1>3, <1>4, <1>7 DEF StepOK, DataMoves, ChosenMoves
-----------------------------------------------------------------------------
(***************************************************************************)
(* Theorems.                                                               *)
(***************************************************************************)
\* The shell starts with the invariant.
LEMMA InitInv == Init => Inv
<1> SUFFICES ASSUME Init PROVE Inv
  OBVIOUS
<1>1. tasks \in [Slot -> Task] /\ \A s \in Slot : tasks[s] = NoTask
  BY FreeTask DEF Init
<1>2. TasksOK
  BY <1>1, FreeTask DEF TasksOK, WaitInv, At, Belongs
<1>3. syncDue \in BOOLEAN
  BY Zenon DEF Init
<1>4. monitored \subseteq Index /\ published \in Payload
  BY ShellAssumption DEF Init, Payload
<1>5. /\ ticking = None /\ profile \in Index \union {None} /\ active = profile /\ data = None
      /\ fetch = Idle /\ importing = FALSE /\ moves = 0 /\ chosen = None /\ raced = {}
      /\ syncRef = [key |-> None, inFlight |-> FALSE, recent |-> FALSE]
  BY DEF Init
<1>6. syncRef \in SyncRef
  BY <1>5 DEF SyncRef
<1>7. ShellOK
  BY <1>2, <1>3, <1>4, <1>5, <1>6, IdleFetch DEF ShellOK
<1>8. RacedInv /\ KeptInv
  BY <1>5 DEF RacedInv, KeptInv, Lists
<1>9. DoneInv
  BY <1>1, FreeTask DEF DoneInv, AddDone
<1>10. QED
  BY <1>5, <1>7, <1>8, <1>9, ShellAssumption DEF Inv

\* All steps of a handler.
LEMMA TaskStep ==
  ASSUME Inv, NEW s \in Slot,
         SyncEffectStarts(s) \/ Advance(s) \/ WaitAgain(s) \/ RequestFails(s) \/ WaitTimesOut(s)
  PROVE  StepOK
<1>1. CASE SyncEffectStarts(s)
  BY <1>1, SyncStartsStep
<1>2. CASE Advance(s)
  BY <1>2, ResolvedStep, ImportServedStep, RetryAnsweredStep, WaitServedStep, WaitLooksStep,
     PassesStep, TaskEndsStep DEF Advance
<1>3. CASE WaitAgain(s) \/ RequestFails(s) \/ WaitTimesOut(s)
  BY <1>3, PassesStep, FailsStep
<1>4. QED
  BY <1>1, <1>2, <1>3

\* Every step keeps the invariant.
LEMMA StepInv == Inv /\ [Next]_vars => Inv'
<1> SUFFICES ASSUME Inv, [Next]_vars PROVE Inv'
  OBVIOUS
<1>1. CASE Move /\ Note
  <2>1. moves' \in 0..MaxMoves
    BY <1>1, ShellAssumption DEF Inv, Move
  <2>2. QED
    BY <1>1, <2>1, MoveStep, StepKeeps
<1>2. CASE Step /\ Quiet
  <2>1. Note /\ moves' \in 0..MaxMoves
    BY <1>2 DEF Quiet, Inv
  <2>2. StepOK
    BY <1>2, DaemonStep, QueryStep, SelectStep, AttemptStep, TaskStep DEF Step
  <2>3. QED
    BY <2>1, <2>2, StepKeeps
<1>3. CASE UNCHANGED vars
  <2>1. UNCHANGED <<monitored, ticking, published, profile, data, fetch, active, importing,
                    syncRef, syncDue, tasks, moves, chosen, raced>>
    BY <1>3 DEF vars, daemon, ui
  <2>2. ShellOK' /\ RacedInv' /\ KeptInv' /\ DoneInv'
    BY <2>1 DEF Inv, ShellOK, TasksOK, WaitInv, At, RacedInv, Threat, Lists, KeptInv, DoneInv,
       AddDone
  <2>3. QED
    BY <2>1, <2>2 DEF Inv
<1>4. QED
  BY <1>1, <1>2, <1>3 DEF Next

\* The inductive invariant holds in every state of the shell.
THEOREM Invariance == Spec => []Inv
<1>1. QED
  BY InitInv, StepInv, PTL DEF Spec

\* Every variable of the shell keeps its type.
THEOREM TypeCorrect == Spec => []TypeOK
<1>1. QED
  BY Invariance, InvTypes, PTL

\* The validator an import ended with stays selected until the operator
\* switches, whatever polls, refreshes, other tasks and the effects do, unless
\* an older dashboard was still on its way (importValidatorFromInput,
\* waitForValidatorSnapshot and the selection effect of MainShell).
THEOREM ImportsKeepSelection == Spec => []ImportKeepsSelection
<1>1. Inv => ImportKeepsSelection
  BY DEF Inv, KeptInv, ImportKeepsSelection
<1>2. QED
  BY <1>1, Invariance, PTL
=============================================================================
