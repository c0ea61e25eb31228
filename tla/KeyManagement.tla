--------------------------- MODULE KeyManagement ---------------------------
(***************************************************************************)
(* The key management page (KeyManagementPage.tsx) and the daemon's fan-out *)
(* of its requests to the validator clients (keymanager.rs).               *)
(*                                                                         *)
(* The page lists the keys of the selected client, or of all of them, and  *)
(* imports or deletes keys there.  A refresh asks for the keystores and    *)
(* for the remote keys at once and shows both when both have come; it is   *)
(* bound to the client selected when it began.  A mutation is a job of the *)
(* daemon: one client after the other, ended by the first that fails.  The *)
(* page may give up on a job (request timeout, another page); the job then *)
(* goes on or is dropped.                                                  *)
(*                                                                         *)
(* A client that fails has applied the request or has not; a client may    *)
(* also answer with success and say of the key that it was not done, which *)
(* the daemon passes on (KeymanagerMutationItem).  Left out: the           *)
(* list of clients itself (fixed by the configuration), changes made to    *)
(* the clients by others, and that one listing reads the clients one after *)
(* the other.  The text of a form is a key, a Malformed input (counts that *)
(* differ, a line without URL, nothing at all) or, once emptied, None.     *)
(***************************************************************************)
EXTENDS Integers, FiniteSets

CONSTANTS
  Clients,       \* number of configured keymanager endpoints
  Key,
  Malformed,     \* an input no client is asked about
  Used,          \* bound: the forms the operator uses
  Slots,         \* bound: refreshes, and jobs, under way at once
  MaxMoves,      \* bound: selections, submissions, visits
  None

ASSUME KeyManagementAssumption ==
  /\ Clients \in Nat /\ Slots \in Nat /\ MaxMoves \in Nat
  /\ Malformed \notin Key
  /\ Used \subseteq [kind : {"keystore", "remote"}, op : {"import", "delete"}]
  /\ None \notin Key \union {Malformed} /\ None \notin 0..Clients

VARIABLES
  keys,          \* clients: the keys of each kind they hold
  jobs,          \* daemon: mutations being served
  selected,      \* selectedEndpoint; 0 is "All configured endpoints"
  shown,         \* keystores and remoteKeys
  loading,       \* isLoading
  busy,          \* isBusy
  error,
  form,          \* the text of each form
  report,        \* mutationResult.applied: <<client, done>>
  refreshes,     \* calls of refresh under way
  moves,         \* counts towards MaxMoves
  crossed,       \* history: a refresh was begun beside another one or beside a job
  overlapped     \* history: two jobs were served at once

page == <<selected, shown, loading, busy, error, form, report, refreshes>>
vars == <<keys, jobs, page, moves, crossed, overlapped>>
-----------------------------------------------------------------------------
All == 0
Client == 1..Clients
Slot == 1..Slots
KindOfKey == {"keystore", "remote"}
Form == [kind : KindOfKey, op : {"import", "delete"}]
Record == Client \X Key

Targets(e) == IF e = All THEN Client ELSE {e}
Listing(kind, e) == {r \in Record : r[1] \in Targets(e) /\ r[2] \in keys[r[1]][kind]}

\* applied: what the clients asked so far said of the key.
NoJob == [form |-> None, key |-> None, arg |-> All, next |-> 0, applied |-> {},
          heard |-> FALSE]
NoRefresh == [arg |-> None, after |-> FALSE, list |-> [k \in KindOfKey |-> None]]
Refresh(e, after) == [NoRefresh EXCEPT !.arg = e, !.after = after]
Lists == (SUBSET Record) \union {None}

TypeOK ==
  /\ keys \in [Client -> [KindOfKey -> SUBSET Key]]
  /\ jobs \in [Slot -> {NoJob} \union
                 [form : Form, key : Key \union {Malformed}, arg : 0..Clients,
                  next : 1..(Clients + 1), applied : SUBSET (Client \X BOOLEAN),
                  heard : BOOLEAN]]
  /\ selected \in 0..Clients
  /\ shown \in [KindOfKey -> SUBSET Record]
  /\ loading \in BOOLEAN /\ busy \in BOOLEAN /\ error \in BOOLEAN
  /\ form \in [Form -> Key \union {Malformed, None}]
  /\ report \in SUBSET (Client \X BOOLEAN)
  /\ refreshes \in [Slot -> [arg : 0..Clients \union {None}, after : BOOLEAN,
                             list : [KindOfKey -> Lists]]]
  /\ moves \in 0..MaxMoves
  /\ crossed \in BOOLEAN /\ overlapped \in BOOLEAN

Serving == {j \in Slot : jobs[j] # NoJob}

\* refresh() for client e in the first free slot; `after' if a mutation awaits it, `rest' are
\* the calls already under way.
BeginRefresh(s, e, after, rest, serving) ==
  /\ rest[s].arg = None /\ \A t \in 1..(s - 1) : rest[t].arg # None
  /\ refreshes' = [rest EXCEPT ![s] = Refresh(e, after)]
  /\ loading' = TRUE /\ error' = FALSE
  /\ crossed' = (serving # {} \/ \E t \in Slot : rest[t].arg # None)

\* The page is mounted: nothing shown yet, the first refresh begins.
Mount(s) ==
  /\ selected' = All /\ shown' = [k \in KindOfKey |-> {}]
  /\ busy' = FALSE /\ form' = [f \in Form |-> None] /\ report' = {}
  /\ BeginRefresh(s, All, FALSE, [t \in Slot |-> NoRefresh], Serving)

Init ==
  /\ keys = [c \in Client |-> [k \in KindOfKey |-> {}]]
  /\ jobs = [s \in Slot |-> NoJob]
  /\ selected = All /\ shown = [k \in KindOfKey |-> {}]
  /\ loading = TRUE /\ busy = FALSE /\ error = FALSE
  /\ form = [f \in Form |-> None] /\ report = {}
  /\ refreshes = [s \in Slot |-> IF s = 1 THEN Refresh(All, FALSE) ELSE NoRefresh]
  /\ moves = 0 /\ crossed = FALSE /\ overlapped = FALSE

Move == moves < MaxMoves /\ moves' = moves + 1
-----------------------------------------------------------------------------
(***************************************************************************)
(* Refreshes.                                                              *)
(***************************************************************************)

\* Another client: the effect refreshes with the new endpointArg.
Select(e) ==
  /\ Move /\ ~busy /\ e # selected
  /\ selected' = e
  /\ \E s \in Slot : BeginRefresh(s, e, FALSE, refreshes, Serving)
  /\ UNCHANGED <<keys, jobs, shown, busy, form, report, overlapped>>

ClickRefresh ==
  /\ Move /\ ~loading /\ ~busy
  /\ \E s \in Slot : BeginRefresh(s, selected, FALSE, refreshes, Serving)
  /\ UNCHANGED <<keys, jobs, selected, shown, busy, form, report, overlapped>>

\* The daemon has asked every client it had to.
ListServed(s, kind) ==
  /\ refreshes[s].arg # None /\ refreshes[s].list[kind] = None
  /\ refreshes' = [refreshes EXCEPT ![s].list[kind] = Listing(kind, refreshes[s].arg)]
  /\ UNCHANGED <<keys, jobs, selected, shown, loading, busy, error, form, report, moves,
                 crossed, overlapped>>

\* The call of refresh ends, and with it the mutation that awaited it.
RefreshEnds(s) ==
  /\ refreshes' = [refreshes EXCEPT ![s] = NoRefresh]
  /\ loading' = FALSE
  /\ busy' = (busy /\ ~refreshes[s].after)
  /\ UNCHANGED <<keys, jobs, selected, form, report, moves, crossed, overlapped>>

\* Both lists have come.
ShowLists(s) ==
  /\ refreshes[s].arg # None /\ \A k \in KindOfKey : refreshes[s].list[k] # None
  /\ shown' = refreshes[s].list
  /\ RefreshEnds(s)
  /\ UNCHANGED error

\* A client that does not answer, a timeout, a daemon that is down.
RefreshFails(s) ==
  /\ refreshes[s].arg # None
  /\ error' = TRUE
  /\ RefreshEnds(s)
  /\ UNCHANGED shown
-----------------------------------------------------------------------------
(***************************************************************************)
(* Mutations.                                                              *)
(***************************************************************************)

\* One of the four forms is filled in and submitted.  A malformed line of the
\* remote keys ends here, an empty list of them does not.
Submit(f, k) ==
  /\ Move /\ ~busy
  /\ form' = [form EXCEPT ![f] = k]
  /\ \/ /\ k = Malformed /\ f = [kind |-> "remote", op |-> "import"]
        /\ error' = TRUE /\ UNCHANGED <<jobs, busy, overlapped>>
     \/ /\ busy' = TRUE /\ error' = FALSE
        /\ \E j \in Slot \ Serving :
             /\ \A i \in 1..(j - 1) : i \in Serving
             /\ jobs' = [jobs EXCEPT ![j] = [form |-> f, key |-> k, arg |-> selected,
                                             next |-> IF selected = All THEN 1 ELSE selected,
                                             applied |-> {}, heard |-> TRUE]]
        /\ overlapped' = (overlapped \/ Serving # {})
  /\ UNCHANGED <<keys, selected, shown, loading, report, refreshes, crossed>>

\* The text fields stay editable while a job is served.  What is typed into the
\* other forms is as good as typed before they are submitted.
Edit(f, k) ==
  /\ Move /\ busy /\ k # form[f]
  /\ \E j \in Serving : jobs[j].heard /\ jobs[j].form = f
  /\ form' = [form EXCEPT ![f] = k]
  /\ UNCHANGED <<keys, jobs, selected, shown, loading, busy, error, report, refreshes,
                 crossed, overlapped>>

Apply(j, c) ==
  LET f == jobs[j].form
  IN [keys EXCEPT ![c][f.kind] = IF f.op = "import" THEN @ \union {jobs[j].key}
                                 ELSE @ \ {jobs[j].key}]

\* The fan-out of job j is not at its end.
HasNext(j) == jobs[j] # NoJob /\ jobs[j].key # Malformed /\ jobs[j].next \in Targets(jobs[j].arg)

\* The next client of the fan-out answers with success and says of the key that
\* it is done, or that it is not ("error"): the fan-out goes on in both cases.
FanOut(j) ==
  /\ HasNext(j)
  /\ \E done \in BOOLEAN :
       /\ keys' = IF done THEN Apply(j, jobs[j].next) ELSE keys
       /\ jobs' = [jobs EXCEPT ![j].next = @ + 1,
                               ![j].applied = @ \union {<<jobs[j].next, done>>}]
  /\ UNCHANGED <<page, moves, crossed, overlapped>>

\* mutate's catch, if the page still listens.
MutationFails(j) ==
  /\ busy' = (busy /\ ~jobs[j].heard)
  /\ error' = (error \/ jobs[j].heard)
  /\ UNCHANGED <<selected, shown, loading, form, report, refreshes, moves, crossed,
                 overlapped>>

\* Mutant of ClientFails: the fan-out goes on with the next client.
ClientFailsAndOthersFollow(j) ==
  /\ HasNext(j)
  /\ jobs' = [jobs EXCEPT ![j].next = @ + 1]
  /\ UNCHANGED <<keys, page, moves, crossed, overlapped>>

\* The next client fails, before or after it did what it was asked: the job
\* ends, the clients behind it are not asked.
ClientFails(j) ==
  /\ HasNext(j)
  /\ keys' \in {keys, Apply(j, jobs[j].next)}
  /\ jobs' = [jobs EXCEPT ![j] = NoJob]
  /\ MutationFails(j)

\* Counts that differ or no key at all.
Rejected(j) ==
  /\ jobs[j] # NoJob /\ jobs[j].key = Malformed
  /\ jobs' = [jobs EXCEPT ![j] = NoJob]
  /\ MutationFails(j)
  /\ UNCHANGED keys

\* The request times out in the page; the job goes on for now.
GiveUp(j) ==
  /\ jobs[j].heard
  /\ jobs' = [jobs EXCEPT ![j].heard = FALSE]
  /\ MutationFails(j)
  /\ UNCHANGED keys

\* The daemon notices that nobody listens.
Dropped(j) ==
  /\ jobs[j] # NoJob /\ ~jobs[j].heard
  /\ jobs' = [jobs EXCEPT ![j] = NoJob]
  /\ UNCHANGED <<keys, page, moves, crossed, overlapped>>

AllAsked(j) == jobs[j] # NoJob /\ jobs[j].key # Malformed /\ ~HasNext(j)

\* Mutant of MutationEnds: the lists are not read again.
MutationEndsQuietly(j) ==
  /\ AllAsked(j) /\ jobs' = [jobs EXCEPT ![j] = NoJob]
  /\ busy' = (busy /\ ~jobs[j].heard)
  /\ form' = IF jobs[j].heard THEN [form EXCEPT ![jobs[j].form] = None] ELSE form
  /\ report' = IF jobs[j].heard THEN jobs[j].applied ELSE report
  /\ UNCHANGED <<keys, selected, shown, loading, error, refreshes, moves, crossed, overlapped>>

\* Every client has answered: the statuses are shown, the form is emptied,
\* whatever it holds by now, and mutate awaits a refresh.
MutationEnds(j) ==
  /\ AllAsked(j) /\ jobs' = [jobs EXCEPT ![j] = NoJob]
  /\ IF jobs[j].heard
     THEN /\ form' = [form EXCEPT ![jobs[j].form] = None]
          /\ report' = jobs[j].applied
          /\ \E s \in Slot : BeginRefresh(s, jobs[j].arg, TRUE, refreshes, Serving \ {j})
     ELSE UNCHANGED <<form, report, refreshes, loading, error, crossed>>
  /\ UNCHANGED <<keys, selected, shown, busy, moves, overlapped>>
-----------------------------------------------------------------------------
\* The operator leaves the page and comes back to a new one.
Revisit ==
  /\ Move
  /\ \E s \in Slot : Mount(s)
  /\ jobs' = [j \in Slot |-> [jobs[j] EXCEPT !.heard = FALSE]]
  /\ UNCHANGED <<keys, overlapped>>

Answer ==
  \E s \in Slot : \/ \E k \in KindOfKey : ListServed(s, k)
                  \/ ShowLists(s) \/ RefreshFails(s)
Serve ==
  \E j \in Slot : \/ FanOut(j) \/ ClientFails(j) \/ Rejected(j)
                  \/ GiveUp(j) \/ Dropped(j) \/ MutationEnds(j)

Next ==
  \/ \E e \in 0..Clients : Select(e)
  \/ ClickRefresh \/ Revisit
  \/ \E f \in Used, k \in Key \union {Malformed} : Submit(f, k) \/ Edit(f, k)
  \/ Answer \/ Serve

Spec == Init /\ [][Next]_vars
-----------------------------------------------------------------------------
(***************************************************************************)
(* Properties.                                                             *)
(***************************************************************************)

\* At rest and without an error on display the page shows what the selected
\* clients hold, after any sequence of selections and of mutations that
\* succeed, fail half-way or time out, unless the last refresh was begun
\* beside another one or beside a job (refresh, mutate).
ListIsCurrent ==
  ~loading /\ ~busy /\ ~error /\ ~crossed /\ Serving = {} =>
    shown = [k \in KindOfKey |-> Listing(k, selected)]

Done(f, k, c) == IF f.op = "import" THEN k \in keys'[c][f.kind] ELSE k \notin keys'[c][f.kind]

\* mutate takes job j for a success.
Succeeds(j) == jobs[j].heard /\ jobs'[j] = NoJob /\ busy'

\* A mutation is taken for a success only when every selected client has answered:
\* what is shown of it names each of them, and a client that is said to have done
\* what the request asked has done it, unless two jobs were served at once; also
\* when clients fail half-way, the page gives up on earlier jobs or is entered
\* anew (mutate; import_keystores, delete_keystores and their likes for remote keys).
SuccessIsReported ==
  [][\A j \in Slot : Succeeds(j) =>
       /\ \A c \in Targets(selected) : \E done \in BOOLEAN : <<c, done>> \in report'
       /\ ~overlapped => \A c \in Client :
            <<c, TRUE>> \in report' => Done(jobs[j].form, jobs[j].key, c)]_vars

\* What the page's header says of the lists, whatever is under way.
ListIsOfSelected ==
  ~loading /\ ~busy /\ ~error =>
    \A k \in KindOfKey : \A r \in shown[k] : r[1] \in Targets(selected)

\* What an emptied form suggests: its text was carried out by the selected clients.
FormStaysUntilDone ==
  [][\A f \in Form :
       form[f] # None /\ form'[f] = None /\ busy' /\ ~overlapped =>
         \A c \in Targets(selected) : Done(f, form[f], c)]_vars
=============================================================================
