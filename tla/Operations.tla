----------------------------- MODULE Operations -----------------------------
(***************************************************************************)
(* The action center: the forms of OperationsPage, the local preflight of  *)
(* lib/eligibility.ts, and the daemon's handlers that read the chain,      *)
(* check, sign and submit (MonitorEngine).                                 *)
(*                                                                         *)
(* A request takes several steps: the daemon reads a record of the chain   *)
(* for each item, decides, and posts at the end.  The chain moves between  *)
(* these steps.  The client may give up (timeout) while the daemon goes    *)
(* on; the page may be left, which forgets its busy flags, and come back.  *)
(*                                                                         *)
(* Abstractions.  The fields of a form can hold anything, because the      *)
(* operator types into them and a switch of the active validator fills     *)
(* them only in part; a submission has any values that pass the form's     *)
(* checks.  A public key is named by the validator whose signing key it    *)
(* belongs to, or it is a withdrawal key; a private key by its public key. *)
(* Hex formats, addresses, roots, domains and signatures are left out, as  *)
(* is the content of a signed raw transaction, which nothing looks into.   *)
(***************************************************************************)
EXTENDS Integers, FiniteSets

CONSTANTS
  Validator,
  WithdrawalKey,   \* the BLS withdrawal key of a validator
  Item,            \* bound: what may be typed: [index, pubkey, key]
  Batch,           \* bound: sets of items typed into the batch form
  ExecRequest,     \* bound: [action, index, target, amount]
  Genesis,         \* the chain's records at the start
  MaxSends,        \* endpoints of the provider times attempts per endpoint
  MaxRequests,     \* bound: submissions
  MaxChain,        \* bound: changes of the chain
  None

Status == {"pending_queued", "active_ongoing", "active_exiting", "active_slashed",
           "exited_unslashed", "exited_slashed", "withdrawal_possible", "withdrawal_done"}
Record == [status : Status, slashed : BOOLEAN, type : {"0x00", "0x01", "0x02"},
           balance : Nat]
Action == {"convert", "consolidate", "top_up", "full_exit", "partial_withdraw"}
Form == {"bls", "batch", "exit", "exec", "keygen"}
Key == Validator \union {WithdrawalKey[v] : v \in Validator}
MinBalance == 32

ASSUME OperationsAssumption ==
  /\ MaxRequests \in Nat /\ MaxChain \in Nat /\ MaxSends \in Nat \ {0}
  /\ Item \subseteq [index : Validator, pubkey : Key, key : Key]
  /\ \A b \in Batch : b \subseteq [index : Validator, pubkey : Key, key : Key]
  /\ ExecRequest \subseteq [action : Action, index : Validator,
                            target : Validator \union {None}, amount : Nat]
  /\ Genesis \in [Validator -> Record]
  /\ \A v \in Validator : Genesis[v].status \in {"active_slashed", "exited_slashed"}
                            => Genesis[v].slashed

VARIABLES
  chain,      \* records of the chain's head
  changes,    \* counts towards MaxChain
  shown,      \* the snapshots of the dashboard the page shows
  active,     \* the selected validator
  open,       \* the page is mounted
  busy,       \* signBusy, batchBusy, exitBusy, executionBusy, keygenBusy
  result,     \* what each form shows: None, or the outcome of a request
  work,       \* requests the daemon has not answered
  asked,      \* history: requests
  posted,     \* history: <<id, n, item>> taken by a node at the request's n-th send
  confirmed   \* history: ids of requests that a node answered with success

page == <<shown, active, open, busy, result>>
vars == <<chain, changes, page, work, asked, posted, confirmed>>

Ids == 1..MaxRequests
Own(v) == [index |-> v, pubkey |-> v, key |-> v]
Typed == Item \union (UNION Batch) \union {Own(v) : v \in Validator}
Outcome == [id : Ids, kind : {"dry", "submitted", "error"}]
\* listening: the page waits for the answer.  read: items checked so far.
\* sends: bodies sent to a node so far.
Work == [id : Ids, form : Form, items : SUBSET Typed, exec : ExecRequest \union {None},
         dry : BOOLEAN, listening : BOOLEAN, read : SUBSET Typed, sends : 0..MaxSends,
         phase : {"check", "post", "posted", "refused"}]

\* What is read was asked for; a request that may still send has a send left.
WellFormed(w) ==
  /\ w.read \subseteq w.items
  /\ w.phase \in {"check", "post"} => w.sends < MaxSends

TypeOK ==
  /\ chain \in [Validator -> Record] /\ shown \in [Validator -> Record]
  /\ changes \in 0..MaxChain
  /\ active \in Validator \union {None}
  /\ open \in BOOLEAN
  /\ busy \in [Form -> BOOLEAN]
  /\ result \in [Form -> Outcome \union {None}]
  /\ work \subseteq Work
  /\ \A w \in work : WellFormed(w)
  /\ \A r \in asked : r.id \in Ids
  /\ \A p \in posted : p[1] \in Ids
  /\ confirmed \subseteq Ids

Init ==
  /\ chain = Genesis /\ shown = Genesis /\ changes = 0
  /\ active \in Validator \union {None}
  /\ open = TRUE
  /\ busy = [f \in Form |-> FALSE] /\ result = [f \in Form |-> None]
  /\ work = {} /\ asked = {} /\ posted = {} /\ confirmed = {}
-----------------------------------------------------------------------------
(***************************************************************************)
(* lib/eligibility.ts.  The status is searched for substrings.             *)
(***************************************************************************)
Slashed == {"active_slashed", "exited_unslashed", "exited_slashed"}   \* includes('slashed')
Exited == {"exited_unslashed", "exited_slashed", "withdrawal_done"}
ActiveStatus == {"active_ongoing", "active_exiting", "active_slashed"}

deriveLifecycle(r) ==
  CASE r.slashed \/ r.status \in Slashed -> "slashed"
    [] r.status = "pending_queued" -> "pending"
    [] r.status = "active_exiting" -> "exiting"
    [] r.status \in Exited -> "exited"
    [] r.status = "active_ongoing" -> "active"
    [] OTHER -> "unknown"

\* Mutant of LocalEligible: the recommended 0x02 is required of a top-up.
LocalEligibleCompounding(r, action) ==
  LET life == deriveLifecycle(r)
  IN  CASE action = "convert" -> r.type = "0x01" /\ life = "active"
        [] action = "consolidate" -> r.type \in {"0x01", "0x02"} /\ life = "active"
        [] action = "top_up" -> r.type = "0x02" /\ life = "active"
        [] action = "full_exit" -> r.type \in {"0x01", "0x02"} /\ life = "active"
        [] action = "partial_withdraw" -> r.type = "0x02" /\ r.balance > MinBalance

\* deriveInventory, for the actions of the execution form.
LocalEligible(r, action) ==
  LET life == deriveLifecycle(r)
  IN  CASE action = "convert" -> r.type = "0x01" /\ life = "active"
        [] action = "consolidate" -> r.type \in {"0x01", "0x02"} /\ life = "active"
        [] action = "top_up" -> life = "active"
        [] action = "full_exit" -> /\ r.type \in {"0x01", "0x02"}
                                   /\ life \notin {"slashed", "exiting", "exited"}
        [] action = "partial_withdraw" -> r.type = "0x02" /\ r.balance > MinBalance

\* executionLocalPreflight: only for the active validator.
Preflight(e) == e.index = active => LocalEligible(shown[e.index], e.action)
-----------------------------------------------------------------------------
(***************************************************************************)
(* The daemon's own checks.                                                *)
(***************************************************************************)

\* submit_execution_action on the records of source and target.
Eligible(r, e, target) ==
  LET activeLike == r.status \in ActiveStatus \ {"active_exiting"}
      leaving == r.status = "active_exiting" \/ r.status \in Exited
  IN  CASE e.action = "convert" -> r.type = "0x01" /\ ~r.slashed /\ activeLike
        [] e.action = "consolidate" -> /\ r.type \in {"0x01", "0x02"}
                                       /\ target.type = "0x02"
                                       /\ ~r.slashed /\ activeLike
        [] e.action = "top_up" -> ~r.slashed /\ activeLike
        [] e.action = "full_exit" -> r.type \in {"0x01", "0x02"} /\ ~r.slashed /\ ~leaving
        [] e.action = "partial_withdraw" -> /\ r.type = "0x02" /\ ~r.slashed
                                            /\ e.amount > 0
                                            /\ r.balance - e.amount >= MinBalance
                                            /\ ~leaving

\* sign_and_submit_bls_to_execution_change for one item.
BlsAccepts(i) ==
  /\ i.pubkey = i.index
  /\ chain[i.index].type = "0x00"
  /\ i.key = i.pubkey

\* sign_and_submit_consensus_exit; the epoch checks may refuse as well.
ExitAccepts(i) ==
  /\ i.pubkey = i.index
  /\ chain[i.index].status \in ActiveStatus \ {"active_exiting"}
  /\ ~chain[i.index].slashed
  /\ i.key = i.pubkey

TargetRecord(e) == IF e.target = None THEN None ELSE chain[e.target]

Accepts(w, i) ==
  CASE w.form \in {"bls", "batch"} -> BlsAccepts(i)
    [] w.form = "exit" -> ExitAccepts(i)
    [] w.form = "exec" ->
         Eligible(chain[w.exec.index], w.exec, TargetRecord(w.exec))
    [] OTHER -> TRUE
-----------------------------------------------------------------------------
(***************************************************************************)
(* The page.                                                               *)
(***************************************************************************)
NextId == Cardinality(asked) + 1

\* A submit handler that passed its checks, up to the await.
Send(f, items, e, dry) ==
  /\ open /\ ~busy[f]
  /\ NextId \in Ids
  /\ busy' = [busy EXCEPT ![f] = TRUE]
  /\ result' = [result EXCEPT ![f] = IF f = "keygen" THEN @ ELSE None]
  /\ work' = work \union {[id |-> NextId, form |-> f, items |-> items, exec |-> e,
                           dry |-> dry, listening |-> TRUE, read |-> {}, sends |-> 0,
                           phase |-> "check"]}
  /\ asked' = asked \union {[id |-> NextId, items |-> items, dry |-> dry]}
  /\ UNCHANGED <<chain, changes, shown, active, open, posted, confirmed>>

SubmitBlsChange(i, dry) == Send("bls", {i}, None, dry)

SubmitBlsBatch(items, dry) ==
  /\ items # {}
  /\ Send("batch", items, None, dry)

SubmitConsensusExit(i, dry) == Send("exit", {i}, None, dry)

\* A consolidation names another validator, a partial withdrawal an amount.
SubmitExecutionAction(e, dry) ==
  /\ e.action = "consolidate" => e.target # None /\ e.target # e.index
  /\ e.action = "partial_withdraw" => e.amount > 0
  /\ Preflight(e)
  /\ Send("exec", {Own(e.index)}, e, dry)

GenerateKeys == Send("keygen", {}, None, TRUE)

\* Answers and errors of requests the page still waits for.
Show(w, outcome) ==
  /\ busy' = IF w.listening THEN [busy EXCEPT ![w.form] = FALSE] ELSE busy
  /\ result' = IF w.listening THEN [result EXCEPT ![w.form] = outcome] ELSE result

\* The client's timeout; the daemon may go on with the request.
TimesOut(w) ==
  /\ w.listening
  /\ Show(w, [id |-> w.id, kind |-> "error"])
  /\ work' = (work \ {w}) \union {[w EXCEPT !.listening = FALSE]}
  /\ UNCHANGED <<chain, changes, shown, active, open, asked, posted, confirmed>>

\* Mutant of LeavePage: answers still reach the page that is opened next.
LeavePageListening ==
  /\ open
  /\ open' = FALSE
  /\ busy' = [f \in Form |-> FALSE] /\ result' = [f \in Form |-> None]
  /\ UNCHANGED <<work, chain, changes, shown, active, asked, posted, confirmed>>

\* Another tab: the page's state is gone, its requests are not.
LeavePage ==
  /\ open
  /\ open' = FALSE
  /\ busy' = [f \in Form |-> FALSE] /\ result' = [f \in Form |-> None]
  /\ work' = {[w EXCEPT !.listening = FALSE] : w \in work}
  /\ UNCHANGED <<chain, changes, shown, active, asked, posted, confirmed>>

OpenPage ==
  /\ ~open
  /\ open' = TRUE
  /\ UNCHANGED <<chain, changes, shown, active, busy, result, work, asked, posted, confirmed>>

SwitchValidator(v) ==
  /\ v # active
  /\ active' = v
  /\ UNCHANGED <<chain, changes, shown, open, busy, result, work, asked, posted, confirmed>>

\* The dashboard is polled.
Refresh ==
  /\ shown # chain
  /\ shown' = chain
  /\ UNCHANGED <<chain, changes, active, open, busy, result, work, asked, posted, confirmed>>
-----------------------------------------------------------------------------
(***************************************************************************)
(* The daemon.                                                             *)
(***************************************************************************)
daemonRest == <<chain, changes, page, asked>>
Becomes(w, v) == work' = (work \ {w}) \union {v}

\* One item is read from the chain and checked; the first one that is not
\* acceptable ends the request.
Check(w) ==
  /\ w.phase = "check"
  /\ \E i \in w.items \ w.read :
       Becomes(w, IF Accepts(w, i)
                  THEN [w EXCEPT !.read = @ \union {i},
                                 !.phase = IF w.items = w.read \union {i} THEN "post" ELSE @]
                  ELSE [w EXCEPT !.phase = "refused"])
  /\ UNCHANGED <<daemonRest, posted, confirmed>>

\* What the chain holds when a node takes the body of the next send.
Taken(w) == posted \union ({w.id} \X {w.sends + 1} \X w.items)

\* Mutant of Post: after a success the loop over the endpoints goes on.
PostToAll(w) ==
  /\ w.phase = "post"
  /\ IF w.dry
     THEN UNCHANGED <<posted, confirmed>> /\ Becomes(w, [w EXCEPT !.phase = "posted"])
     ELSE /\ posted' = Taken(w)
          /\ confirmed' = confirmed \union {w.id}
          /\ Becomes(w, [w EXCEPT !.sends = @ + 1,
                                  !.phase = IF w.sends + 1 < MaxSends THEN @ ELSE "posted"])
  /\ UNCHANGED daemonRest

\* A dry run sends nothing.  Otherwise one body with all items is sent, and the
\* success that a node answers ends the loop.
Post(w) ==
  /\ w.phase = "post"
  /\ IF w.dry
     THEN UNCHANGED <<posted, confirmed>> /\ Becomes(w, [w EXCEPT !.phase = "posted"])
     ELSE /\ posted' = Taken(w)
          /\ confirmed' = confirmed \union {w.id}
          /\ Becomes(w, [w EXCEPT !.sends = @ + 1, !.phase = "posted"])
  /\ UNCHANGED daemonRest

\* An error, a timeout or a lost answer: whether the node has taken the body or
\* not, the same body goes to the next endpoint, until all attempts are used.
Resend(w) ==
  /\ w.phase = "post" /\ ~w.dry
  /\ posted' \in {posted, Taken(w)}
  /\ Becomes(w, [w EXCEPT !.sends = @ + 1,
                          !.phase = IF w.sends + 1 < MaxSends THEN @ ELSE "refused"])
  /\ UNCHANGED <<daemonRest, confirmed>>

\* A success whose body cannot be decoded ends the request with an error.
Undecodable(w) ==
  /\ w.phase = "post" /\ ~w.dry
  /\ posted' = Taken(w)
  /\ Becomes(w, [w EXCEPT !.sends = @ + 1, !.phase = "refused"])
  /\ UNCHANGED <<daemonRest, confirmed>>

\* Before anything is sent: an unreachable node, a failing epoch check.
Fail(w) ==
  /\ w.phase \in {"check", "post"} /\ w.sends = 0
  /\ Becomes(w, [w EXCEPT !.phase = "refused"])
  /\ UNCHANGED <<daemonRest, posted, confirmed>>

\* New key pairs, for nothing on the chain.
Generate(w) ==
  /\ w.form = "keygen" /\ w.phase = "check"
  /\ Becomes(w, [w EXCEPT !.phase = "posted"])
  /\ UNCHANGED <<daemonRest, posted, confirmed>>

\* The answer reaches the page, or nobody.
Answer(w) ==
  /\ w.phase \in {"posted", "refused"}
  /\ Show(w, [id |-> w.id,
              kind |-> IF w.phase = "refused" THEN "error"
                       ELSE IF w.dry THEN "dry" ELSE "submitted"])
  /\ work' = work \ {w}
  /\ UNCHANGED <<chain, changes, shown, active, open, asked, posted, confirmed>>

\* The connection of a client that gave up is closed: the handler ends.
Dropped(w) ==
  /\ ~w.listening /\ w.phase \in {"check", "post"}
  /\ work' = work \ {w}
  /\ UNCHANGED <<daemonRest, posted, confirmed>>
-----------------------------------------------------------------------------
\* The chain moves on: one record changes.
ChainStep(v) ==
  /\ changes < MaxChain
  /\ changes' = changes + 1
  /\ LET r == chain[v]
     IN  \/ /\ r.status = "active_ongoing"
            /\ chain' = [chain EXCEPT ![v].status = "active_exiting"]
         \/ /\ r.status = "active_ongoing"
            /\ chain' = [chain EXCEPT ![v].status = "active_slashed", ![v].slashed = TRUE]
         \/ /\ r.status \in {"active_exiting", "active_slashed"}
            /\ chain' = [chain EXCEPT ![v].status =
                           IF r.slashed THEN "exited_slashed" ELSE "exited_unslashed"]
         \/ /\ r.status \in {"exited_unslashed", "exited_slashed"}
            /\ chain' = [chain EXCEPT ![v].status = "withdrawal_possible"]
         \/ /\ r.status = "withdrawal_possible"
            /\ chain' = [chain EXCEPT ![v].status = "withdrawal_done", ![v].balance = 0]
         \/ /\ r.type = "0x00"
            /\ chain' = [chain EXCEPT ![v].type = "0x01"]
         \/ /\ r.type = "0x01" /\ r.status = "active_ongoing"
            /\ chain' = [chain EXCEPT ![v].type = "0x02"]
         \/ /\ r.type = "0x02" /\ r.status = "active_ongoing"
            /\ chain' = [chain EXCEPT ![v].balance = @ + 2]
  /\ UNCHANGED <<page, work, asked, posted, confirmed>>

Submit(dry) ==
  \/ \E i \in Item : SubmitBlsChange(i, dry) \/ SubmitConsensusExit(i, dry)
  \/ \E items \in Batch : SubmitBlsBatch(items, dry)
  \/ \E e \in ExecRequest : SubmitExecutionAction(e, dry)

Handle(w) ==
  \/ Check(w)
  \/ Post(w)
  \/ Resend(w)
  \/ Undecodable(w)
  \/ Fail(w)
  \/ Generate(w)
  \/ Answer(w)

Next ==
  \/ \E dry \in BOOLEAN : Submit(dry)
  \/ GenerateKeys
  \/ \E w \in work : Handle(w) \/ TimesOut(w) \/ Dropped(w)
  \/ LeavePage
  \/ OpenPage
  \/ Refresh
  \/ \E v \in Validator \union {None} : SwitchValidator(v)
  \/ \E v \in Validator : ChainStep(v)

Spec == Init /\ [][Next]_vars
-----------------------------------------------------------------------------
(***************************************************************************)
(* Properties.                                                             *)
(***************************************************************************)

\* What reaches the chain was asked for without dry run, a batch as a whole, with
\* index, public key and private key of one validator; a body is sent again only
\* as long as no node has answered it with success, at most MaxSends times; also
\* when answers are lost, the page is left, the client times out and the chain
\* moves between the steps (MonitorEngine's submit handlers on
\* beacon_post_value and execution_value).
Promise == INSTANCE SubmissionPromise
KeepsPromise == Promise!Spec

\* What a form reports is true and recent: "submitted" means that the request
\* was posted, "dry run" that it was not, and no later request of the form has
\* been overtaken by the answer to an earlier one (OperationsPage).
ReportIsTrue ==
  \A f \in Form : result[f] # None =>
    /\ open
    /\ result[f].kind = "submitted" => \E p \in posted : p[1] = result[f].id
    /\ result[f].kind = "dry" => \A p \in posted : p[1] # result[f].id
    /\ \A w \in work : w.listening /\ w.form = f => w.id > result[f].id

\* The local preflight never withholds a request that the daemon would accept
\* on the same record, whatever the chain has done to the validator
\* (deriveInventory against submit_execution_action).
PreflightNeverBlocks ==
  \A a \in Action, v, target \in Validator :
    LET e == [action |-> a, index |-> v, target |-> target, amount |-> 1]
    IN  Eligible(chain[v], e, TargetRecord(e)) => LocalEligible(chain[v], a)

\* HelpCenter: the change from 0x00 to 0x01 is signed with the BLS withdrawal
\* key.  The daemon compares that key with the validator's signing key.
WithdrawalKeyIsAccepted ==
  \A w \in work : w.form = "bls" /\ w.phase = "check" =>
    \A i \in w.items :
      /\ i.pubkey = WithdrawalKey[i.index] /\ i.key = i.pubkey
      /\ chain[i.index].type = "0x00"
      => BlsAccepts(i)
=============================================================================
