-------------------------- MODULE OperationsProofs --------------------------
(***************************************************************************)
(* Proofs about Operations: its types, the promise it implements, what its *)
(* forms report, and the local preflight against the daemon's checks.      *)
(***************************************************************************)
EXTENDS Operations, FiniteSetTheorems, TLAPS

(***************************************************************************)
(* Types.                                                                  *)
(***************************************************************************)

\* What a submission may carry has the types of the form's fields.
LEMMA TypedItems ==
  /\ \A i \in Item : {i} \in SUBSET Typed
  /\ \A b \in Batch : b \in SUBSET Typed
  /\ \A v \in Validator : {Own(v)} \in SUBSET Typed
  /\ {} \in SUBSET Typed
BY DEF Typed

\* A submit handler keeps the types.
LEMMA SendTypes ==
  ASSUME TypeOK, NEW f \in Form, NEW items \in SUBSET Typed,
         NEW e \in ExecRequest \union {None}, NEW dry \in BOOLEAN,
         Send(f, items, e, dry)
  PROVE  TypeOK'
<1> DEFINE new == [id |-> NextId, form |-> f, items |-> items, exec |-> e, dry |-> dry,
                   listening |-> TRUE, read |-> {}, sends |-> 0, phase |-> "check"]
<1>0. new \in Work /\ work' = work \union {new}
  <2>1. NextId \in Ids /\ {} \in SUBSET Typed /\ 0 \in 0..MaxSends
    BY OperationsAssumption DEF Send
  <2>2. new \in Work
    BY <2>1 DEF Work
  <2>3. QED
    BY <2>2 DEF Send
<1>1. work' \subseteq Work
  BY <1>0 DEF TypeOK
<1>2. \A w \in work' : WellFormed(w)
  BY <1>0, OperationsAssumption DEF TypeOK, WellFormed
<1>3. busy' \in [Form -> BOOLEAN] /\ result' \in [Form -> Outcome \union {None}]
  BY DEF Send, TypeOK
<1>4. \A r \in asked' : r.id \in Ids
  BY DEF Send, TypeOK
<1>5. QED
  BY <1>1, <1>2, <1>3, <1>4 DEF Send, TypeOK

\* Showing an outcome of a request keeps the types of the page.
LEMMA ShowTypes ==
  ASSUME TypeOK, NEW w \in work, NEW outcome \in Outcome, Show(w, outcome)
  PROVE  busy' \in [Form -> BOOLEAN] /\ result' \in [Form -> Outcome \union {None}]
BY DEF Show, TypeOK, Work

\* A work item that moves on keeps the types of the daemon's state.
LEMMA BecomesTypes ==
  ASSUME TypeOK, NEW w \in work, NEW v \in Work, WellFormed(v),
         work' = (work \ {w}) \union {v}
  PROVE  work' \subseteq Work /\ \A u \in work' : WellFormed(u)
BY DEF TypeOK

\* What the daemon adds to the chain's operations carries an id of a request.
LEMMA PostedTypes ==
  ASSUME TypeOK, NEW w \in work
  PROVE  \A p \in Taken(w) : p[1] \in Ids
BY DEF TypeOK, Work, Taken

\* One send of a request: a node takes the body or not; the request is done,
\* given up, or still to be sent to the next endpoint.
Sends(w) ==
  /\ w.phase = "post" /\ ~w.dry
  /\ \/ posted' = posted /\ confirmed' = confirmed
     \/ posted' = Taken(w) /\ confirmed' \in {confirmed, confirmed \union {w.id}}
  /\ \E ph \in {"post", "posted", "refused"} :
       /\ work' = (work \ {w}) \union {[w EXCEPT !.sends = @ + 1, !.phase = ph]}
       /\ ph = "post" => w.sends + 1 < MaxSends
       /\ ph = "posted" => posted' = Taken(w)
       /\ ph \in {"post", "refused"} => confirmed' = confirmed
  /\ UNCHANGED daemonRest

\* A request that has sent once more is a request.
LEMMA SentWork ==
  ASSUME NEW w \in Work, w.sends < MaxSends, NEW ph \in {"check", "post", "posted", "refused"}
  PROVE  [w EXCEPT !.sends = @ + 1, !.phase = ph] \in Work
<1>1. w.sends + 1 \in 0..MaxSends
  BY OperationsAssumption DEF Work
<1> DEFINE n == w.sends + 1
<1>2. n \in 0..MaxSends
  BY <1>1
<1> HIDE DEF n
<1>3. [w EXCEPT !.sends = n, !.phase = ph] \in Work
  BY <1>2 DEF Work
<1>4. QED
  BY <1>3 DEF n

\* The daemon's steps, with the three outcomes of a send taken together.
LEMMA HandleCases ==
  ASSUME NEW w \in work, Handle(w)
  PROVE  \/ Check(w) \/ (Post(w) /\ w.dry) \/ Sends(w)
         \/ Fail(w) \/ Generate(w) \/ Answer(w)
<1>1. CASE Post(w) /\ ~w.dry
  BY <1>1 DEF Post, Sends, Becomes
<1>2. CASE Resend(w)
  <2>1. CASE w.sends + 1 < MaxSends
    BY <1>2, <2>1 DEF Resend, Sends, Becomes
  <2>2. CASE ~(w.sends + 1 < MaxSends)
    BY <1>2, <2>2 DEF Resend, Sends, Becomes
  <2>3. QED
    BY <2>1, <2>2
<1>3. CASE Undecodable(w)
  BY <1>3 DEF Undecodable, Sends, Becomes
<1>4. QED
  BY <1>1, <1>2, <1>3 DEF Handle

\* Init has the types.
LEMMA InitTypes == Init => TypeOK
BY OperationsAssumption DEF Init, TypeOK

\* Every step keeps them.
LEMMA NextTypes == TypeOK /\ [Next]_vars => TypeOK'
<1> SUFFICES ASSUME TypeOK, [Next]_vars PROVE TypeOK'
  OBVIOUS
<1>1. ASSUME NEW dry \in BOOLEAN, Submit(dry) PROVE TypeOK'
  <2>1. CASE \E i \in Item : SubmitBlsChange(i, dry)
    BY <2>1, SendTypes, TypedItems DEF SubmitBlsChange, Form
  <2>2. CASE \E i \in Item : SubmitConsensusExit(i, dry)
    BY <2>2, SendTypes, TypedItems DEF SubmitConsensusExit, Form
  <2>3. CASE \E items \in Batch : SubmitBlsBatch(items, dry)
    BY <2>3, SendTypes, TypedItems DEF SubmitBlsBatch, Form
  <2>4. CASE \E e \in ExecRequest : SubmitExecutionAction(e, dry)
    <3>1. PICK e \in ExecRequest : SubmitExecutionAction(e, dry)
      BY <2>4
    <3>2. e.index \in Validator
      BY OperationsAssumption
    <3>3. QED
      BY <3>1, <3>2, SendTypes, TypedItems DEF SubmitExecutionAction, Form
  <2>5. QED
    BY <1>1, <2>1, <2>2, <2>3, <2>4 DEF Submit
<1>2. CASE GenerateKeys
  BY <1>2, SendTypes, TypedItems DEF GenerateKeys, Form
<1>3. ASSUME NEW w \in work, Handle(w) \/ TimesOut(w) \/ Dropped(w) PROVE TypeOK'
  <2> w \in Work /\ WellFormed(w)
    BY DEF TypeOK
  <2>1. CASE Check(w)
    <3>1. PICK i \in w.items \ w.read :
            work' = (work \ {w}) \union
              {IF Accepts(w, i)
               THEN [w EXCEPT !.read = @ \union {i},
                              !.phase = IF w.items = w.read \union {i} THEN "post" ELSE @]
               ELSE [w EXCEPT !.phase = "refused"]}
      BY <2>1 DEF Check, Becomes
    <3> DEFINE yes == [w EXCEPT !.read = @ \union {i},
                                !.phase = IF w.items = w.read \union {i} THEN "post" ELSE @]
               no == [w EXCEPT !.phase = "refused"]
    <3>2. yes \in Work /\ WellFormed(yes)
      <4>1. w.phase = "check" /\ w.sends < MaxSends
        BY <2>1 DEF Check, WellFormed
      <4>2. yes \in Work /\ yes.read = w.read \union {i} /\ yes.items = w.items
            /\ yes.sends = w.sends
        BY <4>1 DEF Work
      <4>3. QED
        BY <4>1, <4>2 DEF WellFormed
    <3>3. no \in Work /\ WellFormed(no)
      BY DEF Work, WellFormed
    <3> HIDE DEF yes, no
    <3>4. work' = (work \ {w}) \union {yes} \/ work' = (work \ {w}) \union {no}
      BY <3>1 DEF yes, no
    <3>5. work' \subseteq Work /\ \A u \in work' : WellFormed(u)
      BY <3>2, <3>3, <3>4, BecomesTypes
    <3>6. QED
      BY <2>1, <3>5 DEF Check, TypeOK, daemonRest, page
  <2>2. CASE Post(w) /\ w.dry
    <3> DEFINE v == [w EXCEPT !.phase = "posted"]
    <3>1. v \in Work /\ WellFormed(v)
      BY DEF Work, WellFormed
    <3>2. work' \subseteq Work /\ \A u \in work' : WellFormed(u)
      BY <2>2, <3>1, BecomesTypes DEF Post, Becomes
    <3>3. QED
      BY <2>2, <3>2 DEF Post, TypeOK, daemonRest, page
  <2>3. CASE Sends(w)
    <3>1. PICK ph \in {"post", "posted", "refused"} :
            /\ work' = (work \ {w}) \union {[w EXCEPT !.sends = @ + 1, !.phase = ph]}
            /\ ph = "post" => w.sends + 1 < MaxSends
      BY <2>3 DEF Sends
    <3> DEFINE v == [w EXCEPT !.sends = @ + 1, !.phase = ph]
    <3>2. w.sends \in Nat /\ w.sends < MaxSends
      BY <2>3, OperationsAssumption DEF Sends, Work, WellFormed
    <3>3. v \in Work /\ WellFormed(v)
      <4>1. v \in Work /\ v.sends = w.sends + 1 /\ v.phase = ph /\ v.read = w.read
            /\ v.items = w.items
        BY <3>2, SentWork DEF Work
      <4>2. QED
        BY <3>1, <4>1 DEF WellFormed
    <3>4. work' \subseteq Work /\ \A u \in work' : WellFormed(u)
      BY <3>1, <3>3, BecomesTypes
    <3>5. \A p \in posted' : p[1] \in Ids
      BY <2>3, PostedTypes DEF Sends, TypeOK
    <3>6. confirmed' \subseteq Ids
      BY <2>3 DEF Sends, TypeOK, Work
    <3>7. QED
      BY <2>3, <3>4, <3>5, <3>6 DEF Sends, TypeOK, daemonRest, page
  <2>9. CASE Fail(w)
    <3> DEFINE v == [w EXCEPT !.phase = "refused"]
    <3>1. v \in Work /\ WellFormed(v)
      BY DEF Work, WellFormed
    <3>2. work' \subseteq Work /\ \A u \in work' : WellFormed(u)
      BY <2>9, <3>1, BecomesTypes DEF Fail, Becomes
    <3>3. QED
      BY <2>9, <3>2 DEF Fail, TypeOK, daemonRest, page
  <2>4. CASE Generate(w)
    <3> DEFINE v == [w EXCEPT !.phase = "posted"]
    <3>1. v \in Work /\ WellFormed(v)
      BY DEF Work, WellFormed
    <3>2. work' \subseteq Work /\ \A u \in work' : WellFormed(u)
      BY <2>4, <3>1, BecomesTypes DEF Generate, Becomes
    <3>3. QED
      BY <2>4, <3>2 DEF Generate, TypeOK, daemonRest, page
  <2>5. CASE Answer(w)
    <3> DEFINE outcome == [id |-> w.id,
                           kind |-> IF w.phase = "refused" THEN "error"
                                    ELSE IF w.dry THEN "dry" ELSE "submitted"]
    <3>1. outcome \in Outcome
      BY DEF Work, Outcome
    <3>2. Show(w, outcome)
      BY <2>5 DEF Answer
    <3> HIDE DEF outcome
    <3>3. QED
      BY <2>5, <3>1, <3>2, ShowTypes DEF Answer, TypeOK
  <2>6. CASE TimesOut(w)
    <3>1. [id |-> w.id, kind |-> "error"] \in Outcome
      BY DEF Work, Outcome
    <3> DEFINE v == [w EXCEPT !.listening = FALSE]
    <3>2. v \in Work /\ WellFormed(v)
      BY DEF Work, WellFormed
    <3>3. work' \subseteq Work /\ \A u \in work' : WellFormed(u)
      BY <2>6, <3>2, BecomesTypes DEF TimesOut
    <3>4. busy' \in [Form -> BOOLEAN] /\ result' \in [Form -> Outcome \union {None}]
      BY <2>6, <3>1, ShowTypes DEF TimesOut
    <3>5. QED
      BY <2>6, <3>3, <3>4 DEF TimesOut, TypeOK
  <2>7. CASE Dropped(w)
    BY <2>7 DEF Dropped, TypeOK, daemonRest, page
  <2>8. QED
    BY <1>3, <2>1, <2>2, <2>3, <2>4, <2>5, <2>6, <2>7, <2>9, HandleCases
<1>4. CASE LeavePage
  <2>1. ASSUME NEW w \in work
        PROVE  LET v == [w EXCEPT !.listening = FALSE]
               IN  v \in Work /\ WellFormed(v)
    <3>1. w \in Work /\ WellFormed(w)
      BY DEF TypeOK
    <3>2. QED
      BY <3>1 DEF Work, WellFormed
  <2>2. QED
    BY <1>4, <2>1 DEF LeavePage, TypeOK
<1>5. CASE OpenPage
  BY <1>5 DEF OpenPage, TypeOK
<1>6. CASE Refresh
  BY <1>6 DEF Refresh, TypeOK
<1>7. ASSUME NEW v \in Validator \union {None}, SwitchValidator(v) PROVE TypeOK'
  BY <1>7 DEF SwitchValidator, TypeOK
<1>8. ASSUME NEW v \in Validator, ChainStep(v) PROVE TypeOK'
  <2>1. chain' \in [Validator -> Record]
    BY <1>8 DEF ChainStep, TypeOK, Record, Status
  <2>2. changes' \in 0..MaxChain
    BY <1>8, OperationsAssumption DEF ChainStep, TypeOK
  <2>3. QED
    BY <1>8, <2>1, <2>2 DEF ChainStep, TypeOK, page
<1>9. CASE UNCHANGED vars
  BY <1>9 DEF vars, page, TypeOK
<1>10. QED
  BY <1>1, <1>2, <1>3, <1>4, <1>5, <1>6, <1>7, <1>8, <1>9 DEF Next

\* The state of page and daemon keeps its types, for any validators, typed
\* items, batches and number of requests.
THEOREM TypeCorrect == Spec => []TypeOK
BY InitTypes, NextTypes, PTL DEF Spec
-----------------------------------------------------------------------------
(***************************************************************************)
(* The local preflight.                                                    *)
(***************************************************************************)

\* A status that says slashed belongs to a record that says so.
SlashedIsMarked ==
  \A v \in Validator : chain[v].status \in {"active_slashed", "exited_slashed"}
                       => chain[v].slashed

\* The chain keeps SlashedIsMarked.
LEMMA NextMarked ==
  ASSUME TypeOK, SlashedIsMarked, [Next]_vars PROVE SlashedIsMarked'
<1>1. ASSUME NEW v \in Validator, ChainStep(v) PROVE SlashedIsMarked'
  <2>1. ASSUME NEW u \in Validator
        PROVE  chain'[u].status \in {"active_slashed", "exited_slashed"} => chain'[u].slashed
    <3>1. chain[u] \in Record /\ chain[v] \in Record
      BY DEF TypeOK
    <3>2. CASE u # v
      BY <1>1, <3>2 DEF ChainStep, SlashedIsMarked, TypeOK
    <3>3. CASE u = v
      BY <1>1, <3>1, <3>3 DEF ChainStep, SlashedIsMarked, TypeOK, Record, Status
    <3>4. QED
      BY <3>2, <3>3
  <2>2. QED
    BY <2>1 DEF SlashedIsMarked
<1>2. CASE UNCHANGED chain
  BY <1>2 DEF SlashedIsMarked
<1>3. QED
  BY <1>1, <1>2 DEF Next, Submit, SubmitBlsChange, SubmitBlsBatch, SubmitConsensusExit,
     SubmitExecutionAction, GenerateKeys, Send, Handle, Check, Post, Resend,
         Undecodable, Fail, Generate, Answer,
     TimesOut, Dropped, LeavePage, OpenPage, Refresh, SwitchValidator, daemonRest, vars

\* On such a record the daemon's checks are at least as strict as the page's.
LEMMA PreflightIsWeaker ==
  ASSUME NEW r \in Record, r.status \in {"active_slashed", "exited_slashed"} => r.slashed,
         NEW a \in Action, NEW e, NEW target, e.action = a, e.amount = 1,
         Eligible(r, e, target)
  PROVE  LocalEligible(r, a)
<1> DEFINE life == deriveLifecycle(r)
<1>1. r.status \in {"active_ongoing", "active_slashed"} /\ ~r.slashed => life = "active"
  BY DEF deriveLifecycle, Record, Slashed, Exited
<1>2. ~r.slashed /\ r.status # "active_exiting" /\ r.status \notin Exited
        => life \notin {"slashed", "exiting", "exited"}
  BY DEF deriveLifecycle, Record, Status, Slashed, Exited
<1>3. r.balance \in Nat
  BY DEF Record
<1> HIDE DEF life
<1>4. CASE a = "convert"
  BY <1>1, <1>4 DEF Eligible, LocalEligible, ActiveStatus, life
<1>5. CASE a = "consolidate"
  BY <1>1, <1>5 DEF Eligible, LocalEligible, ActiveStatus, life
<1>6. CASE a = "top_up"
  BY <1>1, <1>6 DEF Eligible, LocalEligible, ActiveStatus, life
<1>7. CASE a = "full_exit"
  BY <1>2, <1>7 DEF Eligible, LocalEligible, life
<1>8. CASE a = "partial_withdraw"
  BY <1>3, <1>8 DEF Eligible, LocalEligible, MinBalance
<1>9. QED
  BY <1>4, <1>5, <1>6, <1>7, <1>8 DEF Action

\* The local preflight never withholds a request that the daemon would accept
\* on the same record (deriveInventory against submit_execution_action), for
\* any number of validators and any history of the chain.
THEOREM PreflightIsHarmless == Spec => []PreflightNeverBlocks
<1>1. Init => SlashedIsMarked
  BY OperationsAssumption DEF Init, SlashedIsMarked
<1>2. TypeOK /\ SlashedIsMarked => PreflightNeverBlocks
  <2> SUFFICES ASSUME TypeOK, SlashedIsMarked,
                      NEW a \in Action, NEW v \in Validator, NEW target \in Validator
               PROVE  LET e == [action |-> a, index |-> v, target |-> target, amount |-> 1]
                      IN  Eligible(chain[v], e, TargetRecord(e)) => LocalEligible(chain[v], a)
    BY DEF PreflightNeverBlocks
  <2> DEFINE e == [action |-> a, index |-> v, target |-> target, amount |-> 1]
  <2>1. chain[v] \in Record /\ e.action = a /\ e.amount = 1
    BY DEF TypeOK
  <2>2. chain[v].status \in {"active_slashed", "exited_slashed"} => chain[v].slashed
    BY DEF SlashedIsMarked
  <2> HIDE DEF e
  <2>3. Eligible(chain[v], e, TargetRecord(e)) => LocalEligible(chain[v], a)
    BY <2>1, <2>2, PreflightIsWeaker
  <2>4. QED
    BY <2>3 DEF e
<1>3. TypeOK /\ SlashedIsMarked /\ [Next]_vars => SlashedIsMarked'
  BY NextMarked
<1>4. QED
  BY <1>1, <1>2, <1>3, TypeCorrect, PTL DEF Spec
-----------------------------------------------------------------------------
(***************************************************************************)
(* The promise.                                                            *)
(***************************************************************************)

\* Requests have different ids, and the next id is new.
AskedInv ==
  /\ IsFiniteSet(asked)
  /\ \A r \in asked : r.id \in 1..Cardinality(asked)
  /\ \A r, s \in asked : r.id = s.id => r = s

\* The daemon works on a request once; until it is done, no success has been
\* answered and the chain holds only sends it has made; what it has read is good
\* to be posted.
WorkInv ==
  /\ \A w \in work : \E r \in asked : r.id = w.id /\ r.items = w.items /\ r.dry = w.dry
  /\ \A w, u \in work : w.id = u.id => w = u
  /\ \A w \in work : w.phase \in {"check", "post"} =>
       w.id \notin confirmed /\ \A p \in posted : p[1] = w.id => p[2] <= w.sends
  /\ \A w \in work : \A i \in w.items :
       i \in w.read \/ w.form \in {"exec", "keygen"} => Promise!OneValidator(i)
  /\ \A w \in work : w.phase = "post" => w.read = w.items

\* What is on the chain was asked for, not as a dry run.
PostedInv ==
  /\ \A p \in posted : p[2] \in Nat /\ \E r \in asked : r.id = p[1] /\ ~r.dry
  /\ \A c \in confirmed : \E r \in asked : r.id = c

SafeInv == AskedInv /\ WorkInv /\ PostedInv

\* The id of a new request belongs to no earlier one.
LEMMA NextIdIsNew ==
  ASSUME AskedInv PROVE NextId \in Nat /\ \A r \in asked : r.id # NextId
<1>1. Cardinality(asked) \in Nat
  BY FS_CardinalityType DEF AskedInv
<1>2. QED
  BY <1>1 DEF AskedInv, NextId

\* A submission keeps SafeInv: its id is new, and an execution action names
\* one validator.
LEMMA SendSafe ==
  ASSUME TypeOK, SafeInv, NEW f \in Form, NEW items \in SUBSET Typed,
         NEW e, NEW dry \in BOOLEAN, Send(f, items, e, dry),
         f \in {"exec", "keygen"} => \A i \in items : Promise!OneValidator(i)
  PROVE  SafeInv'
<1> DEFINE new == [id |-> NextId, form |-> f, items |-> items, exec |-> e, dry |-> dry,
                   listening |-> TRUE, read |-> {}, sends |-> 0, phase |-> "check"]
           ask == [id |-> NextId, items |-> items, dry |-> dry]
<1>1. /\ work' = work \union {new} /\ asked' = asked \union {ask}
      /\ posted' = posted /\ confirmed' = confirmed
  BY DEF Send
<1>f. /\ new.id = NextId /\ new.form = f /\ new.items = items /\ new.dry = dry
      /\ new.read = {} /\ new.phase = "check"
      /\ ask.id = NextId /\ ask.items = items /\ ask.dry = dry
  OBVIOUS
<1> HIDE DEF new, ask
<1>2. NextId \in Nat /\ \A r \in asked : r.id # NextId
  BY NextIdIsNew DEF SafeInv
<1>3. ask \notin asked
  BY <1>f, <1>2
<1>4. /\ IsFiniteSet(asked')
      /\ Cardinality(asked') = Cardinality(asked) + 1
      /\ Cardinality(asked) \in Nat
  BY <1>1, <1>3, FS_AddElement, FS_CardinalityType DEF SafeInv, AskedInv
<1>5. AskedInv'
  <2>1. \A r \in asked' : r.id \in 1..Cardinality(asked')
    BY <1>1, <1>f, <1>4 DEF SafeInv, AskedInv, NextId
  <2>2. \A r, s \in asked' : r.id = s.id => r = s
    BY <1>1, <1>f, <1>2 DEF SafeInv, AskedInv
  <2>3. QED
    BY <1>4, <2>1, <2>2 DEF AskedInv
<1>6. WorkInv'
  <2>1. \A w \in work : w.id # NextId
    BY <1>2 DEF SafeInv, WorkInv
  <2>2. NextId \notin confirmed /\ \A p \in posted : p[1] # NextId
    BY <1>2 DEF SafeInv, PostedInv
  <2>3. \A w \in work' : \E r \in asked' : r.id = w.id /\ r.items = w.items /\ r.dry = w.dry
    BY <1>f, <1>1 DEF SafeInv, WorkInv
  <2>4. \A w, u \in work' : w.id = u.id => w = u
    BY <1>f, <1>1, <2>1 DEF SafeInv, WorkInv
  <2>5. \A w \in work' : w.phase \in {"check", "post"} =>
          w.id \notin confirmed' /\ \A p \in posted' : p[1] = w.id => p[2] <= w.sends
    BY <1>f, <1>1, <2>2 DEF SafeInv, WorkInv
  <2>6. \A w \in work' : \A i \in w.items :
          i \in w.read \/ w.form \in {"exec", "keygen"} => Promise!OneValidator(i)
    BY <1>f, <1>1 DEF SafeInv, WorkInv
  <2>7. \A w \in work' : w.phase = "post" => w.read = w.items
    BY <1>f, <1>1 DEF SafeInv, WorkInv
  <2>8. QED
    BY <2>3, <2>4, <2>5, <2>6, <2>7 DEF WorkInv
<1>7. PostedInv'
  BY <1>f, <1>1 DEF SafeInv, PostedInv
<1>8. QED
  BY <1>5, <1>6, <1>7 DEF SafeInv

\* A request that moves on keeps SafeInv, if it stays the same request, posts
\* what may be posted, and has read what it claims.
LEMMA BecomesSafe ==
  ASSUME TypeOK, SafeInv, NEW w \in work, NEW v \in Work,
         v.id = w.id, v.items = w.items, v.dry = w.dry, v.form = w.form,
         work' = (work \ {w}) \union {v}, asked' = asked,
         \/ posted' = posted /\ confirmed' = confirmed
         \/ /\ posted' = Taken(w) /\ ~w.dry
            /\ confirmed' \in {confirmed, confirmed \union {w.id}},
         v.phase \in {"check", "post"} =>
           /\ w.phase \in {"check", "post"} /\ confirmed' = confirmed
           /\ v.sends >= w.sends /\ (posted' = posted \/ v.sends = w.sends + 1),
         \A i \in v.items : i \in v.read => i \in w.read \/ Promise!OneValidator(i),
         v.phase = "post" => v.read = v.items
  PROVE  SafeInv'
<1>0. w.id = w.id /\ \A u \in work : u # w => u.id # w.id
  BY DEF SafeInv, WorkInv
<1>1. AskedInv'
  BY DEF SafeInv, AskedInv
<1>s. w.sends \in Nat /\ v.sends \in Nat
  BY OperationsAssumption DEF TypeOK, Work
<1>2. \A p \in posted' : p \in posted \/ (p[1] = w.id /\ p[2] = w.sends + 1 /\ ~w.dry)
  BY DEF Taken
<1>3. PostedInv'
  <2>1. ASSUME NEW p \in posted'
        PROVE  p[2] \in Nat /\ \E r \in asked : r.id = p[1] /\ ~r.dry
    <3>1. CASE p \in posted
      BY <3>1 DEF SafeInv, PostedInv
    <3>2. CASE p[1] = w.id /\ p[2] = w.sends + 1 /\ ~w.dry
      BY <1>s, <3>2 DEF SafeInv, WorkInv
    <3>3. QED
      BY <1>2, <2>1, <3>1, <3>2
  <2>2. \A c \in confirmed' : \E r \in asked : r.id = c
    BY DEF SafeInv, PostedInv, WorkInv
  <2>3. QED
    BY <2>1, <2>2 DEF PostedInv
<1>4. WorkInv'
  <2>1. \A u \in work' : \E r \in asked' : r.id = u.id /\ r.items = u.items /\ r.dry = u.dry
    BY DEF SafeInv, WorkInv
  <2>2. \A u, x \in work' : u.id = x.id => u = x
    BY <1>0 DEF SafeInv, WorkInv
  <2>3. ASSUME NEW u \in work', u.phase \in {"check", "post"}
        PROVE  u.id \notin confirmed' /\ \A p \in posted' : p[1] = u.id => p[2] <= u.sends
    <3>1. CASE u = v
      <4>1. confirmed' = confirmed /\ w.phase \in {"check", "post"} /\ v.sends >= w.sends
        BY <2>3, <3>1
      <4>2. \A p \in posted : p[1] = w.id => p[2] \in Nat /\ p[2] <= w.sends
        BY <4>1 DEF SafeInv, WorkInv, PostedInv
      <4>3. \A p \in posted' : p[1] = w.id => p[2] <= v.sends
        BY <1>s, <1>2, <2>3, <3>1, <4>1, <4>2
      <4>4. QED
        BY <3>1, <4>1, <4>3 DEF SafeInv, WorkInv
    <3>2. CASE u \in work /\ u # w
      BY <1>0, <1>2, <2>3, <3>2 DEF SafeInv, WorkInv
    <3>3. QED
      BY <3>1, <3>2
  <2>4. \A u \in work' : \A i \in u.items :
          i \in u.read \/ u.form \in {"exec", "keygen"} => Promise!OneValidator(i)
    BY DEF SafeInv, WorkInv
  <2>5. \A u \in work' : u.phase = "post" => u.read = u.items
    BY DEF SafeInv, WorkInv
  <2>6. QED
    BY <2>1, <2>2, <2>3, <2>4, <2>5 DEF WorkInv
<1>5. QED
  BY <1>1, <1>3, <1>4 DEF SafeInv

\* One step of one request's handler keeps SafeInv.
LEMMA HandleSafe ==
  ASSUME TypeOK, SafeInv, NEW w \in work, Handle(w) \/ TimesOut(w) \/ Dropped(w)
  PROVE  SafeInv'
<1> w \in Work /\ w.read \subseteq w.items /\ w.sends \in Nat
  BY OperationsAssumption DEF TypeOK, Work, WellFormed
<1>1. CASE Check(w)
  <2>1. PICK i \in w.items \ w.read :
          work' = (work \ {w}) \union
            {IF Accepts(w, i)
             THEN [w EXCEPT !.read = @ \union {i},
                            !.phase = IF w.items = w.read \union {i} THEN "post" ELSE @]
             ELSE [w EXCEPT !.phase = "refused"]}
    BY <1>1 DEF Check, Becomes
  <2>2. w.phase = "check" /\ asked' = asked /\ posted' = posted /\ confirmed' = confirmed
    BY <1>1 DEF Check, daemonRest
  <2>3. CASE Accepts(w, i)
    <3> DEFINE v == [w EXCEPT !.read = @ \union {i},
                              !.phase = IF w.items = w.read \union {i} THEN "post" ELSE @]
    <3>1. /\ v \in Work /\ v.id = w.id /\ v.items = w.items /\ v.dry = w.dry /\ v.form = w.form
          /\ v.read = w.read \union {i} /\ v.sends = w.sends
          /\ v.phase = "post" => v.read = v.items
      BY <2>2 DEF Work
    <3>2. Promise!OneValidator(i)
      <4>1. CASE w.form \in {"bls", "batch"}
        BY <2>3, <4>1 DEF Accepts, BlsAccepts, Promise!OneValidator
      <4>2. CASE w.form = "exit"
        BY <2>3, <4>2 DEF Accepts, ExitAccepts, Promise!OneValidator
      <4>3. CASE w.form = "exec"
        BY <4>3 DEF SafeInv, WorkInv
      <4>4. CASE w.form = "keygen"
        BY <4>4 DEF SafeInv, WorkInv
      <4>5. QED
        BY <4>1, <4>2, <4>3, <4>4 DEF Work, Form
    <3>3. work' = (work \ {w}) \union {v}
      BY <2>1, <2>3
    <3> HIDE DEF v
    <3>4. \A j \in v.items : j \in v.read => j \in w.read \/ Promise!OneValidator(j)
      BY <3>1, <3>2
    <3>5. w.phase \in {"check", "post"}
      BY <2>2
    <3>6. v.sends >= w.sends
      BY <3>1
    <3>7. QED
      BY <2>2, <3>1, <3>3, <3>4, <3>5, <3>6, BecomesSafe
  <2>4. CASE ~Accepts(w, i)
    <3> DEFINE v == [w EXCEPT !.phase = "refused"]
    <3>1. /\ v \in Work /\ v.id = w.id /\ v.items = w.items /\ v.dry = w.dry /\ v.form = w.form
          /\ v.read = w.read /\ v.sends = w.sends /\ v.phase = "refused"
      BY DEF Work
    <3>2. work' = (work \ {w}) \union {v}
      BY <2>1, <2>4
    <3> HIDE DEF v
    <3>3. QED
      BY <2>2, <3>1, <3>2, BecomesSafe
  <2>5. QED
    BY <2>3, <2>4
<1>2. CASE Post(w) /\ w.dry
  <2> DEFINE v == [w EXCEPT !.phase = "posted"]
  <2>1. /\ v \in Work /\ v.id = w.id /\ v.items = w.items /\ v.dry = w.dry /\ v.form = w.form
        /\ v.read = w.read /\ v.phase = "posted"
    BY DEF Work
  <2>2. /\ work' = (work \ {w}) \union {v} /\ asked' = asked
        /\ posted' = posted /\ confirmed' = confirmed
    BY <1>2 DEF Post, Becomes, daemonRest
  <2> HIDE DEF v
  <2>3. QED
    BY <2>1, <2>2, BecomesSafe
<1>8. CASE Sends(w)
  <2>1. PICK ph \in {"post", "posted", "refused"} :
          /\ work' = (work \ {w}) \union {[w EXCEPT !.sends = @ + 1, !.phase = ph]}
          /\ ph = "post" => w.sends + 1 < MaxSends
          /\ ph \in {"post", "refused"} => confirmed' = confirmed
    BY <1>8 DEF Sends
  <2> DEFINE v == [w EXCEPT !.sends = @ + 1, !.phase = ph]
  <2>2. w.sends < MaxSends /\ w.read = w.items /\ w.phase = "post"
    BY <1>8 DEF Sends, TypeOK, WellFormed, SafeInv, WorkInv
  <2>3. /\ v.id = w.id /\ v.items = w.items /\ v.dry = w.dry /\ v.form = w.form
        /\ v.read = w.read /\ v.sends = w.sends + 1 /\ v.phase = ph
    BY DEF Work
  <2>4. v \in Work
    BY <2>2, SentWork
  <2>5. work' = (work \ {w}) \union {v}
    BY <2>1
  <2>6. /\ asked' = asked
        /\ \/ posted' = posted /\ confirmed' = confirmed
           \/ /\ posted' = Taken(w) /\ ~w.dry
              /\ confirmed' \in {confirmed, confirmed \union {w.id}}
    BY <1>8 DEF Sends, daemonRest
  <2> HIDE DEF v
  <2>7. v.phase \in {"check", "post"} =>
          /\ w.phase \in {"check", "post"} /\ confirmed' = confirmed
          /\ v.sends >= w.sends /\ v.sends = w.sends + 1
    BY <2>1, <2>2, <2>3
  <2>8. QED
    BY <2>2, <2>3, <2>4, <2>5, <2>6, <2>7, BecomesSafe
<1>3. CASE Fail(w)
  <2> DEFINE v == [w EXCEPT !.phase = "refused"]
  <2>1. /\ v \in Work /\ v.id = w.id /\ v.items = w.items /\ v.dry = w.dry /\ v.form = w.form
        /\ v.read = w.read /\ v.phase = "refused"
    BY DEF Work
  <2>2. /\ work' = (work \ {w}) \union {v} /\ asked' = asked
        /\ posted' = posted /\ confirmed' = confirmed
    BY <1>3 DEF Fail, Becomes, daemonRest
  <2> HIDE DEF v
  <2>3. QED
    BY <2>1, <2>2, BecomesSafe
<1>4. CASE Generate(w)
  <2> DEFINE v == [w EXCEPT !.phase = "posted"]
  <2>1. /\ v \in Work /\ v.id = w.id /\ v.items = w.items /\ v.dry = w.dry /\ v.form = w.form
        /\ v.read = w.read /\ v.sends = w.sends /\ v.phase = "posted"
    BY DEF Work
  <2>2. /\ work' = (work \ {w}) \union {v} /\ asked' = asked
        /\ posted' = posted /\ confirmed' = confirmed
    BY <1>4 DEF Generate, Becomes, daemonRest
  <2> HIDE DEF v
  <2>3. QED
    BY <2>1, <2>2, BecomesSafe
<1>5. CASE TimesOut(w)
  <2> DEFINE v == [w EXCEPT !.listening = FALSE]
  <2>1. /\ v \in Work /\ v.id = w.id /\ v.items = w.items /\ v.dry = w.dry /\ v.form = w.form
        /\ v.read = w.read /\ v.sends = w.sends /\ v.phase = w.phase
    BY DEF Work
  <2>2. /\ work' = (work \ {w}) \union {v} /\ asked' = asked
        /\ posted' = posted /\ confirmed' = confirmed
    BY <1>5 DEF TimesOut
  <2>3. w.phase = "post" => w.read = w.items
    BY DEF SafeInv, WorkInv
  <2> HIDE DEF v
  <2>4. QED
    BY <2>1, <2>2, <2>3, BecomesSafe
<1>6. CASE Answer(w) \/ Dropped(w)
  <2>1. work' = work \ {w} /\ UNCHANGED <<asked, posted, confirmed>>
    BY <1>6 DEF Answer, Dropped, daemonRest
  <2>2. QED
    BY <2>1 DEF SafeInv, AskedInv, WorkInv, PostedInv
<1>7. QED
  BY <1>1, <1>2, <1>3, <1>4, <1>5, <1>6, <1>8, HandleCases

\* Leaving the page keeps SafeInv: requests go on unheard.
LEMMA LeaveSafe == ASSUME TypeOK, SafeInv, LeavePage PROVE SafeInv'
<1> DEFINE deaf(w) == [w EXCEPT !.listening = FALSE]
<1>1. ASSUME NEW w \in work
      PROVE  /\ deaf(w).id = w.id /\ deaf(w).items = w.items /\ deaf(w).dry = w.dry
             /\ deaf(w).form = w.form /\ deaf(w).read = w.read /\ deaf(w).phase = w.phase
             /\ deaf(w).sends = w.sends
  BY DEF TypeOK, Work
<1>2. work' = {deaf(w) : w \in work} /\ UNCHANGED <<asked, posted, confirmed>>
  BY DEF LeavePage
<1> HIDE DEF deaf
<1>3. WorkInv'
  <2>1. \A w \in work' : \E r \in asked' : r.id = w.id /\ r.items = w.items /\ r.dry = w.dry
    BY <1>1, <1>2 DEF SafeInv, WorkInv
  <2>2. \A w, u \in work' : w.id = u.id => w = u
    BY <1>1, <1>2 DEF SafeInv, WorkInv
  <2>3. \A w \in work' : w.phase \in {"check", "post"} =>
          w.id \notin confirmed' /\ \A p \in posted' : p[1] = w.id => p[2] <= w.sends
    BY <1>1, <1>2 DEF SafeInv, WorkInv
  <2>4. \A w \in work' : \A i \in w.items :
          i \in w.read \/ w.form \in {"exec", "keygen"} => Promise!OneValidator(i)
    BY <1>1, <1>2 DEF SafeInv, WorkInv
  <2>5. \A w \in work' : w.phase = "post" => w.read = w.items
    BY <1>1, <1>2 DEF SafeInv, WorkInv
  <2>6. QED
    BY <2>1, <2>2, <2>3, <2>4, <2>5 DEF WorkInv
<1>4. QED
  BY <1>2, <1>3 DEF SafeInv, AskedInv, PostedInv

\* A submission of any form is a call of Send with such arguments.
LEMMA SubmitSends ==
  ASSUME (\E dry \in BOOLEAN : Submit(dry)) \/ GenerateKeys
  PROVE  \E f \in Form, items \in SUBSET Typed, e \in ExecRequest \union {None}, dry \in BOOLEAN :
           /\ Send(f, items, e, dry)
           /\ f \in {"exec", "keygen"} => \A i \in items : Promise!OneValidator(i)
           /\ items = {} \/ f = "keygen" => dry
<1> DEFINE Sent(f, items, e, dry) ==
             /\ Send(f, items, e, dry)
             /\ f \in {"exec", "keygen"} => \A i \in items : Promise!OneValidator(i)
             /\ items = {} \/ f = "keygen" => dry
           Goal == \E f \in Form, items \in SUBSET Typed, e \in ExecRequest \union {None},
                      dry \in BOOLEAN : Sent(f, items, e, dry)
<1>1. CASE GenerateKeys
  <2>1. Sent("keygen", {}, None, TRUE)
    BY <1>1 DEF GenerateKeys
  <2>2. QED
    BY <2>1 DEF Form
<1>2. ASSUME NEW dry \in BOOLEAN, NEW i \in Item, SubmitBlsChange(i, dry) PROVE Goal
  <2>1. Sent("bls", {i}, None, dry)
    BY <1>2 DEF SubmitBlsChange
  <2>2. QED
    BY <2>1, TypedItems DEF Form
<1>3. ASSUME NEW dry \in BOOLEAN, NEW i \in Item, SubmitConsensusExit(i, dry) PROVE Goal
  <2>1. Sent("exit", {i}, None, dry)
    BY <1>3 DEF SubmitConsensusExit
  <2>2. QED
    BY <2>1, TypedItems DEF Form
<1>4. ASSUME NEW dry \in BOOLEAN, NEW items \in Batch, SubmitBlsBatch(items, dry) PROVE Goal
  <2>1. Sent("batch", items, None, dry)
    BY <1>4 DEF SubmitBlsBatch
  <2>2. QED
    BY <2>1, TypedItems DEF Form
<1>5. ASSUME NEW dry \in BOOLEAN, NEW e \in ExecRequest, SubmitExecutionAction(e, dry) PROVE Goal
  <2>1. Promise!OneValidator(Own(e.index))
    BY DEF Promise!OneValidator, Own
  <2>2. Sent("exec", {Own(e.index)}, e, dry)
    BY <1>5, <2>1 DEF SubmitExecutionAction
  <2>3. {Own(e.index)} \in SUBSET Typed
    BY TypedItems, OperationsAssumption
  <2>4. QED
    BY <2>2, <2>3 DEF Form
<1>6. QED
  BY <1>1, <1>2, <1>3, <1>4, <1>5 DEF Submit

\* The remaining steps leave requests and their outcomes alone.
Elsewhere ==
  \/ OpenPage
  \/ Refresh
  \/ \E v \in Validator \union {None} : SwitchValidator(v)
  \/ \E v \in Validator : ChainStep(v)
  \/ UNCHANGED vars

\* They are all of them.
LEMMA NextCases ==
  ASSUME [Next]_vars
  PROVE  \/ \E f \in Form, items \in SUBSET Typed, e \in ExecRequest \union {None},
               dry \in BOOLEAN :
              /\ Send(f, items, e, dry)
              /\ f \in {"exec", "keygen"} => \A i \in items : Promise!OneValidator(i)
              /\ items = {} \/ f = "keygen" => dry
         \/ \E w \in work : Handle(w) \/ TimesOut(w) \/ Dropped(w)
         \/ LeavePage
         \/ Elsewhere
BY SubmitSends DEF Next, Elsewhere

\* They change neither requests nor what the page shows of them.
LEMMA ElsewhereKeeps ==
  ASSUME Elsewhere PROVE UNCHANGED <<work, asked, posted, confirmed, busy, result>> /\ (open => open')
<1>1. CASE OpenPage
  BY <1>1 DEF OpenPage
<1>2. CASE Refresh
  BY <1>2 DEF Refresh
<1>3. ASSUME NEW v, SwitchValidator(v)
      PROVE  UNCHANGED <<work, asked, posted, confirmed, busy, result, open>>
  BY <1>3 DEF SwitchValidator
<1>4. ASSUME NEW v, ChainStep(v)
      PROVE  UNCHANGED <<work, asked, posted, confirmed, busy, result, open>>
  BY <1>4 DEF ChainStep, page
<1>5. CASE UNCHANGED vars
  BY <1>5 DEF vars, page
<1>6. QED
  BY <1>1, <1>2, <1>3, <1>4, <1>5 DEF Elsewhere

\* Every step keeps SafeInv.
LEMMA NextSafe == TypeOK /\ SafeInv /\ [Next]_vars => SafeInv'
<1> SUFFICES ASSUME TypeOK, SafeInv, [Next]_vars PROVE SafeInv'
  OBVIOUS
<1>1. CASE Elsewhere
  <2>1. UNCHANGED <<work, asked, posted, confirmed>>
    BY <1>1, ElsewhereKeeps
  <2>2. QED
    BY <2>1 DEF SafeInv, AskedInv, WorkInv, PostedInv
<1>2. QED
  BY <1>1, NextCases, SendSafe, HandleSafe, LeaveSafe

\* The initial states satisfy it.
LEMMA InitSafe == Init => SafeInv
<1> SUFFICES ASSUME Init PROVE SafeInv
  OBVIOUS
<1>1. asked = {} /\ work = {} /\ posted = {} /\ confirmed = {}
  BY DEF Init
<1>2. IsFiniteSet(asked)
  BY <1>1, FS_EmptySet
<1>3. QED
  BY <1>1, <1>2 DEF SafeInv, AskedInv, WorkInv, PostedInv

\* A step of the page or of the daemon is a step of the promise.
LEMMA StepPromised ==
  ASSUME TypeOK, SafeInv, [Next]_vars
  PROVE  [Promise!Ask \/ Promise!Post]_<<asked, posted, confirmed>>
<1>1. CASE \E f \in Form, items \in SUBSET Typed, e \in ExecRequest \union {None},
              dry \in BOOLEAN : Send(f, items, e, dry)
  <2>1. PICK f \in Form, items \in SUBSET Typed, e \in ExecRequest \union {None},
             dry \in BOOLEAN : Send(f, items, e, dry)
    BY <1>1
  <2> DEFINE ask == [id |-> NextId, items |-> items, dry |-> dry]
  <2>2. /\ asked' = asked \union {ask} /\ ask.id = NextId
        /\ UNCHANGED <<posted, confirmed>>
    BY <2>1 DEF Send
  <2>3. \A r \in asked : r.id # NextId
    BY NextIdIsNew DEF SafeInv
  <2> HIDE DEF ask
  <2>4. \A r \in asked', s \in asked : r.id = s.id => r = s
    BY <2>2, <2>3 DEF SafeInv, AskedInv
  <2>5. QED
    BY <2>2, <2>4 DEF Promise!Ask
<1>2. ASSUME NEW w \in work, Sends(w)
      PROVE  Promise!Post \/ UNCHANGED <<asked, posted, confirmed>>
  <2>1. asked' = asked
    BY <1>2 DEF Sends, daemonRest
  <2>2. CASE posted' = posted /\ confirmed' = confirmed
    BY <2>1, <2>2
  <2>3. CASE posted' = Taken(w) /\ confirmed' \in {confirmed, confirmed \union {w.id}}
    <3>1. PICK r \in asked : r.id = w.id /\ r.items = w.items /\ r.dry = w.dry
      BY DEF SafeInv, WorkInv
    <3>2. \A i \in r.items : Promise!OneValidator(i)
      BY <1>2, <3>1 DEF Sends, SafeInv, WorkInv
    <3>3. w.sends \in Nat /\ w.sends < MaxSends
      BY <1>2, OperationsAssumption DEF Sends, TypeOK, Work, WellFormed
    <3>4. r.id \notin confirmed /\ \A p \in posted : p[1] = r.id => p[2] < w.sends + 1
      BY <1>2, <3>1, <3>3 DEF Sends, SafeInv, WorkInv, PostedInv
    <3> DEFINE n == w.sends + 1
    <3>5. n \in 1..MaxSends
      BY <3>3, OperationsAssumption
    <3>6. posted' = posted \union ({r.id} \X {n} \X r.items) /\ ~r.dry
      BY <1>2, <2>3, <3>1 DEF Sends, Taken
    <3>7. \A p \in posted : p[1] = r.id => p[2] < n
      BY <3>4
    <3> HIDE DEF n
    <3>8. confirmed' \in {confirmed, confirmed \union {r.id}}
      BY <2>3, <3>1
    <3>9. QED
      BY <2>1, <3>2, <3>4, <3>5, <3>6, <3>7, <3>8 DEF Promise!Post
  <2>4. QED
    BY <1>2, <2>2, <2>3 DEF Sends
<1>3. ASSUME NEW w \in work,
             \/ Check(w) \/ (Post(w) /\ w.dry) \/ Fail(w) \/ Generate(w) \/ Answer(w)
             \/ TimesOut(w) \/ Dropped(w)
      PROVE  UNCHANGED <<asked, posted, confirmed>>
  BY <1>3 DEF Check, Post, Fail, Generate, Answer, TimesOut, Dropped, daemonRest
<1>4. CASE LeavePage
  BY <1>4 DEF LeavePage
<1>5. CASE Elsewhere
  BY <1>5, ElsewhereKeeps
<1>6. QED
  BY <1>1, <1>2, <1>3, <1>4, <1>5, NextCases, HandleCases

\* The action center implements its promise: nothing reaches the chain but
\* what was asked for without dry run, all items together, each with index and
\* keys of one validator, sent again only while no success has been answered and
\* at most MaxSends times, whatever page, client timeouts, lost answers, failing
\* nodes and the chain do between the steps (MonitorEngine's submit handlers on
\* beacon_post_value and execution_value, OperationsPage).
THEOREM ImplementsPromise == Spec => KeepsPromise
<1>1. Init => Promise!Init
  BY DEF Init, Promise!Init
<1>2. TypeOK /\ SafeInv /\ [Next]_vars 
        => [Promise!Ask \/ Promise!Post]_<<asked, posted, confirmed>>
  BY StepPromised
<1>3. QED
  BY <1>1, <1>2, InitSafe, NextSafe, TypeCorrect, PTL DEF Spec, KeepsPromise, Promise!Spec
-----------------------------------------------------------------------------
(***************************************************************************)
(* What the forms report.                                                  *)
(***************************************************************************)

\* A form waits for at most one request, and a request that is done was posted
\* unless it was a dry run.
WaitInv ==
  /\ \A w \in work : w.listening => open /\ busy[w.form]
  /\ \A w, u \in work : w.listening /\ u.listening /\ w.form = u.form => w = u
  /\ \A w \in work : w.items = {} \/ w.form = "keygen" => w.dry
  /\ \A w \in work : w.phase = "posted" /\ ~w.dry => \E p \in posted : p[1] = w.id

\* An outcome belongs to a request that the form's later ones come after.
ShownInv ==
  \A f \in Form : result[f] # None =>
    /\ open
    /\ \E r \in asked : r.id = result[f].id /\ (result[f].kind = "dry" => r.dry)
    /\ result[f].kind = "submitted" => \E p \in posted : p[1] = result[f].id
    /\ \A w \in work : w.listening /\ w.form = f => w.id > result[f].id

\* A submission keeps both: its id is larger than all before.
LEMMA SendReports ==
  ASSUME TypeOK, SafeInv, WaitInv, ShownInv,
         NEW f \in Form, NEW items \in SUBSET Typed, NEW e, NEW dry \in BOOLEAN,
         Send(f, items, e, dry), items = {} \/ f = "keygen" => dry
  PROVE  WaitInv' /\ ShownInv'
<1> DEFINE new == [id |-> NextId, form |-> f, items |-> items, exec |-> e, dry |-> dry,
                   listening |-> TRUE, read |-> {}, sends |-> 0, phase |-> "check"]
           ask == [id |-> NextId, items |-> items, dry |-> dry]
<1>1. /\ work' = work \union {new} /\ asked' = asked \union {ask} /\ posted' = posted
      /\ open' = open /\ open /\ ~busy[f]
      /\ busy' = [busy EXCEPT ![f] = TRUE]
      /\ result' = [result EXCEPT ![f] = IF f = "keygen" THEN @ ELSE None]
  BY DEF Send
<1>2. /\ new.id = NextId /\ new.form = f /\ new.items = items /\ new.dry = dry
      /\ new.listening = TRUE /\ new.phase = "check"
  OBVIOUS
<1> HIDE DEF new, ask
<1>3. \A w \in work : w.form \in Form
  BY DEF TypeOK, Work
<1>4. \A w \in work : w.listening => w.form # f
  BY <1>1 DEF WaitInv
<1>5. WaitInv'
  <2>1. \A w \in work' : w.listening => open' /\ busy'[w.form]
    BY <1>1, <1>2, <1>3 DEF WaitInv, TypeOK
  <2>2. \A w, u \in work' : w.listening /\ u.listening /\ w.form = u.form => w = u
    BY <1>1, <1>2, <1>4 DEF WaitInv
  <2>3. \A w \in work' : w.items = {} \/ w.form = "keygen" => w.dry
    BY <1>1, <1>2 DEF WaitInv
  <2>4. \A w \in work' : w.phase = "posted" /\ ~w.dry => \E p \in posted' : p[1] = w.id
    BY <1>1, <1>2 DEF WaitInv
  <2>5. QED
    BY <2>1, <2>2, <2>3, <2>4 DEF WaitInv
<1>6. ShownInv'
  <2> SUFFICES ASSUME NEW g \in Form, result'[g] # None
               PROVE  /\ open'
                      /\ \E r \in asked' :
                           r.id = result'[g].id /\ (result'[g].kind = "dry" => r.dry)
                      /\ result'[g].kind = "submitted" => \E p \in posted' : p[1] = result'[g].id
                      /\ \A w \in work' : w.listening /\ w.form = g => w.id > result'[g].id
    BY DEF ShownInv
  <2>1. result'[g] = result[g]
    BY <1>1 DEF TypeOK
  <2>2. PICK r \in asked : r.id = result[g].id /\ (result[g].kind = "dry" => r.dry)
    BY <2>1 DEF ShownInv
  <2>3. Cardinality(asked) \in Nat /\ r.id \in 1..Cardinality(asked)
    BY FS_CardinalityType DEF SafeInv, AskedInv
  <2>4. NextId > result[g].id
    BY <2>2, <2>3 DEF NextId
  <2>5. \A w \in work' : w.listening /\ w.form = g => w.id > result'[g].id
    BY <1>1, <1>2, <2>1, <2>4 DEF ShownInv
  <2>6. QED
    BY <1>1, <2>1, <2>2, <2>5 DEF ShownInv
<1>7. QED
  BY <1>5, <1>6

\* A step that shows nothing keeps both, if it only moves requests on.
LEMMA SilentReports ==
  ASSUME TypeOK, WaitInv, ShownInv, NEW w \in work, NEW v,
         v.id = w.id, v.items = w.items, v.dry = w.dry, v.form = w.form,
         v.listening = w.listening,
         work' = (work \ {w}) \union {v}, asked' = asked, posted \subseteq posted',
         UNCHANGED <<open, busy, result>>,
         v.phase = "posted" /\ ~v.dry => \E p \in posted' : p[1] = v.id
  PROVE  WaitInv' /\ ShownInv'
<1>1. WaitInv'
  <2>1. \A u \in work' : u.listening => open' /\ busy'[u.form]
    BY DEF WaitInv
  <2>2. \A u, x \in work' : u.listening /\ x.listening /\ u.form = x.form => u = x
    BY DEF WaitInv
  <2>3. \A u \in work' : u.items = {} \/ u.form = "keygen" => u.dry
    BY DEF WaitInv
  <2>4. \A u \in work' : u.phase = "posted" /\ ~u.dry => \E p \in posted' : p[1] = u.id
    BY DEF WaitInv
  <2>5. QED
    BY <2>1, <2>2, <2>3, <2>4 DEF WaitInv
<1>2. ShownInv'
  BY DEF ShownInv
<1>3. QED
  BY <1>1, <1>2

\* An outcome that is shown, with its request gone or unheard.
LEMMA ShowReports ==
  ASSUME TypeOK, SafeInv, WaitInv, ShownInv, NEW w \in work, NEW outcome,
         outcome.id = w.id, Show(w, outcome), UNCHANGED <<asked, posted, open>>,
         outcome.kind = "dry" => w.dry,
         outcome.kind = "submitted" => \E p \in posted : p[1] = w.id,
         \A u \in work' :
           \/ u \in work /\ u # w
           \/ /\ ~u.listening /\ u.id = w.id /\ u.items = w.items /\ u.form = w.form
              /\ u.dry = w.dry /\ u.phase = w.phase
  PROVE  WaitInv' /\ ShownInv'
<1>0. w.form \in Form /\ w.id \in Nat /\ w.listening \in BOOLEAN
  BY OperationsAssumption DEF TypeOK, Work, Ids
<1>1. ASSUME NEW u \in work', u.listening PROVE u \in work /\ u # w
  BY <1>1
<1>2. w.listening => \A u \in work' : u.listening => u.form # w.form
  BY <1>1 DEF WaitInv
<1>3. WaitInv'
  <2>1. ASSUME NEW u \in work', u.listening PROVE open' /\ busy'[u.form]
    <3>1. open /\ busy[u.form]
      BY <1>1, <2>1 DEF WaitInv
    <3>2. CASE w.listening
      BY <1>0, <1>2, <2>1, <3>1, <3>2 DEF Show, TypeOK
    <3>3. CASE ~w.listening
      BY <3>1, <3>3 DEF Show
    <3>4. QED
      BY <1>0, <3>2, <3>3
  <2>2. \A u, x \in work' : u.listening /\ x.listening /\ u.form = x.form => u = x
    BY <1>1 DEF WaitInv
  <2>3. \A u \in work' : u.items = {} \/ u.form = "keygen" => u.dry
    BY DEF WaitInv
  <2>4. \A u \in work' : u.phase = "posted" /\ ~u.dry => \E p \in posted' : p[1] = u.id
    BY DEF WaitInv
  <2>5. QED
    BY <2>1, <2>2, <2>3, <2>4 DEF WaitInv
<1>4. ShownInv'
  <2> SUFFICES ASSUME NEW g \in Form, result'[g] # None
               PROVE  /\ open'
                      /\ \E r \in asked' :
                           r.id = result'[g].id /\ (result'[g].kind = "dry" => r.dry)
                      /\ result'[g].kind = "submitted" => \E p \in posted' : p[1] = result'[g].id
                      /\ \A u \in work' : u.listening /\ u.form = g => u.id > result'[g].id
    BY DEF ShownInv
  <2>1. CASE w.listening /\ g = w.form
    <3>1. result'[g] = outcome
      BY <1>0, <2>1 DEF Show, TypeOK
    <3>2. open'
      BY <2>1 DEF WaitInv
    <3>3. PICK r \in asked : r.id = w.id /\ r.dry = w.dry
      BY DEF SafeInv, WorkInv
    <3>4. QED
      BY <1>2, <2>1, <3>1, <3>2, <3>3
  <2>2. CASE ~(w.listening /\ g = w.form)
    <3>1. result'[g] = result[g]
      BY <1>0, <2>2 DEF Show, TypeOK
    <3>2. QED
      BY <1>1, <3>1 DEF ShownInv
  <2>3. QED
    BY <2>1, <2>2
<1>5. QED
  BY <1>3, <1>4

\* A step of one request's handler keeps both.
LEMMA HandleReports ==
  ASSUME TypeOK, SafeInv, WaitInv, ShownInv, NEW w \in work,
         Handle(w) \/ TimesOut(w) \/ Dropped(w)
  PROVE  WaitInv' /\ ShownInv'
<1> w \in Work
  BY DEF TypeOK
<1>1. CASE Check(w)
  <2>1. PICK i \in w.items \ w.read :
          work' = (work \ {w}) \union
            {IF Accepts(w, i)
             THEN [w EXCEPT !.read = @ \union {i},
                            !.phase = IF w.items = w.read \union {i} THEN "post" ELSE @]
             ELSE [w EXCEPT !.phase = "refused"]}
    BY <1>1 DEF Check, Becomes
  <2>2. w.phase = "check" /\ UNCHANGED <<asked, posted, open, busy, result>>
    BY <1>1 DEF Check, daemonRest, page
  <2> DEFINE v == IF Accepts(w, i)
                  THEN [w EXCEPT !.read = @ \union {i},
                                 !.phase = IF w.items = w.read \union {i} THEN "post" ELSE @]
                  ELSE [w EXCEPT !.phase = "refused"]
  <2>3. /\ v.id = w.id /\ v.items = w.items /\ v.dry = w.dry /\ v.form = w.form
        /\ v.listening = w.listening /\ v.phase # "posted"
    BY <2>2 DEF Work
  <2>4. work' = (work \ {w}) \union {v}
    BY <2>1
  <2> HIDE DEF v
  <2>5. QED
    BY <2>2, <2>3, <2>4, SilentReports
<1>2. CASE Post(w) /\ w.dry
  <2> DEFINE v == [w EXCEPT !.phase = "posted"]
  <2>1. /\ v.id = w.id /\ v.items = w.items /\ v.dry = w.dry /\ v.form = w.form
        /\ v.listening = w.listening
    BY DEF Work
  <2>2. /\ work' = (work \ {w}) \union {v} /\ posted' = posted
        /\ UNCHANGED <<asked, open, busy, result>>
    BY <1>2 DEF Post, Becomes, daemonRest, page
  <2> HIDE DEF v
  <2>3. QED
    BY <1>2, <2>1, <2>2, SilentReports
<1>9. CASE Sends(w)
  <2>1. PICK ph \in {"post", "posted", "refused"} :
          /\ work' = (work \ {w}) \union {[w EXCEPT !.sends = @ + 1, !.phase = ph]}
          /\ ph = "posted" => posted' = Taken(w)
    BY <1>9 DEF Sends
  <2> DEFINE v == [w EXCEPT !.sends = @ + 1, !.phase = ph]
  <2>2. /\ v.id = w.id /\ v.items = w.items /\ v.dry = w.dry /\ v.form = w.form
        /\ v.listening = w.listening /\ v.phase = ph
    BY DEF Work
  <2>3. /\ work' = (work \ {w}) \union {v} /\ posted \subseteq posted'
        /\ UNCHANGED <<asked, open, busy, result>>
    BY <1>9, <2>1 DEF Sends, Taken, daemonRest, page
  <2>4. ph = "posted" => \E p \in posted' : p[1] = w.id
    <3> SUFFICES ASSUME ph = "posted" PROVE \E p \in posted' : p[1] = w.id
      OBVIOUS
    <3>1. w.items # {} /\ posted' = posted \union ({w.id} \X {w.sends + 1} \X w.items)
      BY <1>9, <2>1 DEF Sends, Taken, WaitInv
    <3>2. PICK i : i \in w.items
      BY <3>1
    <3>3. <<w.id, w.sends + 1, i>> \in posted' /\ <<w.id, w.sends + 1, i>>[1] = w.id
      BY <3>1, <3>2
    <3>4. QED
      BY <3>3
  <2> HIDE DEF v
  <2>5. QED
    BY <2>2, <2>3, <2>4, SilentReports
<1>3. CASE Fail(w)
  <2> DEFINE v == [w EXCEPT !.phase = "refused"]
  <2>1. /\ v.id = w.id /\ v.items = w.items /\ v.dry = w.dry /\ v.form = w.form
        /\ v.listening = w.listening /\ v.phase = "refused"
    BY DEF Work
  <2>2. /\ work' = (work \ {w}) \union {v}
        /\ UNCHANGED <<asked, posted, open, busy, result>>
    BY <1>3 DEF Fail, Becomes, daemonRest, page
  <2> HIDE DEF v
  <2>3. QED
    BY <2>1, <2>2, SilentReports
<1>4. CASE Generate(w)
  <2> DEFINE v == [w EXCEPT !.phase = "posted"]
  <2>1. /\ v.id = w.id /\ v.items = w.items /\ v.dry = w.dry /\ v.form = w.form
        /\ v.listening = w.listening
    BY DEF Work
  <2>2. /\ work' = (work \ {w}) \union {v}
        /\ UNCHANGED <<asked, posted, open, busy, result>>
    BY <1>4 DEF Generate, Becomes, daemonRest, page
  <2>3. w.dry
    BY <1>4 DEF Generate, WaitInv
  <2> HIDE DEF v
  <2>4. QED
    BY <2>1, <2>2, <2>3, SilentReports
<1>5. CASE Answer(w)
  <2> DEFINE outcome == [id |-> w.id,
                         kind |-> IF w.phase = "refused" THEN "error"
                                  ELSE IF w.dry THEN "dry" ELSE "submitted"]
  <2>1. /\ Show(w, outcome) /\ UNCHANGED <<asked, posted, open>> /\ work' = work \ {w}
        /\ w.phase \in {"posted", "refused"}
    BY <1>5 DEF Answer
  <2>3. outcome.kind = "submitted" => \E p \in posted : p[1] = w.id
    BY <2>1 DEF WaitInv
  <2>4. \A u \in work' : u \in work /\ u # w
    BY <2>1
  <2>5. outcome.id = w.id
    OBVIOUS
  <2>6. outcome.kind = "dry" => w.dry
    OBVIOUS
  <2> HIDE DEF outcome
  <2>7. QED
    BY <2>1, <2>3, <2>4, <2>5, <2>6, ShowReports
<1>6. CASE TimesOut(w)
  <2> DEFINE v == [w EXCEPT !.listening = FALSE]
             outcome == [id |-> w.id, kind |-> "error"]
  <2>1. /\ Show(w, outcome) /\ UNCHANGED <<asked, posted, open>>
        /\ work' = (work \ {w}) \union {v}
    BY <1>6 DEF TimesOut
  <2>2. /\ v \in Work /\ ~v.listening /\ v.id = w.id /\ v.items = w.items /\ v.form = w.form
        /\ v.dry = w.dry /\ v.phase = w.phase
    BY DEF Work
  <2>3. outcome.id = w.id /\ outcome.kind = "error"
    OBVIOUS
  <2> HIDE DEF v, outcome
  <2>4. \A u \in work' : (u \in work /\ u # w) \/ u = v
    BY <2>1
  <2>5. QED
    BY <2>1, <2>2, <2>3, <2>4, ShowReports
<1>7. CASE Dropped(w)
  <2>1. work' = work \ {w} /\ UNCHANGED <<asked, posted, open, busy, result>>
    BY <1>7 DEF Dropped, daemonRest, page
  <2>2. QED
    BY <2>1 DEF WaitInv, ShownInv
<1>8. QED
  BY <1>1, <1>2, <1>3, <1>4, <1>5, <1>6, <1>7, <1>9, HandleCases

\* Leaving the page empties every form.
LEMMA LeaveReports ==
  ASSUME TypeOK, WaitInv, LeavePage PROVE WaitInv' /\ ShownInv'
<1> DEFINE deaf(w) == [w EXCEPT !.listening = FALSE]
<1>1. ASSUME NEW w \in work
      PROVE  /\ deaf(w).id = w.id /\ deaf(w).items = w.items /\ deaf(w).dry = w.dry
             /\ deaf(w).form = w.form /\ deaf(w).phase = w.phase /\ ~deaf(w).listening
  BY DEF TypeOK, Work
<1>2. /\ work' = {deaf(w) : w \in work} /\ posted' = posted
      /\ result' = [f \in Form |-> None]
  BY DEF LeavePage
<1> HIDE DEF deaf
<1>3. WaitInv'
  BY <1>1, <1>2 DEF WaitInv
<1>4. ShownInv'
  BY <1>2 DEF ShownInv
<1>5. QED
  BY <1>3, <1>4

\* What a form reports is true, and no later request of the form is overtaken
\* by the answer to an earlier one, for any number of requests, timeouts and
\* visits to the page (OperationsPage's handlers).
THEOREM ReportsAreTrue == Spec => []ReportIsTrue
<1>1. Init => WaitInv /\ ShownInv
  BY DEF Init, WaitInv, ShownInv
<1>2. TypeOK /\ SafeInv /\ WaitInv /\ ShownInv /\ [Next]_vars => WaitInv' /\ ShownInv'
  <2> SUFFICES ASSUME TypeOK, SafeInv, WaitInv, ShownInv, [Next]_vars
               PROVE  WaitInv' /\ ShownInv'
    OBVIOUS
  <2>1. CASE Elsewhere
    BY <2>1, ElsewhereKeeps DEF WaitInv, ShownInv
  <2>2. CASE \E f \in Form, items \in SUBSET Typed, e \in ExecRequest \union {None},
                dry \in BOOLEAN : Send(f, items, e,
                    dry) /\ (items = {} \/ f = "keygen" => dry)
    BY <2>2, SendReports
  <2>3. QED
    BY <2>1, <2>2, NextCases, HandleReports, LeaveReports
<1>3. SafeInv /\ ShownInv => ReportIsTrue
  <2> SUFFICES ASSUME SafeInv, ShownInv, NEW f \in Form, result[f] # None
               PROVE  /\ open
                      /\ result[f].kind = "submitted" => \E p \in posted : p[1] = result[f].id
                      /\ result[f].kind = "dry" => \A p \in posted : p[1] # result[f].id
                      /\ \A w \in work : w.listening /\ w.form = f => w.id > result[f].id
    BY DEF ReportIsTrue
  <2>1. result[f].kind = "dry" => \A p \in posted : p[1] # result[f].id
    BY DEF SafeInv, AskedInv, PostedInv, ShownInv
  <2>2. QED
    BY <2>1 DEF ShownInv
<1>4. QED
  BY <1>1, <1>2, <1>3, InitSafe, NextSafe, TypeCorrect, PTL DEF Spec
=============================================================================
