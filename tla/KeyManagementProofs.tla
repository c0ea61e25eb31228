------------------------ MODULE KeyManagementProofs ------------------------
(***************************************************************************)
(* Proofs about the key management page: what it lists at rest, and what   *)
(* it takes for a success, for any number of clients, keys, refreshes and  *)
(* jobs.                                                                   *)
(***************************************************************************)
EXTENDS KeyManagement, TLAPS

Job == [form : Form, key : Key \union {Malformed}, arg : 0..Clients,
        next : 1..(Clients + 1), applied : SUBSET (Client \X BOOLEAN), heard : BOOLEAN]
RefreshCall == [arg : 0..Clients \union {None}, after : BOOLEAN, list : [KindOfKey -> Lists]]

\* The forms in use are forms of the page.
LEMMA UsedForms == Used \subseteq Form
  BY KeyManagementAssumption DEF Form, KindOfKey

\* A free slot holds no job.
LEMMA FreeSlot == NoJob \notin Job /\ NoJob.heard = FALSE /\ NoJob.next = 0
  BY KeyManagementAssumption DEF NoJob, Job

\* A free slot holds no refresh.
LEMMA FreeRefresh ==
  NoRefresh \in RefreshCall /\ NoRefresh.arg = None /\ NoRefresh.after = FALSE
  BY DEF NoRefresh, RefreshCall, Lists

\* A refresh starts with the selection of its beginning and no lists.
LEMMA NewRefresh ==
  ASSUME NEW e \in 0..Clients, NEW after \in BOOLEAN
  PROVE  /\ Refresh(e, after) \in RefreshCall
         /\ Refresh(e, after).arg = e /\ Refresh(e, after).after = after
         /\ \A k \in KindOfKey : Refresh(e, after).list[k] = None
  BY DEF Refresh, NoRefresh, RefreshCall, Lists

\* A slot holds a job or nothing, and only a job is heard.
LEMMA JobTypes ==
  ASSUME TypeOK, NEW j \in Slot
  PROVE  /\ jobs[j] # NoJob => jobs[j] \in Job
         /\ jobs[j].heard \in BOOLEAN
         /\ jobs[j].heard => jobs[j] # NoJob
  BY FreeSlot DEF TypeOK, Job

\* The listing of some clients is a set of records.
LEMMA ListingType ==
  ASSUME NEW k, NEW e PROVE Listing(k, e) \in SUBSET Record /\ Listing(k, e) \in Lists
  BY DEF Listing, Lists

\* A selection names configured clients.
LEMMA ClientBounds ==
  ASSUME NEW e \in 0..Clients PROVE Targets(e) \subseteq Client
  BY KeyManagementAssumption DEF Targets, Client, All
-----------------------------------------------------------------------------
(***************************************************************************)
(* Types.                                                                  *)
(***************************************************************************)
\* The first visit of the page has the declared types.
LEMMA InitType == Init => TypeOK
<1> SUFFICES ASSUME Init PROVE TypeOK
  OBVIOUS
<1>1. refreshes \in [Slot -> RefreshCall]
  <2>1. All \in 0..Clients
    BY KeyManagementAssumption DEF All
  <2>2. Refresh(All, FALSE) \in RefreshCall
    BY <2>1, NewRefresh
  <2>3. QED
    BY <2>2, FreeRefresh DEF Init
<1>2. loading \in BOOLEAN /\ busy \in BOOLEAN /\ error \in BOOLEAN
      /\ crossed \in BOOLEAN /\ overlapped \in BOOLEAN
  BY Zenon DEF Init
<1>3. selected \in 0..Clients /\ moves \in 0..MaxMoves
  BY KeyManagementAssumption DEF Init, All
<1>4. QED
  BY <1>1, <1>2, <1>3 DEF Init, TypeOK, RefreshCall

\* A refresh begins.
LEMMA BeginType ==
  ASSUME TypeOK, NEW s \in Slot, NEW e \in 0..Clients, NEW after \in BOOLEAN,
         NEW rest \in [Slot -> RefreshCall], NEW serving, BeginRefresh(s, e, after,
             rest, serving)
  PROVE  /\ refreshes' \in [Slot -> RefreshCall]
         /\ loading' = TRUE /\ error' = FALSE /\ crossed' \in BOOLEAN
         /\ refreshes'[s] = Refresh(e, after)
         /\ \A t \in Slot : t # s => refreshes'[t] = rest[t]
         /\ ~crossed' => serving = {} /\ \A t \in Slot : rest[t].arg = None
<1>1. refreshes' \in [Slot -> RefreshCall]
  BY NewRefresh DEF BeginRefresh
<1>2. loading' = TRUE /\ error' = FALSE
  BY DEF BeginRefresh
<1>3. crossed' \in BOOLEAN
  BY Zenon DEF BeginRefresh
<1>4. refreshes'[s] = Refresh(e, after) /\ \A t \in Slot : t # s => refreshes'[t] = rest[t]
  BY DEF BeginRefresh
<1>5. ~crossed' => serving = {} /\ \A t \in Slot : rest[t].arg = None
  BY DEF BeginRefresh
<1>6. QED
  BY <1>1, <1>2, <1>3, <1>4, <1>5

\* Each refresh has its type.
LEMMA RefreshTypes == TypeOK => refreshes \in [Slot -> RefreshCall]
  BY DEF TypeOK, RefreshCall

\* The moves of the operator are counted up to their bound.
LEMMA MoveType == ASSUME TypeOK, Move PROVE moves' \in 0..MaxMoves
  BY KeyManagementAssumption DEF TypeOK, Move

\* What a refresh call looks like from outside.
LEMMA CallTypes ==
  ASSUME TypeOK, NEW s \in Slot
  PROVE  /\ refreshes[s] \in RefreshCall
         /\ refreshes[s].arg \in 0..Clients \union {None}
         /\ refreshes[s].after \in BOOLEAN
         /\ refreshes[s].list \in [KindOfKey -> Lists]
  BY DEF TypeOK, RefreshCall

\* A refresh ends.
LEMMA EndsType ==
  ASSUME TypeOK, NEW s \in Slot, RefreshEnds(s)
  PROVE  /\ refreshes' \in [Slot -> RefreshCall]
         /\ \A t \in Slot : refreshes'[t] = IF t = s THEN NoRefresh ELSE refreshes[t]
         /\ loading' = FALSE /\ busy' \in BOOLEAN
         /\ busy' = (busy /\ ~refreshes[s].after)
         /\ UNCHANGED <<keys, jobs, selected, form, report, moves, crossed, overlapped>>
<1>1. refreshes' \in [Slot -> RefreshCall]
  BY RefreshTypes, FreeRefresh DEF RefreshEnds
<1>2. \A t \in Slot : refreshes'[t] = IF t = s THEN NoRefresh ELSE refreshes[t]
  BY RefreshTypes DEF RefreshEnds
<1>3. busy' \in BOOLEAN
  BY Zenon DEF RefreshEnds
<1>4. QED
  BY <1>1, <1>2, <1>3 DEF RefreshEnds

\* One of the two lists comes.
LEMMA ListType ==
  ASSUME TypeOK, NEW s \in Slot, NEW k \in KindOfKey, ListServed(s, k)
  PROVE  /\ refreshes' \in [Slot -> RefreshCall]
         /\ \A t \in Slot : /\ refreshes'[t].arg = refreshes[t].arg
                            /\ refreshes'[t].after = refreshes[t].after
                            /\ \A h \in KindOfKey :
                                 refreshes'[t].list[h] =
                                   IF t = s /\ h = k THEN Listing(k, refreshes[s].arg)
                                   ELSE refreshes[t].list[h]
<1> DEFINE l == Listing(k, refreshes[s].arg)
           r == [refreshes[s] EXCEPT !.list[k] = l]
<1>1. l \in Lists
  BY ListingType
<1>2. refreshes[s] \in RefreshCall
  BY CallTypes
<1> HIDE DEF l
<1>3. /\ r \in RefreshCall /\ r.arg = refreshes[s].arg /\ r.after = refreshes[s].after
      /\ \A h \in KindOfKey : r.list[h] = IF h = k THEN l ELSE refreshes[s].list[h]
  BY <1>1, <1>2 DEF RefreshCall
<1>4. refreshes' = [refreshes EXCEPT ![s] = r]
  BY DEF ListServed, l
<1> HIDE DEF r
<1>5. \A t \in Slot : refreshes'[t] = IF t = s THEN r ELSE refreshes[t]
  BY <1>4, RefreshTypes
<1>6. refreshes' \in [Slot -> RefreshCall]
  BY <1>3, <1>4, RefreshTypes
<1>7. QED
  BY <1>3, <1>5, <1>6 DEF l

\* A job is taken off.
LEMMA JobEnds ==
  ASSUME TypeOK, NEW j \in Slot, jobs' = [jobs EXCEPT ![j] = NoJob]
  PROVE  /\ jobs' \in [Slot -> {NoJob} \union Job]
         /\ \A i \in Slot : jobs'[i] = IF i = j THEN NoJob ELSE jobs[i]
  BY DEF TypeOK, Job

\* The page stops listening to a job.
LEMMA JobUnheard ==
  ASSUME TypeOK, NEW j \in Slot, NEW new, new = [jobs[j] EXCEPT !.heard = FALSE]
  PROVE  /\ new \in {NoJob} \union Job
         /\ jobs[j] = NoJob <=> new = NoJob
         /\ new.form = jobs[j].form /\ new.key = jobs[j].key /\ new.arg = jobs[j].arg
         /\ new.next = jobs[j].next /\ new.applied = jobs[j].applied /\ new.heard = FALSE
<1>1. CASE jobs[j] = NoJob
  <2> DEFINE Free == [form : {None}, key : {None}, arg : {All}, next : {0}, applied : {{}},
                    heard : {FALSE}]
  <2>1. NoJob \in Free
    BY DEF NoJob
  <2>2. [NoJob EXCEPT !.heard = FALSE] \in Free
    BY <2>1
  <2>3. ASSUME NEW x \in Free PROVE x = NoJob
    <3>1. x = [form |-> x.form, key |-> x.key, arg |-> x.arg, next |-> x.next,
              applied |-> x.applied, heard |-> x.heard]
      OBVIOUS
    <3>2. x.form = None /\ x.key = None /\ x.arg = All /\ x.next = 0
          /\ x.applied = {} /\ x.heard = FALSE
      OBVIOUS
    <3>3. QED
      BY <3>1, <3>2, Zenon DEF NoJob
  <2>4. new = NoJob
    BY <1>1, <2>2, <2>3
  <2>5. QED
    BY <1>1, <2>4, FreeSlot
<1>2. CASE jobs[j] # NoJob
  <2>1. jobs[j] \in Job
    BY <1>2, JobTypes
  <2>2. new \in Job
    BY <2>1 DEF Job
  <2>3. QED
    BY <1>2, <2>1, <2>2, FreeSlot DEF Job
<1>3. QED
  BY <1>1, <1>2

\* The next client of a fan-out.
LEMMA NextTypes ==
  ASSUME TypeOK, NEW j \in Slot, HasNext(j)
  PROVE  /\ jobs[j] \in Job /\ jobs[j].next \in Client
         /\ Apply(j, jobs[j].next) \in [Client -> [KindOfKey -> SUBSET Key]]
         /\ \A c \in Client, k \in KindOfKey :
              Apply(j, jobs[j].next)[c][k] =
                IF c = jobs[j].next /\ k = jobs[j].form.kind
                THEN IF jobs[j].form.op = "import" THEN keys[c][k] \union {jobs[j].key}
                     ELSE keys[c][k] \ {jobs[j].key}
                ELSE keys[c][k]
<1> DEFINE f == jobs[j].form
           n == jobs[j].next
           key == jobs[j].key
<1>1. jobs[j] \in Job
  BY JobTypes DEF HasNext
<1>2. n \in Client /\ key \in Key /\ f \in Form
  BY <1>1, ClientBounds DEF HasNext, Job
<1>3. f.kind \in KindOfKey
  BY <1>2 DEF Form
<1>4. keys \in [Client -> [KindOfKey -> SUBSET Key]]
  BY DEF TypeOK
<1>5. Apply(j, n) = [keys EXCEPT ![n][f.kind] = IF f.op = "import" THEN @ \union {key} ELSE @ \ {key}]
  BY DEF Apply
<1> DEFINE set == IF f.op = "import" THEN keys[n][f.kind] \union {key} ELSE keys[n][f.kind] \ {key}
           row == [keys[n] EXCEPT ![f.kind] = set]
<1>a. Apply(j, n) = [keys EXCEPT ![n] = row]
  BY <1>5
<1> HIDE DEF f, n, key
<1>b. set \in SUBSET Key
  BY <1>2, <1>3, <1>4
<1> HIDE DEF set
<1>c. /\ row \in [KindOfKey -> SUBSET Key]
      /\ \A k \in KindOfKey : row[k] = IF k = f.kind THEN set ELSE keys[n][k]
  BY <1>2, <1>3, <1>4, <1>b
<1> HIDE DEF row
<1>d. \A c \in Client : Apply(j, n)[c] = IF c = n THEN row ELSE keys[c]
  BY <1>2, <1>4, <1>a
<1>6. Apply(j, n) \in [Client -> [KindOfKey -> SUBSET Key]]
  BY <1>2, <1>4, <1>a, <1>c
<1>7. \A c \in Client, k \in KindOfKey :
        Apply(j, n)[c][k] = IF c = n /\ k = f.kind
                            THEN IF f.op = "import" THEN keys[c][k] \union {key}
                                 ELSE keys[c][k] \ {key}
                            ELSE keys[c][k]
  BY <1>2, <1>3, <1>c, <1>d DEF set
<1>8. QED
  BY <1>1, <1>2, <1>6, <1>7 DEF f, n, key

\* A fan-out moves on: what the next client says is noted, and done if it says so.
LEMMA FanOutJobs ==
  ASSUME TypeOK, NEW j \in Slot, FanOut(j)
  PROVE  /\ jobs' \in [Slot -> {NoJob} \union Job]
         /\ \A i \in Slot : i # j => jobs'[i] = jobs[i]
         /\ jobs'[j] \in Job
         /\ jobs'[j].form = jobs[j].form /\ jobs'[j].key = jobs[j].key
         /\ jobs'[j].arg = jobs[j].arg /\ jobs'[j].heard = jobs[j].heard
         /\ jobs'[j].next = jobs[j].next + 1
         /\ \E done \in BOOLEAN :
              /\ jobs'[j].applied = jobs[j].applied \union {<<jobs[j].next, done>>}
              /\ keys' = IF done THEN Apply(j, jobs[j].next) ELSE keys
<1>1. jobs[j] \in Job /\ jobs[j].next \in Client
  BY NextTypes DEF FanOut
<1>2. jobs[j].next + 1 \in 1..(Clients + 1)
  BY <1>1, KeyManagementAssumption DEF Client
<1>a. PICK done \in BOOLEAN :
        /\ keys' = IF done THEN Apply(j, jobs[j].next) ELSE keys
        /\ jobs' = [jobs EXCEPT ![j].next = @ + 1,
                                ![j].applied = @ \union {<<jobs[j].next, done>>}]
  BY DEF FanOut
<1> DEFINE said == jobs[j].applied \union {<<jobs[j].next, done>>}
           n == jobs[j].next + 1
           new == [jobs[j] EXCEPT !.next = n, !.applied = said]
<1>b. said \in SUBSET (Client \X BOOLEAN) /\ n \in 1..(Clients + 1)
  BY <1>1, <1>2 DEF Job
<1>4. jobs' = [jobs EXCEPT ![j] = new]
  <2>1. jobs \in [Slot -> {NoJob} \union Job]
    BY DEF TypeOK, Job
  <2>2. QED
    BY <1>1, <1>a, <2>1 DEF Job
<1> HIDE DEF said, n
<1>3. /\ new \in Job /\ new.form = jobs[j].form /\ new.key = jobs[j].key
      /\ new.arg = jobs[j].arg /\ new.heard = jobs[j].heard /\ new.next = n
      /\ new.applied = said
  BY <1>1, <1>b DEF Job
<1> HIDE DEF new
<1>5. jobs \in [Slot -> {NoJob} \union Job]
  BY DEF TypeOK, Job
<1>6. /\ jobs' \in [Slot -> {NoJob} \union Job] /\ jobs'[j] = new
      /\ \A i \in Slot : i # j => jobs'[i] = jobs[i]
  BY <1>3, <1>4, <1>5
<1>7. /\ jobs'[j].applied = jobs[j].applied \union {<<jobs[j].next, done>>}
      /\ jobs'[j].next = jobs[j].next + 1
  BY <1>3, <1>6 DEF said, n
<1>8. QED
  BY <1>a, <1>3, <1>6, <1>7

\* The two outcomes of a submission.
FormRefused == error' = TRUE /\ UNCHANGED <<jobs, busy, overlapped>>
JobBegun(f, k) ==
  /\ busy' = TRUE /\ error' = FALSE
  /\ overlapped' = (overlapped \/ Serving # {})
  /\ \E j \in Slot \ Serving :
       /\ jobs' \in [Slot -> {NoJob} \union Job]
       /\ \A i \in Slot : i # j => jobs'[i] = jobs[i]
       /\ jobs'[j] \in Job
       /\ jobs'[j].form = f /\ jobs'[j].key = k /\ jobs'[j].arg = selected
       /\ jobs'[j].next = (IF selected = All THEN 1 ELSE selected) /\ jobs'[j].heard
       /\ jobs'[j].applied = {}

\* A form is submitted.
LEMMA SubmitJobs ==
  ASSUME TypeOK, NEW f \in Form, NEW k \in Key \union {Malformed}, Submit(f, k)
  PROVE  FormRefused \/ JobBegun(f, k)
<1> DEFINE Begins ==
             /\ busy' = TRUE /\ error' = FALSE
             /\ \E j \in Slot \ Serving :
                  /\ \A i \in 1..(j - 1) : i \in Serving
                  /\ jobs' = [jobs EXCEPT ![j] = [form |-> f, key |-> k, arg |-> selected,
                                                  next |-> IF selected = All THEN 1 ELSE selected,
                                                  applied |-> {}, heard |-> TRUE]]
             /\ overlapped' = (overlapped \/ Serving # {})
<1>1. CASE error' = TRUE /\ UNCHANGED <<jobs, busy, overlapped>>
  BY <1>1 DEF FormRefused
<1>2. CASE Begins
  <2> DEFINE n == IF selected = All THEN 1 ELSE selected
             new == [form |-> f, key |-> k, arg |-> selected, next |-> n,
                     applied |-> {}, heard |-> TRUE]
  <2>1. PICK j \in Slot \ Serving : jobs' = [jobs EXCEPT ![j] = new]
    BY <1>2
  <2>2. n \in 1..(Clients + 1) /\ selected \in 0..Clients
    BY KeyManagementAssumption DEF TypeOK, All
  <2> HIDE DEF n
  <2>3. new \in Job
    BY <2>2 DEF Job
  <2>4. /\ new.form = f /\ new.key = k /\ new.arg = selected /\ new.next = n /\ new.heard
        /\ new.applied = {}
    OBVIOUS
  <2> HIDE DEF new
  <2>5. jobs \in [Slot -> {NoJob} \union Job]
    BY DEF TypeOK, Job
  <2>6. /\ jobs' \in [Slot -> {NoJob} \union Job]
        /\ \A i \in Slot : i # j => jobs'[i] = jobs[i]
        /\ jobs'[j] = new
    BY <2>1, <2>3, <2>5
  <2>7. busy' = TRUE /\ error' = FALSE /\ overlapped' = (overlapped \/ Serving # {})
    BY <1>2
  <2>8. QED
    BY <2>3, <2>4, <2>6, <2>7 DEF n, JobBegun
<1>3. QED
  BY <1>1, <1>2 DEF Submit

\* The page hears of a failure.
LEMMA FailsType ==
  ASSUME TypeOK, NEW j \in Slot, MutationFails(j)
  PROVE  /\ busy' \in BOOLEAN /\ error' \in BOOLEAN
         /\ jobs[j].heard => ~busy' /\ error'
         /\ ~jobs[j].heard => busy' = busy /\ error' = error
<1>1. busy' \in BOOLEAN /\ error' \in BOOLEAN
  BY Zenon DEF MutationFails
<1>2. QED
  BY <1>1, JobTypes DEF MutationFails, TypeOK

\* The page is mounted again.
LEMMA RevisitSteps ==
  ASSUME TypeOK, Revisit
  PROVE  /\ jobs' \in [Slot -> {NoJob} \union Job]
         /\ \A j \in Slot : (jobs'[j] = NoJob <=> jobs[j] = NoJob) /\ jobs'[j].heard = FALSE
         /\ \A j \in Slot : /\ jobs'[j].form = jobs[j].form /\ jobs'[j].key = jobs[j].key
                            /\ jobs'[j].arg = jobs[j].arg /\ jobs'[j].next = jobs[j].next
                            /\ jobs'[j].applied = jobs[j].applied
         /\ selected' = All /\ busy' = FALSE /\ loading' = TRUE /\ error' = FALSE
         /\ crossed' \in BOOLEAN
         /\ refreshes' \in [Slot -> RefreshCall]
         /\ ~crossed' => Serving = {}
         /\ \E s \in Slot : \A t \in Slot :
              refreshes'[t] = IF t = s THEN Refresh(All, FALSE) ELSE NoRefresh
<1>1. PICK s \in Slot : Mount(s)
  BY DEF Revisit
<1> DEFINE none == [t \in Slot |-> NoRefresh]
<1>2. All \in 0..Clients /\ none \in [Slot -> RefreshCall] /\ FALSE \in BOOLEAN
  BY KeyManagementAssumption, FreeRefresh DEF All
<1>3. BeginRefresh(s, All, FALSE, none, Serving)
  BY <1>1 DEF Mount
<1> HIDE DEF none
<1>4. /\ refreshes' \in [Slot -> RefreshCall]
      /\ loading' = TRUE /\ error' = FALSE /\ crossed' \in BOOLEAN
      /\ refreshes'[s] = Refresh(All, FALSE)
      /\ \A t \in Slot : t # s => refreshes'[t] = none[t]
      /\ ~crossed' => Serving = {} /\ \A t \in Slot : none[t].arg = None
  <2>1. refreshes' \in [Slot -> RefreshCall]
    BY <1>2, <1>3, BeginType
  <2>2. loading' = TRUE /\ error' = FALSE
    BY <1>2, <1>3, BeginType
  <2>6. crossed' \in BOOLEAN
    BY <1>2, <1>3, BeginType
  <2>3. refreshes'[s] = Refresh(All, FALSE)
    BY <1>2, <1>3, BeginType
  <2>4. \A t \in Slot : t # s => refreshes'[t] = none[t]
    BY <1>2, <1>3 DEF BeginRefresh
  <2>5. ~crossed' => Serving = {} /\ \A t \in Slot : none[t].arg = None
    BY <1>3 DEF BeginRefresh
  <2>7. QED
    BY <2>1, <2>2, <2>3, <2>4, <2>5, <2>6
<1>5. /\ jobs' \in [Slot -> {NoJob} \union Job]
      /\ \A j \in Slot : jobs'[j] = [jobs[j] EXCEPT !.heard = FALSE]
  <2>1. jobs' = [j \in Slot |-> [jobs[j] EXCEPT !.heard = FALSE]]
    BY DEF Revisit
  <2>2. \A j \in Slot : [jobs[j] EXCEPT !.heard = FALSE] \in {NoJob} \union Job
    BY JobUnheard
  <2>3. QED
    BY <2>1, <2>2
<1>6. ASSUME NEW j \in Slot
      PROVE  (jobs'[j] = NoJob <=> jobs[j] = NoJob) /\ jobs'[j].heard = FALSE
  <2>1. jobs'[j] = [jobs[j] EXCEPT !.heard = FALSE]
    BY <1>5
  <2>2. QED
    BY <2>1, JobUnheard
<1>7. \A j \in Slot : /\ jobs'[j].form = jobs[j].form /\ jobs'[j].key = jobs[j].key
                      /\ jobs'[j].arg = jobs[j].arg /\ jobs'[j].next = jobs[j].next
                      /\ jobs'[j].applied = jobs[j].applied
  BY <1>5, JobUnheard
<1>8. selected' = All /\ busy' = FALSE
  BY <1>1 DEF Mount
<1>9. \A t \in Slot : refreshes'[t] = IF t = s THEN Refresh(All, FALSE) ELSE NoRefresh
  BY <1>4 DEF none
<1>10. QED
  BY <1>4, <1>5, <1>6, <1>7, <1>8, <1>9

\* Every step keeps the types: one case per action.
LEMMA StepType == TypeOK /\ [Next]_vars => TypeOK'
<1> SUFFICES ASSUME TypeOK, [Next]_vars PROVE TypeOK'
  OBVIOUS
<1> USE DEF Job, RefreshCall
<1>1. ASSUME NEW e \in 0..Clients, Select(e) PROVE TypeOK'
  <2>1. PICK s \in Slot : BeginRefresh(s, e, FALSE, refreshes, Serving)
    BY <1>1 DEF Select
  <2>2. /\ refreshes' \in [Slot -> RefreshCall]
        /\ loading' \in BOOLEAN /\ error' \in BOOLEAN /\ crossed' \in BOOLEAN
    BY <2>1, BeginType, RefreshTypes
  <2>3. QED
    BY <1>1, <2>2, MoveType DEF Select, TypeOK
<1>2. CASE ClickRefresh
  <2>1. PICK s \in Slot : BeginRefresh(s, selected, FALSE, refreshes, Serving)
    BY <1>2 DEF ClickRefresh
  <2>2. selected \in 0..Clients
    BY DEF TypeOK
  <2>3. /\ refreshes' \in [Slot -> RefreshCall]
        /\ loading' \in BOOLEAN /\ error' \in BOOLEAN /\ crossed' \in BOOLEAN
    BY <2>1, <2>2, BeginType, RefreshTypes
  <2>4. QED
    BY <1>2, <2>3, MoveType DEF ClickRefresh, TypeOK
<1>3. CASE Revisit
  <2>1. /\ refreshes' \in [Slot -> RefreshCall] /\ jobs' \in [Slot -> {NoJob} \union Job]
        /\ loading' \in BOOLEAN /\ error' \in BOOLEAN /\ crossed' \in BOOLEAN
        /\ busy' \in BOOLEAN
    BY <1>3, RevisitSteps
  <2>2. selected' \in 0..Clients
    BY <1>3, RevisitSteps, KeyManagementAssumption DEF All
  <2>3. /\ shown' \in [KindOfKey -> SUBSET Record] /\ report' \in SUBSET (Client \X BOOLEAN)
        /\ form' \in [Form -> Key \union {Malformed, None}]
    BY <1>3 DEF Revisit, Mount
  <2>4. moves' \in 0..MaxMoves /\ UNCHANGED <<keys, overlapped>>
    BY <1>3, MoveType DEF Revisit
  <2>5. QED
    BY <2>1, <2>2, <2>3, <2>4 DEF TypeOK
<1>4. ASSUME NEW f \in Form, NEW k \in Key \union {Malformed}, Submit(f, k) PROVE TypeOK'
  <2>1. form' \in [Form -> Key \union {Malformed, None}]
    BY <1>4 DEF Submit, TypeOK
  <2>2. jobs' \in [Slot -> {NoJob} \union Job]
    BY <1>4, SubmitJobs DEF FormRefused, JobBegun, TypeOK
  <2>3. busy' \in BOOLEAN /\ error' \in BOOLEAN
    BY <1>4, SubmitJobs DEF FormRefused, JobBegun, TypeOK
  <2>4. overlapped' \in BOOLEAN
    <3>1. overlapped' \in {overlapped, overlapped \/ Serving # {}}
      BY <1>4, SubmitJobs DEF FormRefused, JobBegun
    <3>2. (overlapped \/ Serving # {}) \in BOOLEAN
      BY Zenon
    <3>3. QED
      BY <3>1, <3>2 DEF TypeOK
  <2>5. moves' \in 0..MaxMoves /\ UNCHANGED <<keys, selected, shown, loading, report, refreshes, crossed>>
    BY <1>4, MoveType DEF Submit
  <2>6. QED
    BY <2>1, <2>2, <2>3, <2>4, <2>5 DEF TypeOK
<1>5. ASSUME NEW s \in Slot, NEW k \in KindOfKey, ListServed(s, k) PROVE TypeOK'
  BY <1>5, ListType DEF ListServed, TypeOK
<1>6. ASSUME NEW s \in Slot, ShowLists(s) PROVE TypeOK'
  <2>1. shown' \in [KindOfKey -> SUBSET Record]
    BY <1>6, CallTypes DEF ShowLists, Lists
  <2>2. QED
    BY <1>6, <2>1, EndsType DEF ShowLists, TypeOK
<1>7. ASSUME NEW s \in Slot, RefreshFails(s) PROVE TypeOK'
  BY <1>7, EndsType DEF RefreshFails, TypeOK
<1>8. ASSUME NEW j \in Slot, FanOut(j) PROVE TypeOK'
  <2>1. keys' \in [Client -> [KindOfKey -> SUBSET Key]]
    <3>1. keys' \in {keys, Apply(j, jobs[j].next)}
      BY <1>8, FanOutJobs
    <3>2. Apply(j, jobs[j].next) \in [Client -> [KindOfKey -> SUBSET Key]]
      BY <1>8, NextTypes DEF FanOut
    <3>3. QED
      BY <3>1, <3>2 DEF TypeOK
  <2>2. jobs' \in [Slot -> {NoJob} \union Job]
    BY <1>8, FanOutJobs
  <2>3. QED
    BY <1>8, <2>1, <2>2 DEF FanOut, page, TypeOK
<1>9. ASSUME NEW j \in Slot, ClientFails(j) PROVE TypeOK'
  <2>1. keys' \in [Client -> [KindOfKey -> SUBSET Key]]
    BY <1>9, NextTypes DEF ClientFails, TypeOK
  <2>2. jobs' \in [Slot -> {NoJob} \union Job]
    BY <1>9, JobEnds DEF ClientFails
  <2>3. QED
    BY <1>9, <2>1, <2>2, FailsType DEF ClientFails, MutationFails, TypeOK
<1>10. ASSUME NEW j \in Slot, Rejected(j) PROVE TypeOK'
  <2>1. jobs' \in [Slot -> {NoJob} \union Job]
    BY <1>10, JobEnds DEF Rejected
  <2>2. QED
    BY <1>10, <2>1, FailsType DEF Rejected, MutationFails, TypeOK
<1>11. ASSUME NEW j \in Slot, GiveUp(j) PROVE TypeOK'
  <2>1. jobs' \in [Slot -> {NoJob} \union Job]
    <3> DEFINE new == [jobs[j] EXCEPT !.heard = FALSE]
    <3>1. jobs' = [jobs EXCEPT ![j] = new]
      BY <1>11 DEF GiveUp
    <3>2. new \in {NoJob} \union Job
      BY JobUnheard
    <3> HIDE DEF new
    <3>3. QED
      BY <3>1, <3>2 DEF TypeOK
  <2>2. QED
    BY <1>11, <2>1, FailsType DEF GiveUp, MutationFails, TypeOK
<1>12. ASSUME NEW j \in Slot, Dropped(j) PROVE TypeOK'
  <2>1. jobs' \in [Slot -> {NoJob} \union Job]
    BY <1>12, JobEnds DEF Dropped
  <2>2. QED
    BY <1>12, <2>1 DEF Dropped, page, TypeOK
<1>13. ASSUME NEW j \in Slot, MutationEnds(j) PROVE TypeOK'
  <2>1. jobs' \in [Slot -> {NoJob} \union Job]
    BY <1>13, JobEnds DEF MutationEnds
  <2>2. CASE jobs[j].heard
    <3>1. PICK s \in Slot : BeginRefresh(s, jobs[j].arg, TRUE, refreshes, Serving \ {j})
      BY <1>13, <2>2 DEF MutationEnds
    <3>2. jobs[j].arg \in 0..Clients
      BY <2>2, JobTypes
    <3>3. /\ refreshes' \in [Slot -> RefreshCall]
          /\ loading' \in BOOLEAN /\ error' \in BOOLEAN /\ crossed' \in BOOLEAN
      BY <3>1, <3>2, BeginType, RefreshTypes
    <3>4. form' \in [Form -> Key \union {Malformed, None}] /\ report' = jobs[j].applied
      BY <1>13, <2>2 DEF MutationEnds, TypeOK
    <3>7. report' \in SUBSET (Client \X BOOLEAN)
      BY <2>2, <3>4, JobTypes
    <3>5. UNCHANGED <<keys, selected, shown, busy, moves, overlapped>>
      BY <1>13 DEF MutationEnds
    <3>6. QED
      BY <2>1, <3>3, <3>4, <3>5, <3>7 DEF TypeOK
  <2>3. CASE ~jobs[j].heard
    BY <1>13, <2>1, <2>3 DEF MutationEnds, TypeOK
  <2>4. QED
    BY <2>2, <2>3
<1>16. ASSUME NEW f \in Form, NEW k \in Key \union {Malformed}, Edit(f, k) PROVE TypeOK'
  <2>1. form' \in [Form -> Key \union {Malformed, None}]
    BY <1>16 DEF Edit, TypeOK
  <2>2. QED
    BY <1>16, <2>1, MoveType DEF Edit, TypeOK
<1>14. CASE UNCHANGED vars
  BY <1>14 DEF vars, page, TypeOK
<1>15. QED
  BY <1>1, <1>2, <1>3, <1>4, <1>5, <1>6, <1>7, <1>8, <1>9, <1>10, <1>11, <1>12, <1>13, <1>14,
     <1>16, UsedForms
  DEF Next, Answer, Serve

\* Every reachable state of the page, the jobs and the clients has the types
\* of KeyManagementPage.tsx and keymanager.rs, for any number of clients,
\* keys, refreshes and jobs.
THEOREM TypeCorrect == Spec => []TypeOK
  BY InitType, StepType, PTL DEF Spec
-----------------------------------------------------------------------------
(***************************************************************************)
(* The invariant.                                                          *)
(***************************************************************************)
Active == {s \in Slot : refreshes[s].arg # None}
Heard == {j \in Slot : jobs[j].heard}

\* The busy mark belongs to one mutation: to the job the page awaits, or to the
\* refresh that follows it.
BusyInv ==
  /\ \A j \in Heard : busy /\ jobs[j].arg = selected
  /\ \A i, j \in Heard : i = j
  /\ \A s \in Slot : refreshes[s].after => busy /\ s \in Active /\ Heard = {}
  /\ \A s, t \in Slot : refreshes[s].after /\ refreshes[t].after => s = t

\* A job that goes on unheard has left its error on display, until the page
\* awaits another one.
ErrorInv == ~crossed => \A j \in Serving \ Heard : error \/ Heard # {}

\* A refresh begun alone stays alone, and the page says that it is loading.
RefreshInv ==
  ~crossed => (\A s, t \in Active : s = t) /\ (Active # {} => loading)

\* With no job and no error what is shown, or what a refresh has gathered, is
\* what the selected clients hold.
CalmInv ==
  ~crossed /\ ~error /\ Serving = {} =>
    /\ Active = {} => shown = [k \in KindOfKey |-> Listing(k, selected)]
    /\ \A s \in Active : /\ refreshes[s].arg = selected
                         /\ \A k \in KindOfKey : refreshes[s].list[k] \in {None, Listing(k, selected)}

Holds(f, k, c) == IF f.op = "import" THEN k \in keys[c][f.kind] ELSE k \notin keys[c][f.kind]

\* The clients a job has passed have all answered, and those that said so of a
\* job served alone have carried it out.
JobInv ==
  /\ ~overlapped => \A i, j \in Serving : i = j
  /\ \A j \in Serving : jobs[j].arg # All => jobs[j].next \in {jobs[j].arg, jobs[j].arg + 1}
  /\ \A j \in Serving : \A c \in Targets(jobs[j].arg) :
       c < jobs[j].next => \E done \in BOOLEAN : <<c, done>> \in jobs[j].applied
  /\ ~overlapped =>
       \A j \in Serving : \A c \in Client :
         <<c, TRUE>> \in jobs[j].applied => Holds(jobs[j].form, jobs[j].key, c)

PageInv == BusyInv /\ ErrorInv /\ RefreshInv /\ CalmInv /\ JobInv

\* The page that loads its first lists satisfies the invariant.
LEMMA InitInv == Init => PageInv
<1> SUFFICES ASSUME Init PROVE PageInv
  OBVIOUS
<1>1. Serving = {} /\ Heard = {}
  BY FreeSlot DEF Init, Serving, Heard
<1>2. All \in 0..Clients
  BY KeyManagementAssumption DEF All
<1>3. \A s \in Slot : /\ refreshes[s].after = FALSE
                      /\ s \in Active => s = 1 /\ refreshes[s] = Refresh(All, FALSE)
  BY <1>2, FreeRefresh, NewRefresh DEF Init, Active
<1>4. BusyInv /\ ErrorInv /\ JobInv
  BY <1>1, <1>3 DEF BusyInv, ErrorInv, JobInv
<1>5. RefreshInv
  BY <1>3 DEF RefreshInv, Init, Active
<1>6. CalmInv
  <2>1. \A s \in Active : /\ refreshes[s].arg = selected
                          /\ \A k \in KindOfKey : refreshes[s].list[k] = None
    BY <1>2, <1>3, NewRefresh DEF Init, Active
  <2>2. ASSUME NEW k \in KindOfKey PROVE Listing(k, selected) = {}
    BY ClientBounds, <1>2 DEF Init, Listing, Record
  <2>3. shown = [k \in KindOfKey |-> Listing(k, selected)]
    BY <2>2 DEF Init
  <2>4. QED
    BY <2>1, <2>3 DEF CalmInv
<1>7. QED
  BY <1>4, <1>5, <1>6 DEF PageInv

\* What the page knows of a refresh begun just now.
LEMMA FreshRefresh ==
  ASSUME NEW s \in Slot, NEW after \in BOOLEAN, selected' \in 0..Clients,
         ~crossed' => Serving' = {} /\ \A t \in Slot : t # s => refreshes'[t].arg = None,
         refreshes'[s] = Refresh(selected', after), loading'
  PROVE  ErrorInv' /\ RefreshInv' /\ CalmInv'
<1>1. /\ refreshes'[s].arg = selected' /\ selected' # None
      /\ \A k \in KindOfKey : refreshes'[s].list[k] = None
  BY NewRefresh, KeyManagementAssumption
<1>2. ~crossed' => Active' = {s}
  BY <1>1 DEF Active
<1>3. ErrorInv'
  BY DEF ErrorInv
<1>4. RefreshInv'
  BY <1>2 DEF RefreshInv
<1>5. CalmInv'
  BY <1>1, <1>2 DEF CalmInv
<1>6. QED
  BY <1>3, <1>4, <1>5

\* A refresh begun beside the calls under way.
LEMMA BeginBeside ==
  ASSUME TypeOK, NEW s \in Slot, NEW e \in 0..Clients, NEW after \in BOOLEAN, NEW serving,
         BeginRefresh(s, e, after, refreshes, serving)
  PROVE  /\ refreshes[s].arg = None /\ refreshes'[s] = Refresh(e, after)
         /\ \A t \in Slot : t # s => refreshes'[t] = refreshes[t]
         /\ Active' = Active \union {s}
         /\ ~crossed' => serving = {} /\ \A t \in Slot : t # s => refreshes'[t].arg = None
         /\ loading' /\ ~error'
<1>1. refreshes[s].arg = None /\ refreshes'[s] = Refresh(e, after) /\ loading' /\ ~error'
  BY RefreshTypes DEF BeginRefresh
<1>2. \A t \in Slot : t # s => refreshes'[t] = refreshes[t]
  BY RefreshTypes DEF BeginRefresh
<1>3. refreshes'[s].arg # None
  BY <1>1, NewRefresh, KeyManagementAssumption
<1>4. Active' = Active \union {s}
  BY <1>2, <1>3 DEF Active
<1>5. ~crossed' => serving = {} /\ \A t \in Slot : refreshes[t].arg = None
  BY DEF BeginRefresh
<1>6. QED
  BY <1>1, <1>2, <1>4, <1>5

\* What the page does with its refreshes leaves the jobs alone.
LEMMA JobsAlone ==
  ASSUME JobInv, UNCHANGED <<keys, jobs, overlapped>> PROVE JobInv'
  BY DEF JobInv, Serving, Targets, Client, Holds

\* Nor does what leaves the jobs' requests and answers alone.
LEMMA JobsKept ==
  ASSUME JobInv, Serving' = Serving, UNCHANGED <<keys, overlapped>>,
         \A i \in Serving : /\ jobs'[i].form = jobs[i].form /\ jobs'[i].key = jobs[i].key
                            /\ jobs'[i].arg = jobs[i].arg /\ jobs'[i].next = jobs[i].next
                            /\ jobs'[i].applied = jobs[i].applied
  PROVE  JobInv'
<1>1. ~overlapped' => \A i, j \in Serving' : i = j
  BY DEF JobInv
<1>2. \A i \in Serving' : jobs'[i].arg # All => jobs'[i].next \in {jobs'[i].arg, jobs'[i].arg + 1}
  BY DEF JobInv
<1>3. \A i \in Serving' : \A c \in Targets(jobs'[i].arg) :
        c < jobs'[i].next => \E done \in BOOLEAN : <<c, done>> \in jobs'[i].applied
  BY DEF JobInv
<1>4. \A i \in Serving' : ~overlapped' => \A c \in Client :
        <<c, TRUE>> \in jobs'[i].applied => Holds(jobs[i].form, jobs[i].key, c)'
  BY DEF JobInv, Holds
<1>5. QED
  BY <1>1, <1>2, <1>3, <1>4 DEF JobInv, Targets, Client

\* Another selection begins a refresh for it.
LEMMA SelectInv ==
  ASSUME TypeOK, PageInv, NEW e \in 0..Clients, Select(e) PROVE PageInv'
<1>1. PICK s \in Slot : BeginRefresh(s, e, FALSE, refreshes, Serving)
  BY DEF Select
<1>2. selected' = e /\ ~busy /\ UNCHANGED <<keys, jobs, busy, form, overlapped>>
  BY DEF Select
<1>3. Serving' = Serving /\ Heard' = Heard
  BY <1>2 DEF Serving, Heard
<1>4. ErrorInv' /\ RefreshInv' /\ CalmInv'
  BY <1>1, <1>2, <1>3, BeginBeside, FreshRefresh
<1>5. BusyInv'
  <2>1. Heard = {} /\ \A t \in Slot : ~refreshes[t].after
    BY <1>2 DEF PageInv, BusyInv
  <2>2. \A t \in Slot : ~refreshes'[t].after
    <3>1. refreshes'[s] = Refresh(e, FALSE) /\ \A t \in Slot : t # s => refreshes'[t] = refreshes[t]
      BY <1>1, BeginBeside
    <3>2. ~Refresh(e, FALSE).after
      BY NewRefresh
    <3>3. QED
      BY <2>1, <3>1, <3>2
  <2>3. QED
    BY <1>3, <2>1, <2>2 DEF BusyInv
<1>6. JobInv'
  BY <1>2, JobsAlone DEF PageInv
<1>7. QED
  BY <1>4, <1>5, <1>6 DEF PageInv

\* The refresh button begins a refresh for the present selection.
LEMMA ClickInv ==
  ASSUME TypeOK, PageInv, ClickRefresh PROVE PageInv'
<1>1. PICK s \in Slot : BeginRefresh(s, selected, FALSE, refreshes, Serving)
  BY DEF ClickRefresh
<1>2. ~busy /\ UNCHANGED <<keys, jobs, selected, busy, form, overlapped>>
  BY DEF ClickRefresh
<1>3. Serving' = Serving /\ Heard' = Heard /\ selected \in 0..Clients
  BY <1>2 DEF Serving, Heard, TypeOK
<1>4. ErrorInv' /\ RefreshInv' /\ CalmInv'
  BY <1>1, <1>2, <1>3, BeginBeside, FreshRefresh
<1>5. BusyInv'
  <2>1. Heard = {} /\ \A t \in Slot : ~refreshes[t].after
    BY <1>2 DEF PageInv, BusyInv
  <2>2. \A t \in Slot : ~refreshes'[t].after
    <3>1. refreshes'[s] = Refresh(selected, FALSE) /\ \A t \in Slot : t # s => refreshes'[t] = refreshes[t]
      BY <1>1, <1>3, BeginBeside
    <3>2. ~Refresh(selected, FALSE).after
      BY <1>3, NewRefresh
    <3>3. QED
      BY <2>1, <3>1, <3>2
  <2>3. QED
    BY <1>3, <2>1, <2>2 DEF BusyInv
<1>6. JobInv'
  BY <1>2, JobsAlone DEF PageInv
<1>7. QED
  BY <1>4, <1>5, <1>6 DEF PageInv

\* A page entered anew hears no earlier job or refresh.
LEMMA RevisitInv ==
  ASSUME TypeOK, PageInv, Revisit PROVE PageInv'
<1>1. Serving' = Serving /\ Heard' = {}
  BY RevisitSteps DEF Serving, Heard
<1>2. PICK s \in Slot : \A t \in Slot :
        refreshes'[t] = IF t = s THEN Refresh(All, FALSE) ELSE NoRefresh
  BY RevisitSteps
<1>3. selected' = All /\ All \in 0..Clients /\ loading' /\ (~crossed' => Serving = {})
  BY RevisitSteps, KeyManagementAssumption DEF All
<1>4. ErrorInv' /\ RefreshInv' /\ CalmInv'
  BY <1>1, <1>2, <1>3, FreeRefresh, FreshRefresh
<1>5. BusyInv'
  <2>1. \A t \in Slot : ~refreshes'[t].after
    BY <1>2, <1>3, FreeRefresh, NewRefresh
  <2>2. QED
    BY <1>1, <2>1 DEF BusyInv
<1>6. JobInv'
  <2>1. UNCHANGED <<keys, overlapped>>
    BY DEF Revisit
  <2>2. QED
    BY <1>1, <2>1, RevisitSteps, JobsKept DEF PageInv, Serving
<1>7. QED
  BY <1>4, <1>5, <1>6 DEF PageInv

\* A list is taken from the clients as they are.
LEMMA ListInv ==
  ASSUME TypeOK, PageInv, NEW s \in Slot, NEW k \in KindOfKey, ListServed(s, k) PROVE PageInv'
<1>1. \A t \in Slot : /\ refreshes'[t].arg = refreshes[t].arg
                      /\ refreshes'[t].after = refreshes[t].after
  BY ListType
<1>2. UNCHANGED <<keys, jobs, selected, shown, loading, busy, error, form, crossed, overlapped>>
  BY DEF ListServed
<1>3. Active' = Active /\ Serving' = Serving /\ Heard' = Heard
  BY <1>1, <1>2 DEF Active, Serving, Heard
<1>4. BusyInv'
  BY <1>1, <1>2, <1>3 DEF PageInv, BusyInv
<1>5. ErrorInv' /\ RefreshInv'
  BY <1>2, <1>3 DEF PageInv, ErrorInv, RefreshInv
<1>6. CalmInv'
  <2> SUFFICES ASSUME ~crossed, ~error, Serving = {} PROVE CalmInv'
    BY <1>2, <1>3 DEF CalmInv
  <2>1. \A h \in KindOfKey : Listing(h, selected)' = Listing(h, selected)
    BY <1>2 DEF Listing, Targets, Client, Record
  <2>2. Active = {} => shown = [h \in KindOfKey |-> Listing(h, selected)]
    BY DEF PageInv, CalmInv
  <2>3. \A t \in Active : /\ refreshes[t].arg = selected
                          /\ \A h \in KindOfKey :
                               refreshes[t].list[h] \in {None, Listing(h, selected)}
    BY DEF PageInv, CalmInv
  <2>4. s \in Active
    BY DEF ListServed, Active
  <2>5. ASSUME NEW t \in Active, NEW h \in KindOfKey
        PROVE  refreshes'[t].list[h] \in {None, Listing(h, selected)}
    <3>1. refreshes'[t].list[h] = IF t = s /\ h = k THEN Listing(k, refreshes[s].arg)
                                  ELSE refreshes[t].list[h]
      BY ListType DEF Active
    <3>2. QED
      BY <2>3, <2>4, <3>1
  <2>6. Active' = {} => shown' = [h \in KindOfKey |-> Listing(h, selected)']
    BY <1>2, <1>3, <2>1, <2>2
  <2>7. \A t \in Active' : /\ refreshes'[t].arg = selected'
                           /\ \A h \in KindOfKey :
                                refreshes'[t].list[h] \in {None, Listing(h, selected)'}
    <3>1. \A t \in Active : t \in Slot
      BY DEF Active
    <3>2. QED
      BY <1>1, <1>2, <1>3, <2>1, <2>3, <2>5, <3>1
  <2>8. QED
    BY <2>6, <2>7 DEF CalmInv
<1>7. JobInv'
  BY <1>2, JobsAlone DEF PageInv
<1>8. QED
  BY <1>4, <1>5, <1>6, <1>7 DEF PageInv

\* The end of a refresh, but for what is shown.
LEMMA EndInv ==
  ASSUME TypeOK, PageInv, NEW s \in Active, RefreshEnds(s), error' \in BOOLEAN, error => error'
  PROVE  /\ BusyInv' /\ ErrorInv' /\ RefreshInv' /\ JobInv'
         /\ Active' = Active \ {s} /\ Serving' = Serving
         /\ ~crossed => Active' = {}
<1>1. s \in Slot
  BY DEF Active
<1>2. /\ \A t \in Slot : refreshes'[t] = IF t = s THEN NoRefresh ELSE refreshes[t]
      /\ busy' = (busy /\ ~refreshes[s].after)
      /\ UNCHANGED <<keys, jobs, selected, form, crossed, overlapped>>
  BY <1>1, EndsType
<1>3. Active' = Active \ {s}
  BY <1>2, FreeRefresh DEF Active
<1>4. Serving' = Serving /\ Heard' = Heard
  BY <1>2 DEF Serving, Heard
<1>5. ~crossed => Active' = {}
  BY <1>3 DEF PageInv, RefreshInv
<1>6. BusyInv'
  <2>1. \A j \in Heard : jobs[j].arg = selected
    BY DEF PageInv, BusyInv
  <2>2. Heard # {} => busy /\ ~refreshes[s].after
    BY <1>1 DEF PageInv, BusyInv
  <2>3. \A t \in Slot : refreshes'[t].after => t # s /\ refreshes[t].after
    BY <1>2, FreeRefresh
  <2>4. \A t \in Slot : refreshes'[t].after => busy /\ ~refreshes[s].after /\ t \in Active /\ Heard = {}
    BY <1>1, <2>3 DEF PageInv, BusyInv
  <2>5. \A t, u \in Slot : refreshes'[t].after /\ refreshes'[u].after => t = u
    BY <2>3 DEF PageInv, BusyInv
  <2>6. \A i, j \in Heard : i = j
    BY DEF PageInv, BusyInv
  <2>7. QED
    BY <1>2, <1>3, <1>4, <2>1, <2>2, <2>3, <2>4, <2>5, <2>6 DEF BusyInv
<1>7. ErrorInv'
  BY <1>2, <1>4 DEF PageInv, ErrorInv
<1>8. RefreshInv'
  BY <1>2, <1>5 DEF RefreshInv
<1>9. JobInv'
  BY <1>2, JobsAlone DEF PageInv
<1>10. QED
  BY <1>3, <1>4, <1>5, <1>6, <1>7, <1>8, <1>9

\* Both lists are shown at once, and a refresh after a mutation ends it.
LEMMA ShowInv ==
  ASSUME TypeOK, PageInv, NEW s \in Slot, ShowLists(s) PROVE PageInv'
<1>1. s \in Active /\ RefreshEnds(s) /\ error' = error /\ shown' = refreshes[s].list
  BY DEF ShowLists, Active
<1>2. error' \in BOOLEAN
  BY <1>1 DEF TypeOK
<1>3. /\ BusyInv' /\ ErrorInv' /\ RefreshInv' /\ JobInv'
      /\ Serving' = Serving /\ (~crossed => Active' = {})
  BY <1>1, <1>2, EndInv
<1>4. CalmInv'
  <2>1. UNCHANGED <<keys, selected, crossed>>
    BY <1>1 DEF RefreshEnds
  <2>2. \A k \in KindOfKey : Listing(k, selected)' = Listing(k, selected)
    BY <2>1 DEF Listing, Targets, Client, Record
  <2> SUFFICES ASSUME ~crossed, ~error, Serving = {} PROVE CalmInv'
    BY <1>1, <1>3, <2>1 DEF CalmInv
  <2>3. \A k \in KindOfKey : refreshes[s].list[k] = Listing(k, selected)
    BY <1>1 DEF PageInv, CalmInv, ShowLists
  <2>4. refreshes[s].list \in [KindOfKey -> Lists]
    BY CallTypes
  <2>5. shown' = [k \in KindOfKey |-> Listing(k, selected)']
    BY <1>1, <2>2, <2>3, <2>4
  <2>6. QED
    BY <1>3, <2>5 DEF CalmInv
<1>5. QED
  BY <1>3, <1>4 DEF PageInv

\* A refresh that fails leaves an error on display.
LEMMA RefreshFailsInv ==
  ASSUME TypeOK, PageInv, NEW s \in Slot, RefreshFails(s) PROVE PageInv'
<1>1. s \in Active /\ RefreshEnds(s) /\ error' = TRUE
  BY DEF RefreshFails, Active
<1>2. BusyInv' /\ ErrorInv' /\ RefreshInv' /\ JobInv'
  BY <1>1, EndInv
<1>3. QED
  BY <1>1, <1>2 DEF PageInv, CalmInv

\* A submitted form is refused by the page or begins a job.
LEMMA SubmitInv ==
  ASSUME TypeOK, PageInv, NEW f \in Form, NEW k \in Key \union {Malformed}, Submit(f, k)
  PROVE  PageInv'
<1>1. ~busy /\ form' = [form EXCEPT ![f] = k]
  BY DEF Submit
<1>2. UNCHANGED <<keys, selected, shown, loading, refreshes, crossed>>
  BY DEF Submit
<1>3. Heard = {} /\ \A t \in Slot : ~refreshes[t].after
  BY <1>1 DEF PageInv, BusyInv
<1>4. Active' = Active
  BY <1>2 DEF Active
<1>5. RefreshInv'
  BY <1>2, <1>4 DEF PageInv, RefreshInv
<1>6. CASE FormRefused
  <2>1. Serving' = Serving /\ Heard' = Heard
    BY <1>6 DEF FormRefused, Serving, Heard
  <2>2. BusyInv'
    BY <1>2, <1>3, <2>1 DEF BusyInv
  <2>3. JobInv'
    BY <1>2, <1>6, JobsAlone DEF FormRefused, PageInv
  <2>4. QED
    BY <1>5, <1>6, <2>2, <2>3 DEF FormRefused, PageInv, ErrorInv, CalmInv
<1>7. CASE JobBegun(f, k)
  <2>1. PICK j \in Slot \ Serving :
           /\ \A i \in Slot : i # j => jobs'[i] = jobs[i]
           /\ jobs'[j] \in Job
           /\ jobs'[j].form = f /\ jobs'[j].key = k /\ jobs'[j].arg = selected
           /\ jobs'[j].next = (IF selected = All THEN 1 ELSE selected) /\ jobs'[j].heard
           /\ jobs'[j].applied = {}
    BY <1>7 DEF JobBegun
  <2>2. Heard' = {j}
    BY <1>3, <2>1 DEF Heard
  <2>3. Serving' = Serving \union {j}
    BY <2>1, FreeSlot DEF Serving
  <2>5. BusyInv'
    BY <1>2, <1>3, <1>7, <2>1, <2>2 DEF JobBegun, BusyInv
  <2>6. ErrorInv'
    BY <2>2 DEF ErrorInv
  <2>7. CalmInv'
    BY <2>3 DEF CalmInv
  <2>8. JobInv'
    <3>1. selected \in 0..Clients
      BY DEF TypeOK
    <3>2. \A i \in Serving' : jobs'[i].arg # All => jobs'[i].next \in {jobs'[i].arg, jobs'[i].arg + 1}
      <4>1. jobs'[j].arg # All => jobs'[j].next \in {jobs'[j].arg, jobs'[j].arg + 1}
        BY <2>1
      <4>2. \A i \in Serving : i \in Slot /\ i # j
        BY <2>1 DEF Serving
      <4>3. QED
        BY <2>1, <2>3, <4>1, <4>2 DEF PageInv, JobInv
    <3>3. ~overlapped' => Serving' = {j}
      BY <1>7, <2>3 DEF JobBegun
    <3>4. ASSUME NEW c \in Targets(jobs'[j].arg) PROVE ~(c < jobs'[j].next)
      BY <2>1, <3>1, KeyManagementAssumption, <3>4 DEF Targets, Client, All
    <3>5. \A i \in Serving' : \A c \in Targets(jobs'[i].arg) :
            c < jobs'[i].next => \E done \in BOOLEAN : <<c, done>> \in jobs'[i].applied
      <4>1. \A i \in Serving : i \in Slot /\ i # j
        BY <2>1 DEF Serving
      <4>2. QED
        BY <2>1, <2>3, <3>4, <4>1 DEF PageInv, JobInv
    <3>6. ~overlapped' => \A c \in Client : <<c, TRUE>> \notin jobs'[j].applied
      BY <2>1
    <3>7. QED
      BY <3>2, <3>3, <3>5, <3>6 DEF JobInv, Targets, Client
  <2>9. QED
    BY <1>5, <2>5, <2>6, <2>7, <2>8 DEF PageInv
<1>8. QED
  BY <1>6, <1>7, SubmitJobs

\* The next client answers.
LEMMA FanOutInv ==
  ASSUME TypeOK, PageInv, NEW j \in Slot, FanOut(j) PROVE PageInv'
<1>1. /\ \A i \in Slot : i # j => jobs'[i] = jobs[i]
      /\ jobs'[j] \in Job
      /\ jobs'[j].form = jobs[j].form /\ jobs'[j].key = jobs[j].key
      /\ jobs'[j].arg = jobs[j].arg /\ jobs'[j].heard = jobs[j].heard
      /\ jobs'[j].next = jobs[j].next + 1
  BY FanOutJobs
<1>d. PICK done \in BOOLEAN :
        /\ jobs'[j].applied = jobs[j].applied \union {<<jobs[j].next, done>>}
        /\ keys' = IF done THEN Apply(j, jobs[j].next) ELSE keys
  BY FanOutJobs
<1>2. UNCHANGED <<selected, shown, loading, busy, error, form, refreshes, crossed, overlapped>>
  BY DEF FanOut, page
<1>3. j \in Serving
  BY DEF FanOut, HasNext, Serving
<1>4. Serving' = Serving /\ Heard' = Heard /\ Active' = Active
  BY <1>1, <1>2, <1>3, FreeSlot DEF Serving, Heard, Active
<1>5. BusyInv'
  <2>1. \A i \in Heard : jobs'[i].arg = jobs[i].arg
    BY <1>1 DEF Heard
  <2>2. QED
    BY <1>2, <1>4, <2>1 DEF PageInv, BusyInv
<1>6. ErrorInv' /\ RefreshInv'
  BY <1>2, <1>4 DEF PageInv, ErrorInv, RefreshInv
<1>7. CalmInv'
  BY <1>3, <1>4 DEF CalmInv
<1>8. JobInv'
  <2> DEFINE n == jobs[j].next
             arg == jobs[j].arg
  <2>1. jobs[j] \in Job /\ n \in Client /\ n \in Targets(arg)
    BY NextTypes DEF FanOut, HasNext
  <2>2. \A i \in Serving' : jobs'[i].arg # All => jobs'[i].next \in {jobs'[i].arg, jobs'[i].arg + 1}
    <3>1. arg # All => jobs'[j].next \in {arg, arg + 1}
      BY <1>1, <2>1 DEF Targets
    <3>2. \A i \in Serving : i \in Slot
      BY DEF Serving
    <3>3. QED
      BY <1>1, <1>4, <3>1, <3>2 DEF PageInv, JobInv
  <2>3. ~overlapped' => Serving' = {j}
    BY <1>2, <1>3, <1>4 DEF PageInv, JobInv
  <2>4. ASSUME NEW i \in Serving', NEW c \in Targets(jobs'[i].arg), c < jobs'[i].next
        PROVE  \E said \in BOOLEAN : <<c, said>> \in jobs'[i].applied
    <3>1. CASE i # j
      BY <1>1, <1>4, <2>4, <3>1 DEF PageInv, JobInv, Serving
    <3>2. CASE i = j
      <4>1. c \in Client /\ c \in Targets(arg) /\ c < n + 1
        BY <1>1, <2>1, <2>4, <3>2, ClientBounds DEF Job
      <4>2. c < n \/ c = n
        BY <2>1, <4>1, KeyManagementAssumption DEF Client
      <4>3. CASE c = n
        BY <1>d, <3>2, <4>3
      <4>4. CASE c < n
        <5>1. PICK said \in BOOLEAN : <<c, said>> \in jobs[j].applied
          BY <1>3, <4>1, <4>4 DEF PageInv, JobInv
        <5>2. QED
          BY <1>d, <3>2, <5>1
      <4>5. QED
        BY <4>2, <4>3, <4>4
    <3>3. QED
      BY <3>1, <3>2
  <2>5. ASSUME ~overlapped', NEW i \in Serving', NEW c \in Client, <<c, TRUE>> \in jobs'[i].applied
        PROVE  Holds(jobs[i].form, jobs[i].key, c)'
    <3>1. i = j /\ ~overlapped
      BY <1>2, <2>3, <2>5
    <3>2. jobs[j].form \in Form /\ jobs[j].form.kind \in KindOfKey
      BY <2>1 DEF Job, Form
    <3>3. <<c, TRUE>> \in jobs[j].applied \/ (c = n /\ done)
      BY <1>d, <2>5, <3>1
    <3>4. <<c, TRUE>> \in jobs[j].applied => Holds(jobs[j].form, jobs[j].key, c)
      BY <1>3, <3>1 DEF PageInv, JobInv
    <3>5. done => keys'[c][jobs[j].form.kind] =
            IF c = n THEN IF jobs[j].form.op = "import"
                          THEN keys[c][jobs[j].form.kind] \union {jobs[j].key}
                          ELSE keys[c][jobs[j].form.kind] \ {jobs[j].key}
            ELSE keys[c][jobs[j].form.kind]
      <4>1. HasNext(j)
        BY DEF FanOut
      <4>2. \A k \in KindOfKey :
              Apply(j, n)[c][k] =
                IF c = n /\ k = jobs[j].form.kind
                THEN IF jobs[j].form.op = "import" THEN keys[c][k] \union {jobs[j].key}
                     ELSE keys[c][k] \ {jobs[j].key}
                ELSE keys[c][k]
        BY <4>1, NextTypes
      <4>3. done => keys' = Apply(j, n)
        BY <1>d
      <4> HIDE DEF n
      <4>4. QED
        BY <3>2, <4>2, <4>3
    <3>6. ~done => keys' = keys
      BY <1>d
    <3>7. QED
      BY <1>1, <3>1, <3>3, <3>4, <3>5, <3>6 DEF Holds
  <2>6. ~overlapped' => \A i, h \in Serving' : i = h
    BY <2>3
  <2>7. QED
    BY <2>2, <2>4, <2>5, <2>6 DEF JobInv, Targets, Client
<1>9. QED
  BY <1>5, <1>6, <1>7, <1>8 DEF PageInv

\* A job that ends leaves the others alone.
LEMMA JobLess ==
  ASSUME TypeOK, JobInv, NEW j \in Slot, jobs' = [jobs EXCEPT ![j] = NoJob],
         overlapped' = overlapped, j \in Serving
  PROVE  /\ Serving' = Serving \ {j} /\ Heard' = Heard \ {j}
         /\ \A i \in Serving' : jobs'[i] = jobs[i]
         /\ JobInv'
<1>1. \A i \in Slot : jobs'[i] = IF i = j THEN NoJob ELSE jobs[i]
  BY JobEnds
<1>2. Serving' = Serving \ {j} /\ Heard' = Heard \ {j}
  BY <1>1, FreeSlot DEF Serving, Heard
<1>3. \A i \in Serving' : i \in Serving /\ jobs'[i] = jobs[i]
  BY <1>1, <1>2 DEF Serving
<1>4. ~overlapped => Serving' = {}
  BY <1>2 DEF JobInv
<1>5. JobInv'
  BY <1>3, <1>4 DEF JobInv
<1>6. QED
  BY <1>2, <1>3, <1>5

\* A job ends without success: the page has heard of it and shows an error,
\* or has not and stays as it is.
LEMMA EndWithoutSuccess ==
  ASSUME TypeOK, PageInv, NEW j \in Slot, j \in Serving, jobs' = [jobs EXCEPT ![j] = NoJob],
         jobs[j].heard => error', ~jobs[j].heard => busy' = busy /\ error' = error,
         UNCHANGED <<selected, shown, loading, form, refreshes, crossed, overlapped>>
  PROVE  PageInv'
<1>1. /\ Serving' = Serving \ {j} /\ Heard' = Heard \ {j}
      /\ \A i \in Serving' : jobs'[i] = jobs[i]
      /\ JobInv'
  BY JobLess DEF PageInv
<1>2. Active' = Active
  BY DEF Active
<1>3. Heard \subseteq Serving /\ Serving \subseteq Slot
  BY JobTypes DEF Heard, Serving
<1>4. BusyInv'
  <2>1. \A i \in Heard' : i \in Serving' /\ i \in Heard
    BY <1>1, <1>3
  <2>2. j \in Heard => Heard' = {} /\ \A s \in Slot : ~refreshes[s].after
    BY <1>1 DEF PageInv, BusyInv
  <2>3. j \notin Heard => busy' = busy
    BY DEF Heard
  <2>4. QED
    BY <1>1, <1>2, <2>1, <2>2, <2>3 DEF PageInv, BusyInv
<1>5. j \notin Heard /\ ~crossed => error' \/ Heard' # {}
  BY <1>1 DEF PageInv, ErrorInv, Heard
<1>6. j \in Heard => error'
  BY DEF Heard
<1>7. ErrorInv'
  BY <1>5, <1>6 DEF ErrorInv
<1>8. RefreshInv'
  BY <1>2 DEF PageInv, RefreshInv
<1>9. CalmInv'
  <2>1. Heard' \subseteq Serving'
    BY <1>1, <1>3
  <2>2. QED
    BY <1>5, <1>6, <2>1 DEF CalmInv
<1>10. QED
  BY <1>1, <1>4, <1>7, <1>8, <1>9 DEF PageInv

\* A client that fails, a malformed input and a dropped handler end the job.
LEMMA FailsInv ==
  ASSUME TypeOK, PageInv, NEW j \in Slot, ClientFails(j) \/ Rejected(j) \/ Dropped(j)
  PROVE  PageInv'
<1>1. j \in Serving /\ jobs' = [jobs EXCEPT ![j] = NoJob]
  BY DEF ClientFails, Rejected, Dropped, HasNext, Serving
<1>2. UNCHANGED <<selected, shown, loading, form, refreshes, crossed, overlapped>>
  BY DEF ClientFails, Rejected, Dropped, MutationFails, page
<1>3. (jobs[j].heard => error') /\ (~jobs[j].heard => busy' = busy /\ error' = error)
  BY FailsType DEF ClientFails, Rejected, Dropped, page
<1>4. QED
  BY <1>1, <1>2, <1>3, EndWithoutSuccess

\* The page that stops waiting has an error on display, and the job goes on.
LEMMA GiveUpInv ==
  ASSUME TypeOK, PageInv, NEW j \in Slot, GiveUp(j) PROVE PageInv'
<1> DEFINE new == [jobs[j] EXCEPT !.heard = FALSE]
<1>1. jobs' = [jobs EXCEPT ![j] = new] /\ j \in Heard
  BY DEF GiveUp, Heard
<1>a. new = [jobs[j] EXCEPT !.heard = FALSE]
  OBVIOUS
<1> HIDE DEF new
<1>2. /\ jobs[j] = NoJob <=> new = NoJob
      /\ new.form = jobs[j].form /\ new.key = jobs[j].key /\ new.arg = jobs[j].arg
      /\ new.next = jobs[j].next /\ new.applied = jobs[j].applied /\ new.heard = FALSE
  <2>0. jobs[j] # NoJob /\ jobs[j] \in Job
    BY <1>1, JobTypes DEF Heard
  <2>1. (jobs[j] = NoJob <=> new = NoJob) /\ new.heard = FALSE
    <3>1. new \in Job /\ new.heard = FALSE
      BY <1>a, <2>0 DEF Job
    <3>2. QED
      BY <2>0, <3>1, FreeSlot
  <2>2. /\ new.form = jobs[j].form /\ new.key = jobs[j].key /\ new.arg = jobs[j].arg
        /\ new.next = jobs[j].next /\ new.applied = jobs[j].applied
    BY <1>a, JobUnheard
  <2>3. QED
    BY <2>1, <2>2
<1>3. \A i \in Slot : jobs'[i] = IF i = j THEN new ELSE jobs[i]
  BY <1>1 DEF TypeOK
<1>4. UNCHANGED <<keys, selected, shown, loading, form, refreshes, crossed, overlapped>> /\ error'
  BY FailsType DEF GiveUp, MutationFails
<1>5. Serving' = Serving /\ Heard' = {} /\ Active' = Active
  <2>1. Serving' = Serving
    BY <1>2, <1>3 DEF Serving
  <2>2. Heard' = Heard \ {j}
    BY <1>2, <1>3 DEF Heard
  <2>3. QED
    BY <1>1, <1>4, <2>1, <2>2 DEF PageInv, BusyInv, Active
<1>6. BusyInv'
  <2>1. \A s \in Slot : ~refreshes[s].after
    BY <1>1 DEF PageInv, BusyInv
  <2>2. QED
    BY <1>4, <1>5, <2>1 DEF BusyInv
<1>7. ErrorInv' /\ CalmInv'
  BY <1>4 DEF ErrorInv, CalmInv
<1>8. RefreshInv'
  BY <1>4, <1>5 DEF PageInv, RefreshInv
<1>9. JobInv'
  <2>1. \A i \in Serving : /\ jobs'[i].form = jobs[i].form /\ jobs'[i].key = jobs[i].key
                           /\ jobs'[i].arg = jobs[i].arg /\ jobs'[i].next = jobs[i].next
                           /\ jobs'[i].applied = jobs[i].applied
    BY <1>2, <1>3 DEF Serving
  <2>2. QED
    BY <1>4, <1>5, <2>1, JobsKept DEF PageInv
<1>10. QED
  BY <1>6, <1>7, <1>8, <1>9 DEF PageInv

\* A job all clients have done empties its form and begins a refresh.
LEMMA MutationEndsInv ==
  ASSUME TypeOK, PageInv, NEW j \in Slot, MutationEnds(j) PROVE PageInv'
<1>1. /\ j \in Serving /\ jobs' = [jobs EXCEPT ![j] = NoJob]
      /\ UNCHANGED <<keys, selected, shown, busy, overlapped>>
  BY DEF MutationEnds, AllAsked, Serving
<1>2. CASE ~jobs[j].heard
  BY <1>1, <1>2, EndWithoutSuccess DEF MutationEnds
<1>3. CASE jobs[j].heard
  <2>1. /\ Serving' = Serving \ {j} /\ Heard' = Heard \ {j}
        /\ JobInv'
    BY <1>1, JobLess DEF PageInv
  <2>2. j \in Heard
    BY <1>3 DEF Heard
  <2>3. /\ Heard' = {} /\ busy /\ jobs[j].arg = selected
        /\ \A s \in Slot : ~refreshes[s].after
    BY <2>1, <2>2 DEF PageInv, BusyInv
  <2>4. PICK s \in Slot : BeginRefresh(s, selected, TRUE, refreshes, Serving \ {j})
    BY <1>3, <2>3 DEF MutationEnds
  <2>5. selected \in 0..Clients
    BY DEF TypeOK
  <2>6. /\ refreshes'[s] = Refresh(selected, TRUE)
        /\ \A t \in Slot : t # s => refreshes'[t] = refreshes[t]
        /\ Active' = Active \union {s}
        /\ ~crossed' => Serving \ {j} = {} /\ \A t \in Slot : t # s => refreshes'[t].arg = None
        /\ loading'
    BY <2>4, <2>5, BeginBeside
  <2>7. ErrorInv' /\ RefreshInv' /\ CalmInv'
    BY <1>1, <2>1, <2>5, <2>6, FreshRefresh
  <2>8. BusyInv'
    BY <1>1, <2>3, <2>6 DEF BusyInv
  <2>9. QED
    BY <2>1, <2>7, <2>8 DEF PageInv
<1>4. QED
  BY <1>2, <1>3

\* Typing changes nothing but a form.
LEMMA EditInv ==
  ASSUME TypeOK, PageInv, NEW f \in Form, NEW k, Edit(f, k) PROVE PageInv'
<1>1. UNCHANGED <<keys, jobs, selected, shown, loading, busy, error, refreshes, crossed,
                  overlapped>>
  BY DEF Edit
<1>2. Serving' = Serving /\ Heard' = Heard /\ Active' = Active
  BY <1>1 DEF Serving, Heard, Active
<1>3. JobInv' /\ BusyInv' /\ ErrorInv' /\ RefreshInv'
  BY <1>1, <1>2, JobsAlone DEF PageInv, BusyInv, ErrorInv, RefreshInv
<1>4. \A h \in KindOfKey : Listing(h, selected)' = Listing(h, selected)
  BY <1>1 DEF Listing, Targets, Client, Record
<1>5. CalmInv'
  BY <1>1, <1>2, <1>4 DEF PageInv, CalmInv
<1>6. QED
  BY <1>3, <1>5 DEF PageInv

\* The invariant is inductive.
LEMMA StepInv == TypeOK /\ PageInv /\ [Next]_vars => PageInv'
<1> SUFFICES ASSUME TypeOK, PageInv, [Next]_vars PROVE PageInv'
  OBVIOUS
<1>1. CASE UNCHANGED vars
  <2>1. Serving' = Serving /\ Heard' = Heard /\ Active' = Active
    BY <1>1 DEF vars, page, Serving, Heard, Active
  <2>2. JobInv' /\ BusyInv' /\ ErrorInv' /\ RefreshInv'
    BY <1>1, <2>1, JobsAlone DEF vars, page, PageInv, BusyInv, ErrorInv, RefreshInv
  <2>3. \A k \in KindOfKey : Listing(k, selected)' = Listing(k, selected)
    BY <1>1 DEF vars, page, Listing, Targets, Client, Record
  <2>4. CalmInv'
    BY <1>1, <2>1, <2>3 DEF vars, page, PageInv, CalmInv
  <2>5. QED
    BY <2>2, <2>4 DEF PageInv
<1>2. QED
  BY <1>1, SelectInv, ClickInv, RevisitInv, SubmitInv, ListInv, ShowInv, RefreshFailsInv,
     FanOutInv, FailsInv, GiveUpInv, MutationEndsInv, EditInv, UsedForms
  DEF Next, Answer, Serve

\* Types and invariant hold in every state.
LEMMA Invariance == Spec => [](TypeOK /\ PageInv)
<1>1. Init => TypeOK /\ PageInv
  BY InitType, InitInv
<1>2. TypeOK /\ PageInv /\ [Next]_vars => (TypeOK /\ PageInv)'
  BY StepType, StepInv
<1>3. QED
  BY <1>1, <1>2, PTL DEF Spec

\* At rest the invariant says what the page shows.
LEMMA CalmIsCurrent == PageInv => ListIsCurrent
  BY DEF PageInv, RefreshInv, CalmInv, ListIsCurrent

\* At rest, with no error on display and unless the last refresh was begun
\* beside another one or beside a job, the page shows what the selected clients
\* hold (refresh, mutate), for any number of clients, keys and moves.
THEOREM ListsAreCurrent == Spec => []ListIsCurrent
  BY Invariance, CalmIsCurrent, PTL

\* What the page takes for a success.
LEMMA SuccessStep ==
  ASSUME TypeOK, PageInv, [Next]_vars, NEW j \in Slot, Succeeds(j)
  PROVE  /\ \A c \in Targets(selected) : \E done \in BOOLEAN : <<c, done>> \in report'
         /\ ~overlapped => \A c \in Client :
              <<c, TRUE>> \in report' => Done(jobs[j].form, jobs[j].key, c)
<1>0. jobs[j].heard /\ jobs'[j] = NoJob /\ busy' /\ jobs[j] # NoJob
  BY JobTypes DEF Succeeds
<1>1. MutationEnds(j)
  <2>1. CASE Revisit
    BY <1>0, <2>1, RevisitSteps
  <2>2. ASSUME NEW f \in Used, NEW k \in Key \union {Malformed}, Submit(f, k) PROVE FALSE
    <3>1. CASE FormRefused
      BY <1>0, <3>1 DEF FormRefused
    <3>2. CASE JobBegun(f, k)
      <4>1. PICK i \in Slot \ Serving : jobs'[i] \in Job /\ \A h \in Slot : h # i => jobs'[h] = jobs[h]
        BY <3>2 DEF JobBegun
      <4>2. QED
        BY <1>0, <4>1, FreeSlot
    <3>3. QED
      BY <2>2, <3>1, <3>2, SubmitJobs, UsedForms
  <2>3. ASSUME NEW i \in Slot, FanOut(i) PROVE FALSE
    BY <1>0, <2>3, FanOutJobs, FreeSlot
  <2>4. ASSUME NEW i \in Slot, ClientFails(i) \/ Rejected(i) \/ Dropped(i) PROVE FALSE
    <3>1. jobs' = [jobs EXCEPT ![i] = NoJob]
      BY <2>4 DEF ClientFails, Rejected, Dropped
    <3>2. i = j
      BY <1>0, <3>1, JobEnds
    <3>3. QED
      BY <1>0, <2>4, <3>2, FailsType DEF ClientFails, Rejected, Dropped
  <2>5. ASSUME NEW i \in Slot, GiveUp(i) PROVE FALSE
    <3>1. jobs' = [jobs EXCEPT ![i].heard = FALSE] /\ jobs[i].heard
      BY <2>5 DEF GiveUp
    <3>2. jobs'[j] # NoJob
      <4>1. CASE i = j
        <5>1. jobs'[j] = [jobs[j] EXCEPT !.heard = FALSE]
          BY <3>1, <4>1 DEF TypeOK
        <5>2. QED
          BY <1>0, <5>1, JobUnheard
      <4>2. CASE i # j
        BY <1>0, <3>1, <4>2 DEF TypeOK
      <4>3. QED
        BY <4>1, <4>2
    <3>3. QED
      BY <1>0, <3>2
  <2>6. ASSUME NEW i \in Slot, MutationEnds(i) PROVE i = j
    <3>1. jobs' = [jobs EXCEPT ![i] = NoJob]
      BY <2>6 DEF MutationEnds
    <3>2. QED
      BY <1>0, <3>1, JobEnds
  <2>7. jobs' # jobs
    BY <1>0
  <2>8. QED
    BY <2>1, <2>2, <2>3, <2>4, <2>5, <2>6, <2>7
    DEF Next, Answer, Serve, Select, ClickRefresh, Edit, ListServed, ShowLists,
    RefreshFails,
        RefreshEnds, page, vars
<1>2. j \in Heard /\ j \in Serving /\ jobs[j] \in Job
  BY <1>0, JobTypes DEF Heard, Serving
<1>3. report' = jobs[j].applied /\ keys' = keys
  BY <1>0, <1>1 DEF MutationEnds
<1>4. jobs[j].arg = selected
  BY <1>2 DEF PageInv, BusyInv
<1>5. jobs[j].next \notin Targets(selected)
  BY <1>1, <1>4 DEF MutationEnds, AllAsked, HasNext
<1>6. ASSUME NEW c \in Targets(selected) PROVE c < jobs[j].next
  <2>1. selected \in 0..Clients /\ jobs[j].next \in 1..(Clients + 1)
    BY <1>2 DEF TypeOK, Job
  <2>2. selected # All => jobs[j].next \in {selected, selected + 1}
    BY <1>2, <1>4 DEF PageInv, JobInv
  <2>3. QED
    BY <1>5, <1>6, <2>1, <2>2, KeyManagementAssumption DEF Targets, Client, All
<1>7. \A c \in Targets(selected) : \E done \in BOOLEAN : <<c, done>> \in jobs[j].applied
  BY <1>2, <1>4, <1>6 DEF PageInv, JobInv
<1>8. ~overlapped => \A c \in Client :
        <<c, TRUE>> \in jobs[j].applied => Holds(jobs[j].form, jobs[j].key, c)
  BY <1>2 DEF PageInv, JobInv
<1>9. QED
  BY <1>3, <1>7, <1>8 DEF Holds, Done

\* A mutation is taken for a success only when every selected client has answered;
\* what is shown names each of them, and a client said to have done what was asked
\* has done it, as long as no two jobs were served at once (mutate;
\* import_keystores, delete_keystores and their likes for remote keys), for any
\* number of clients, keys, jobs and moves.
THEOREM SuccessesAreReported == Spec => SuccessIsReported
<1>1. TypeOK /\ PageInv /\ [Next]_vars =>
        [\A j \in Slot : Succeeds(j) =>
           /\ \A c \in Targets(selected) : \E done \in BOOLEAN : <<c, done>> \in report'
           /\ ~overlapped => \A c \in Client :
                <<c, TRUE>> \in report' => Done(jobs[j].form, jobs[j].key, c)]_vars
  BY SuccessStep
<1>2. QED
  BY <1>1, Invariance, PTL DEF Spec, SuccessIsReported
=============================================================================
