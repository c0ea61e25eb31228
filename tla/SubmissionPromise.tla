-------------------------- MODULE SubmissionPromise --------------------------
(***************************************************************************)
(* What the action center promises an operator: nothing reaches the chain  *)
(* but what was asked for, without dry run, all items of a request         *)
(* together, and every item with an index, a public key and a signing key  *)
(* that belong to one validator.  A node may take the same request more    *)
(* than once, because a send without an answer is repeated; it takes it at *)
(* most MaxSends times and never after a success has been answered.        *)
(***************************************************************************)
EXTENDS Naturals, FiniteSets

CONSTANT MaxSends

VARIABLES
  asked,     \* requests [id, items, dry] made so far
  posted,    \* <<id, n, item>> for each item that a node took at the n-th send
  confirmed  \* ids of requests with a success answered

OneValidator(i) == i.pubkey = i.index /\ i.key = i.pubkey

Init == asked = {} /\ posted = {} /\ confirmed = {}

Ask ==
  /\ asked \subseteq asked'
  /\ \A r \in asked', s \in asked : r.id = s.id => r = s
  /\ UNCHANGED <<posted, confirmed>>

\* A node takes the n-th send of a request, all items at once, and answers with
\* success or the answer does not arrive.
Post ==
  /\ \E r \in asked, n \in 1..MaxSends :
       /\ ~r.dry
       /\ r.id \notin confirmed
       /\ \A p \in posted : p[1] = r.id => p[2] < n
       /\ \A i \in r.items : OneValidator(i)
       /\ posted' = posted \union ({r.id} \X {n} \X r.items)
       /\ confirmed' \in {confirmed, confirmed \union {r.id}}
  /\ asked' = asked

Spec == Init /\ [][Ask \/ Post]_<<asked, posted, confirmed>>
=============================================================================
