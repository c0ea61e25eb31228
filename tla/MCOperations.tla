---------------------------- MODULE MCOperations ----------------------------
(***************************************************************************)
(* Instance of Operations for TLC: two validators with BLS credentials,    *)
(* which a batch can change together, one of them about to exit.  The      *)
(* typed items are right for one of them or mix the two, which is what a   *)
(* switch of the active validator leaves in the form; KeyItem is the one   *)
(* the help text describes, for WithdrawalKeyIsAccepted.                   *)
(***************************************************************************)
EXTENDS Operations, TLC

CONSTANTS v1, v2, w1, w2

MCValidator == {v1, v2}
MCWithdrawalKey == v1 :> w1 @@ v2 :> w2
MCGenesis ==
  [v \in MCValidator |->
    [status |-> IF v = v2 THEN "active_exiting" ELSE "active_ongoing", slashed |-> FALSE,
     type |-> "0x00", balance |-> 32]]
Mixed == [index |-> v2, pubkey |-> v1, key |-> v1]
MCItem == {Own(v1)}
MCBatch == {{Own(v1), Own(v2)}, {Mixed}}
MCExecRequest == {[action |-> "top_up", index |-> v1, target |-> None, amount |-> 0]}
KeyItem == {[index |-> v1, pubkey |-> w1, key |-> w1]}
=============================================================================
