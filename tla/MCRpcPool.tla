------------------------------ MODULE MCRpcPool ------------------------------
(***************************************************************************)
(* Small instances of RpcPool for TLC.  A unit of the score is 25 points:  *)
(* 4 is 100 points, 2 and 1 are the penalties 45 and 25, and an endpoint   *)
(* is degraded below 2.  As with the real values a severe failure takes a  *)
(* new endpoint (3) below the threshold but not one with a full score.     *)
(* The penalties of mode "errors" include the one of mode "down", so the   *)
(* passing run leaves "down" out and loses no behaviour.                   *)
(***************************************************************************)
EXTENDS RpcPool
=============================================================================
