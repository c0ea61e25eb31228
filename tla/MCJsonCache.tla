---------------------------- MODULE MCJsonCache ----------------------------
(***************************************************************************)
(* A small instance of JsonCache for TLC: three callers, a TTL and a       *)
(* request timeout of two units, and a clock long enough for an entry to   *)
(* be stored, to expire, and to be stored and expire again.                *)
(***************************************************************************)
EXTENDS JsonCache, TLC

CallerSymmetry == Permutations(Caller)
=============================================================================
