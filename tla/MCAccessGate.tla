---------------------------- MODULE MCAccessGate ----------------------------
(***************************************************************************)
(* Instance of AccessGate for TLC: two passwords, so that one can be       *)
(* wrong, and two tasks at once.                                           *)
(***************************************************************************)
EXTENDS AccessGate, TLC

CONSTANTS v1, p1, p2, t1, t2

MCValidator == {v1}
MCPassword == {p1, p2}
MCSlot == {t1, t2}
=============================================================================
