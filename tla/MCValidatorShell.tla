-------------------------- MODULE MCValidatorShell --------------------------
(***************************************************************************)
(* Instance of ValidatorShell for TLC.                                     *)
(***************************************************************************)
EXTENDS ValidatorShell, TLC

MCIndex == {1, 2}
MCSlot == {1}
=============================================================================
