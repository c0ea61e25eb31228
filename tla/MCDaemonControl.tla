-------------------------- MODULE MCDaemonControl --------------------------
(***************************************************************************)
(* Instance of DaemonControl for TLC.                                      *)
(***************************************************************************)
EXTENDS DaemonControl, TLC
=============================================================================
