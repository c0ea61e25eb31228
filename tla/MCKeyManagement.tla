-------------------------- MODULE MCKeyManagement --------------------------
(***************************************************************************)
(* Instance of KeyManagement for TLC.                                      *)
(***************************************************************************)
EXTENDS KeyManagement

CONSTANT k1

\* Two forms that undo each other, one of which may refuse its text; those of the
\* keystores go the same way.
MCUsed == [kind : {"remote"}, op : {"import", "delete"}]
=============================================================================
