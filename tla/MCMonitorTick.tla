--------------------------- MODULE MCMonitorTick ---------------------------
(***************************************************************************)
(* Small instances of MonitorTick for TLC.                                 *)
(***************************************************************************)
EXTENDS MonitorTick, TLC

CONSTANTS v1, v2

\* The first validator misses every epoch, the second one the first epoch.
MCMissed == {<<v, e>> \in Validator \X Epoch : v = v1 \/ e = 0}
=============================================================================
