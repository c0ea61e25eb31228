-------------------------- MODULE MCAlertDelivery --------------------------
(***************************************************************************)
(* Small instances of AlertDelivery for TLC: one fingerprint per kind of   *)
(* incident, days of three or four hours.                                  *)
(***************************************************************************)
EXTENDS AlertDelivery, TLC

CONSTANTS crit, warn, missed

MCFP == {crit, warn, missed}
MCSeverity == crit :> 2 @@ warn :> 1 @@ missed :> 1

\* An outage reports its incidents in every tick, one fetch failure per
\* validator under one fingerprint; a missed attestation is reported once.
MCBatches == {<<>>, <<crit>>, <<warn, warn>>, <<missed, crit>>}
OutageBatches == {<<>>, <<crit>>}
MissedBatches == {<<>>, <<missed>>}
QuietBatches == {<<>>, <<warn, warn>>, <<missed>>}
MCOneShot == {missed}
=============================================================================
