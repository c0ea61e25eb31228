SPECIFICATION Spec
CONSTANTS
  v1 = v1 v2 = v2
  Validator = {v1}
  Missed <- MCMissed
  MaxEpoch = 2
  BeaconModes = {"up", "hanging"}
  ExecModes = {"up"}
  MaxLag = 0
  RequestTimeout = 3
  Endpoints = 2
  TickTimeout = 20
  MaxFaults = 1
INVARIANTS MissedOnce LastKnownDataStay
PROPERTIES AlertsAreStored
