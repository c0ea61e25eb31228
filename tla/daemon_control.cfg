SPECIFICATION FairSpec
CONSTANTS
  MaxSpawns = 2
  MaxCalls = 3
  MaxMoves = 3
  Default = "mount"
  None = None
INVARIANTS NoDaemonLost PendingIsPending SettingsAgree
PROPERTIES StatusCatchesUp
CHECK_DEADLOCK FALSE
