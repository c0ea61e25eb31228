SPECIFICATION AlertFairSpec
CONSTANTS
  crit = crit warn = warn missed = missed
  FP <- MCFP
  Severity <- MCSeverity
  Batches <- MCBatches
  OneShot <- MCOneShot
  MinSeverity = 1
  Enabled = TRUE
  Window = 1
  Heartbeat = 2
  DayLen = 3
  QuietStart = 2
  QuietEnd = 1
  DigestHour = 0
  DigestLines = 2
  MaxQueue = 3
  MaxTime = 3
  MaxAlertFaults = 2
INVARIANTS AntiSpam OneDigestPerDay
PROPERTIES DeferredUntilDigest NothingSkippedUnsent RefusedIsRetried
CHECK_DEADLOCK FALSE
