SPECIFICATION FairSpec
CONSTANTS
  i1 = i1 p1 = p1 w1 = w1 b1 = b1 seed = seed
  v0 = v0 v1 = v1 v2 = v2 v3 = v3
  Importer = {a}
  Bootstrap = boot
  Validator <- MCValidator
  IndexId <- MCIndexId
  PubkeyId <- MCPubkeyId
  WithdrawalId <- MCWithdrawalId
  InvalidId <- MCInvalidId
  SeedId = seed
  Members <- MCMembers
  ConfigTargets <- MCConfig
  Requests <- ReqSeedInvalid
  MaxSpawned = 1
  MaxFaults = 1
PROPERTY SoloIndexShown
