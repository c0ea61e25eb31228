SPECIFICATION Spec
CONSTANTS
  v1 = v1 v2 = v2 w1 = w1 w2 = w2 None = None
  Validator <- MCValidator
  WithdrawalKey <- MCWithdrawalKey
  Item <- MCItem
  Batch <- MCBatch
  ExecRequest <- MCExecRequest
  Genesis <- MCGenesis
  MaxSends = 2
  MaxRequests = 2
  MaxChain = 1
INVARIANTS ReportIsTrue PreflightNeverBlocks
PROPERTY KeepsPromise
