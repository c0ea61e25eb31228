SPECIFICATION FairSpec
CONSTANTS
  Endpoint = {e1, e2}
  Client = {tick, http}
  Poller = tick
  Modes = {"ok", "errors", "unusable"}
  MaxScore = 4
  Gains = {1}
  Mild = 1
  Severe = 2
  Threshold = 2
PROPERTY FailedMeansNoneGood FailoverSettles FullOutageShowsInScores RecoveryIsSeen
