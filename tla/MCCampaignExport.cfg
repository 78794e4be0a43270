\* The export of a store whose process has had events above the threshold.
SPECIFICATION Spec
SYMMETRY Interchangeable
CONSTANTS
  a = a
  b = b
  ssh = ssh
  redis = redis
  IP = {a, b}
  Decoy = {ssh, redis}
  ScoreOf <- MCScoreOf
  Threshold = 3
  SessionWindow = 2
  PerSecond = 1
  Skew = 1
  NoCampaign = NoCampaign
  MaxTime = 4
  MaxEvents = 3
  MaxStarts = 2
INVARIANT
  ExportListsMalicious
CHECK_DEADLOCK FALSE
