\* Three events of two addresses and two decoys, up to a tick late, two runs.
SPECIFICATION Spec
SYMMETRY Interchangeable
CONSTANTS
  a = a
  b = b
  ssh = ssh
  redis = redis
  IP = {a, b}
  Decoy = {ssh, redis}
  ScoreOf <- MCScoreOf
  Threshold = 3
  SessionWindow = 2
  PerSecond = 1
  Skew = 1
  NoCampaign = NoCampaign
  MaxTime = 4
  MaxEvents = 3
  MaxStarts = 2
INVARIANTS
  ReadersSeeOrder
  LossBoundedByTears
  CampaignIsLastSession
  CampaignIDsDiffer
  RebuiltExtendsLive
CHECK_DEADLOCK FALSE
