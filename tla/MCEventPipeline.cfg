\* Four events, two addresses, both channels overflowing, fair goroutines.
SPECIFICATION FairSpec
CONSTANTS
  e1 = e1
  e2 = e2
  e3 = e3
  e4 = e4
  a = a
  b = b
  Event = {e1, e2, e3, e4}
  IP = {a, b}
  RemoteIP <- MCRemoteIP
  ThreatScore <- MCThreatScore
  Critical = {e3, e4}
  PreMapped = {e4}
  EventsCap = 2
  TuiCap = 1
  PcapThreshold = 2
  BlockedScore = 2
  Interactive = TRUE
  NoLine = NoLine
INVARIANTS
  TypeOK
  NoneLostOrOvertaken
  StagesInStep
  JsonlIsComplete
  ScreenFollowsJsonl
PROPERTIES
  DeliverySpec
  AcceptedGetsSettled
CHECK_DEADLOCK FALSE
