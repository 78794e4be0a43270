\* Four events of two addresses, panes of two rows, a feed of two, reloads of three.
SPECIFICATION FairSpec
CONSTANTS
  e1 = e1
  e2 = e2
  e3 = e3
  e4 = e4
  a = a
  b = b
  Event = {e1, e2, e3, e4}
  IP = {a, b}
  RemoteIP <- MCRemoteIP
  ThreatScore <- MCThreatScore
  Stamp <- MCStamp
  Critical = {e4}
  MinScore = 2
  Rows = 2
  LoadCap = 3
  EarlierFiles <- MCEarlierFiles
  FeedCap = 2
INVARIANTS
  CursorOnRow
  PaneIsFeedOverStore
PROPERTIES
  SelectionSticks
  FeedReachesScreen
CHECK_DEADLOCK FALSE
