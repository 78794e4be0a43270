\* Two sensors, the second with a wrong token, and a visitor; three calls, and a
\* buffer of one event that something may empty.
SPECIFICATION FairSpec
CONSTANTS
  s1 = s1
  s2 = s2
  good = good
  bad = bad
  Agent = {s1, s2}
  Visitor = {visitor}
  Address = {x, y}
  Event = {e}
  Secret = {good, bad}
  NoToken = NoToken
  Absent = Absent
  HubToken = good
  AgentToken <- MCAgentToken
  Visits <- MCVisits
  Malformed = Malformed
  NoAddress = NoAddress
  BufferCap = 1
  Drained = TRUE
  MaxCalls = 3
  MaxRestarts = 1
INVARIANTS
  IngestIsTruthful
  JoinStands
PROPERTIES
  HandlersReturn
CHECK_DEADLOCK FALSE
