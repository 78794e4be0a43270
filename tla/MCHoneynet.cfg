\* Two connections, a session, the operator at the screen, through the shutdown.
SPECIFICATION FairSpec
CONSTANTS
  ssh = ssh
  c1 = c1
  c2 = c2
  login = login
  command = command
  a = a
  Event = {login, command}
  IP = {a}
  RemoteIP <- MCRemoteIP
  ThreatScore <- MCThreatScore
  Critical = {}
  PreMapped = {}
  EventsCap = 1
  TuiCap = 1
  PcapThreshold = 2
  BlockedScore = 2
  Interactive = TRUE
  NoLine = NoLine
  Service = {ssh}
  Enabled = {ssh}
  Registered = {ssh}
  PortOf <- MCPortOf
  SessionService = {ssh}
  Conn = {c1, c2}
  HasDeadline = TRUE
  MaxFiles = 4
  MaxStarts = 1
  Second <- MCSecond
  PayloadLen <- MCPayloadLen
  SnapLen = 2
  MaxItems = 8
  NoFile = NoFile
  LocalIP = {}
  Unparsed = {}
  Database <- MCDatabase
  NoDatabase = NoDatabase
  Idle = Idle
  Origin <- MCOrigin
INVARIANTS
  LinesNameTheirFrames
  LinesSayWhereFrom
PROPERTIES
  OnlySessionsEmitAfterStop
  ShutdownCompletes
CHECK_DEADLOCK FALSE
