\* Three services, two on one port, one with sessions; two connections, file
\* descriptors for one of them beside two listeners; Start, Stop, Start, Stop.
SPECIFICATION FairSpec
CONSTANTS
  ssh = ssh
  redis = redis
  docker = docker
  c1 = c1
  c2 = c2
  c3 = c3
  Service = {ssh, redis, docker}
  Enabled = {ssh, redis, docker}
  Registered = {ssh, redis, docker}
  PortOf <- MCPortOf
  SessionService = {ssh}
  Conn = {c1, c2}
  HasDeadline = TRUE
  MaxFiles = 3
  MaxStarts = 2
INVARIANTS
  TypeOK
  WaitGroupExact
  StoppedIsQuiet
PROPERTIES
  StopReturns
  QueuedGetsServed
CHECK_DEADLOCK FALSE
