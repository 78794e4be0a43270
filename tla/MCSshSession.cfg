\* Three inputs of seven commands; a queue of one request; the session may end at any
\* time.
SPECIFICATION FairSpec
CONSTANTS
  root = root
  etc = etc
  env = env
  tmp = tmp
  Up = Up
  Dot = Dot
  Torn = Torn
  ReqCap = 1
  Home = Home
  Name = {root, etc, env, tmp, Up, Dot}
  Command <- MCCommand
  Length <- MCLength
  CutOf <- MCCutOf
  HomeDir <- MCHomeDir
  Seeds <- MCSeeds
  MaxInputs = 3
INVARIANTS
  RunsAreReported
  ReportsFollowInput
  CwdFollowsUnix
PROPERTIES
  LoopsEnd
CHECK_DEADLOCK FALSE
