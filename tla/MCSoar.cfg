\* Three events of two addresses, live, an operator at the screen.
SPECIFICATION Spec
CONSTANTS
  a = a
  b = b
  ssh = ssh
  redis = redis
  IP = {a, b}
  Kind = {ssh, redis}
  Score = {2}
  Rules <- MCRules
  Live = TRUE
  Format = "iptables"
  Webhook = TRUE
  MaxTime = 2
  MaxEvents = 3
  MaxPresses = 1
SYMMETRY Addresses
INVARIANTS
  TypeOK
  FiresExactlyInWindow
  ResultsAccountForFirewall
CHECK_DEADLOCK FALSE
