\* Three events of two addresses, restarts, every way a write can fail.
SPECIFICATION Spec
CONSTANTS
  quiet = quiet
  loud = loud
  late = late
  a = a
  b = b
  Event = {quiet, loud, late}
  Key = {a, b}
  KeyOf <- MCKeyOf
  ThreatScore <- MCThreatScore
  Second <- MCSecond
  Threshold = 2
  PayloadLen <- MCPayloadLen
  SnapLen = 2
  NoFile = NoFile
  MaxItems = 4
INVARIANTS
  AnsweredOnDisk
  ReadableUnlessTorn
PROPERTY
  OneFilePerAddress
