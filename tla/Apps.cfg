\* Two callers on a block of every kind, four versions.
CONSTANTS
  Null = Null
  Refused = Refused
  MaxValue = 3
  MaxItems = 3
  Days = {1, 2, 3, 4}
  PerSecond = 2
  Requests = {r1, r2}
  MaxVersion = 5
  MaxRacing = 3
  MaxTime = 2
SYMMETRY CallerSymmetry
SPECIFICATION Spec
INVARIANTS ConformingAccepted StreaksRight TimerNeverGains
PROPERTIES ImplementsSerial
CHECK_DEADLOCK FALSE
