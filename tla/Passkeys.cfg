\* One passkey, two assertions, four requests of any kind, windows of one time unit.
CONSTANTS
  Passkeys = {1}
  Assertions = {1, 2}
  Requests = {1, 2, 3, 4}
  Durations = {1}
  Skew = 1
  ChallengeTtl = 1
  MaxTime = 2
SPECIFICATION Spec
INVARIANTS ReplayNeedsOverlap WriteModeIsSigned OneSessionPerChallenge
CHECK_DEADLOCK FALSE
