\* Two requests race for one approval; fair handlers and a fair sweep.
CONSTANTS
  Approvals = {a1}
  Requests = {r1, r2}
  Ttl = 1
  Extensions = {1}
  MaxExtension = 1
  MaxExtensionCount = 1
  MaxTime = 3
SPECIFICATION FairSpec
INVARIANTS RunsOnlySigned DecidedOnTime OneApproveWins NoOverdueShownPending
PROPERTIES EventuallyDecided WinnerPublishes ImplementsLifecycle
CHECK_DEADLOCK FALSE
