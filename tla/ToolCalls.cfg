\* Three calls, two request ids, two tools; cancellations and restarts at any time.
CONSTANTS
  Calls = {1, 2, 3}
  Ids = {1, 2}
  Tools <- MCTools
  None = None
SPECIFICATION FairSpec
INVARIANTS CancelExact AbortIsFinal
PROPERTIES EndsUnlessUntimed
CHECK_DEADLOCK FALSE
