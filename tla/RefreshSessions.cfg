\* Two sessions, four tokens, four requests: rotations, replays, logouts and restarts race.
CONSTANTS
  Sessions = {s1, s2}
  Tokens = {1, 2, 3, 4}
  Requests = {1, 2, 3, 4}
  RefreshTtl = 1
  PoolSize = 2
  MaxTime = 2
  None = None
SPECIFICATION FairSpec
INVARIANTS OneLiveUnlessReused NoFalseReplay
PROPERTIES BuriedStaysDead EndsUnlessBlocked
CHECK_DEADLOCK FALSE
