\* The statement LogoutRevokes against the code: TLC finds the counterexample.
CONSTANTS
  Sessions = {s1}
  Tokens = {1, 2, 3}
  Requests = {1, 2, 3, 4}
  RefreshTtl = 1
  PoolSize = 2
  MaxTime = 1
  None = None
SPECIFICATION FairSpec
PROPERTIES LogoutRevokes
CHECK_DEADLOCK FALSE
