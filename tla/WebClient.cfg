SPECIFICATION ClientFairSpec
CONSTANTS
  Sessions = {s1}
  Tokens <- MCTokens
  Requests <- MCRequests
  RefreshTtl = 1
  PoolSize = 10
  MaxTime = 0
  None = None
  Core = Core
  Shared = Shared
  Boot = Boot
  Calls <- MCCalls
CHECK_DEADLOCK FALSE
INVARIANTS LogoutNeedsMishap UnauthorizedForCause
PROPERTIES CallsEnd
