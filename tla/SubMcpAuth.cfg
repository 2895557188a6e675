CONSTANTS
  NumRequests = 4
  MaxTime = 3
  Life = 3
  CacheLife = 2
  Margin = 1
  MaxRotations = 3
  Confidential = TRUE
  Deletable = {"client", "refresh", "sa"}
SPECIFICATION AuthSpec
CONSTRAINT Explored
INVARIANTS RefreshTokenAccepted CodeGoesToItsClient ServedTokenAlive ServedIdentity
CHECK_DEADLOCK FALSE
