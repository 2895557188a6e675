\* Two clients, one code: redemptions, rotations, replays and revocations race.
CONSTANTS
  Clients = {c1, c2}
  DcrClients = {c1}
  Codes = {k1}
  Tokens = {t1, t2, t3}
  Requests = {r1, r2, r3, r4}
  CodeTtl = 1
  RefreshTtl = 1
  MaxTime = 2
  None = None
SYMMETRY RowSymmetry
SPECIFICATION Spec
INVARIANTS TokensStayWithClient OneActiveUnlessReused NoFalseRevocation
PROPERTIES BuriedStaysDead OnlyOwnClientRevokes
CHECK_DEADLOCK FALSE
