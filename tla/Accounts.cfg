SPECIFICATION Spec
CONSTANTS
  a = a
  b = b
  r1 = r1
  r2 = r2
  r3 = r3
  NoUser = NoUser
  HasKnowledge = TRUE
  Users = {a, b}
  Operator = a
  Requests = {r1, r2, r3}
SYMMETRY RequestSymmetry
CHECK_DEADLOCK FALSE
INVARIANTS SessionsForActive TokensTellTrueRole  OneEraser
