\* Two servers, two requests: refreshes of any kind overlap with each other and with management.
CONSTANTS
  Servers = {s1, s2}
  Tools = {t1, t2}
  Jobs = {j1, j2}
  None = None
SYMMETRY NameSymmetry
SPECIFICATION Spec
INVARIANTS TrackerSound ExactUnlessOverlap
PROPERTIES OnlyAnsweredServersChange
CHECK_DEADLOCK FALSE
