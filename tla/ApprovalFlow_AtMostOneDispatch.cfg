\* The statement AtMostOneDispatch against the code: TLC finds the counterexample.
CONSTANTS
  Approvals = {a1}
  Requests = {r1, r2}
  Ttl = 1
  Extensions = {1}
  MaxExtension = 1
  MaxExtensionCount = 1
  MaxTime = 3
SPECIFICATION Spec
INVARIANTS AtMostOneDispatch
CHECK_DEADLOCK FALSE
