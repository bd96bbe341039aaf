SPECIFICATION Spec
CONSTANTS
  Callers = {c1, c2, c3}
  Verifiers = {c1}
INVARIANTS
  OneRefresh
  GraphComplete
PROPERTY CallsEnd
CHECK_DEADLOCK FALSE
