SPECIFICATION Spec
CONSTANTS
  Ids = {1}
  Requests = {1, 2}
  Edits = {1}
  MaxTokens = 3
  MaxUpsets = 2
INVARIANTS RotationKept RefusedStaysBlocked OutcomeCurrent
PROPERTY LateNeverOverwrites
CHECK_DEADLOCK FALSE
