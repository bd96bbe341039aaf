SPECIFICATION Spec
CONSTANTS
  Platforms = {"adobe", "grok", "leonardo", "lovart"}
  Rows = {1, 2}
  Checks = {1, 2}
  Exports = {1, 2}
  MaxRequests = 2
  MaxGen = 2
  MaxClaims = 1
INVARIANTS CountsAgree HandedStaysShipped GrokDeadDenied
PROPERTY RestoredWasProbed
CHECK_DEADLOCK FALSE
