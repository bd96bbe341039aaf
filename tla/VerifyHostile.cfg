\* The panel's forms and failing statements besides.
SPECIFICATION Spec
CONSTANTS
  NumMailboxes = 2
  Workers = {w1, w2}
  Requests = 3
  Edits = TRUE
  Picks = {"unverified", "verifying", "verified", "verify_failed"}
  Faults = TRUE
  Restarts = TRUE
SYMMETRY WorkerSymmetry
INVARIANTS
  VerifyExclusive
  ReservationHeld
CHECK_DEADLOCK FALSE
