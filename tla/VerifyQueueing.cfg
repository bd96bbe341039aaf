\* Requests, deletions, stops and restarts at any moment; fair workers.
SPECIFICATION FairSpec
CONSTANTS
  NumMailboxes = 2
  Workers = {w1, w2}
  Requests = 3
  Edits = FALSE
  Picks = {}
  Faults = FALSE
  Restarts = TRUE
INVARIANTS
  VerifyingIsClaimed
PROPERTIES
  ImplementsQueue
  DrainsAfterLastStart
CHECK_DEADLOCK FALSE
