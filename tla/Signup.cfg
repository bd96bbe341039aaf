SPECIFICATION Spec
CONSTANTS
  MaxMails = 2
  MaxRuns = 2
  Leases = 2
  NetRetries = 1
  Submissions = 2
  MaxStep1 = 2
  MaxSolves = 2
  LegacyPosts = 2
INVARIANTS
  SuccessIsBacked
  MailBudget
  AcceptedCodeCounts
PROPERTY AttemptsEnd
CHECK_DEADLOCK FALSE
