SPECIFICATION Spec
CONSTANTS
  m1 = m1
  m2 = m2
  NoBox = NoBox
  Platforms <- AllPlatforms
  Emails <- MCEmails
  Accounts <- MCAccounts
  Mothers <- MCMothers
  Pool <- MCPool
  BoxOf <- MCBoxOf
  Legacy = TRUE
  Limit = 2
  Rows = {1, 2}
  Tasks = {1, 2}
  Batches = {1}
  MaxCount = 2
  MaxWaits = 2
  MaxOps = 2
INVARIANTS InFlightOwned SlotsExact NoOvershoot OneRunPerMailbox CodeOfThisWait
PROPERTIES SuccessStands SessionKept
CHECK_DEADLOCK FALSE
