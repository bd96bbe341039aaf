SPECIFICATION Spec
CONSTANTS
  m1 = m1
  m2 = m2
  NoBox = NoBox
  Platforms = {"leonardo"}
  Emails <- MCEmails
  Accounts <- MCAccounts
  Mothers <- MCMothers
  Pool <- MCPool
  BoxOf <- MCBoxOf
  Legacy = TRUE
  Limit = 2
  Rows = {1, 2}
  Tasks = {1, 2}
  Batches = {1, 2}
  MaxCount = 2
  MaxWaits = 1
  MaxOps = 3
INVARIANT OneLoop
CHECK_DEADLOCK FALSE
