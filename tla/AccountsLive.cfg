SPECIFICATION FairSpec
CONSTANTS
  m1 = m1
  m2 = m2
  NoBox = NoBox
  Platforms <- AllPlatforms
  Emails <- MCEmails
  Accounts <- MCAccounts
  Mothers <- MCMothers
  Pool <- MCPool
  BoxOf <- MCBoxOf
  Legacy = TRUE
  Limit = 1
  Rows = {1}
  Tasks = {1, 2}
  Batches = {1}
  MaxCount = 2
  MaxWaits = 1
  MaxOps = 2
PROPERTIES RowsSettle LoopsEnd
CHECK_DEADLOCK FALSE
