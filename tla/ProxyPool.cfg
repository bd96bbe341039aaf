\* Two tasks of one channel and one of another, all after the same session,
\* under every kind of settings, with failing reads, saves and cancellations.
SPECIFICATION FairSpec
CONSTANTS
  Channels = {"c1", "c2"}
  Tasks = {"t1", "t2", "t3"}
  ChannelOf <- TwoChannels
  Budget <- SmallBudgets
  Configs <- AllConfigs
  Sessions = {"x"}
  Cache = 1
  Margin = 1
  Backoff = 1
  Reserve = 2
  FetchTicks = 1
  Requests = 3
  Faults = TRUE
INVARIANTS
  LeaseExclusive
  PoolFresh
  OneFetch
PROPERTIES
  AcquireReturns
CHECK_DEADLOCK FALSE
