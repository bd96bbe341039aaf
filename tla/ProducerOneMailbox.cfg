\* One mailbox, two aliases for a quota of one, both cooldowns, one slot to wait for.
SPECIFICATION FairSpec
CONSTANTS
  NumMailboxes = 1
  MaxAlias = 2
  FissionCount = 1
  Slots = {s1}
  Targets = {2}
  Interval = 1
  Cooldown = 2
  Stagger = TRUE
  Panel = FALSE
  Crashes = TRUE
PROPERTIES
  FinalIsKept
  StopEnds
CHECK_DEADLOCK FALSE
