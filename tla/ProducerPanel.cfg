\* Panel requests and crashes at any moment; two slots, one mailbox.
SPECIFICATION Spec
CONSTANTS
  NumMailboxes = 1
  MaxAlias = 1
  FissionCount = 1
  Slots = {s1, s2}
  Targets = {2}
  Interval = 0
  Cooldown = 0
  Stagger = FALSE
  Panel = TRUE
  Crashes = TRUE
SYMMETRY SlotSymmetry
INVARIANTS
  MailboxExclusive
  QuietWhenStopped
  RegisteringHasWorker
  OvershootBounded
PROPERTIES
  ImplementsClaims
CHECK_DEADLOCK FALSE
