SPECIFICATION Spec
CONSTANTS
  Clients = {"c1", "c2"}
  Keys = {1, 2}
  Stripe <- Order
  MaxTimeouts = 1
  MaxTime = 2
  CursorTTL = 0
  MaxInt = 127
  MsPerSec = 10
  MaxValue = 9
  Work <- Requests
  Budget <- Load
  Stored <- InStore
  KeysBudget = 2
  PageSize = 1
INVARIANTS
  UpdateIsAtomic
  RenameKeepsValue
  CreatesOnlyMissing
  WalkMissesNothing
PROPERTY
  EveryCommandReplies
CHECK_DEADLOCK FALSE
