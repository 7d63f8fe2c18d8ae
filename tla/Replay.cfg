\* An absence proof is presented again after a later delivery.
SPECIFICATION FairSpec
CONSTANTS
  Callers = {c1, c2}
  Interruptible = {}
  FreshReadback = FALSE
  MaxDeliveries = 3
CHECK_DEADLOCK FALSE
INVARIANTS TurnCommittedOnce
