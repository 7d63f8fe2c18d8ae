\* Absence proofs are read after the delivery they reopen.
SPECIFICATION FairSpec
CONSTANTS
  Callers = {c1, c2, c3}
  Interruptible = {c1}
  FreshReadback = TRUE
  MaxDeliveries = 3
CHECK_DEADLOCK FALSE
INVARIANTS TypeOK DeliveryExclusive TurnCommittedOnce
PROPERTIES ImplementsExactlyOnce AcknowledgedIsFinal DeliveryResolves
