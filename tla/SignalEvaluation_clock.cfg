\* A batch that waits for a card, and one that overtakes it.
SPECIFICATION Spec
CONSTANTS
  b1 = b1
  b2 = b2
  N = 2
  Batches <- TwoBatches
  Changes <- OneOvertakes
  SendMaxAge = 0
  CacheTtl = 1
  MaxTime = 1
INVARIANTS
  InputIsConsistent
CHECK_DEADLOCK FALSE
