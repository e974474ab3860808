\* Two tokens, two batches under way, security that is fresh for a moment.
SPECIFICATION FairSpec
CONSTANTS
  b1 = b1
  b2 = b2
  N = 2
  Batches <- TwoBatches
  Changes <- OneOvertakes
  SendMaxAge = 0
  CacheTtl = 1
  MaxTime = 1
INVARIANTS
  TypeOK
  AnswersAreSeen
PROPERTIES
  BatchesEnd
CHECK_DEADLOCK FALSE
