\* Three tokens compete for one place.
SPECIFICATION FairSpec
CONSTANTS
  a = a
  b = b
  c = c
  Tokens <- ThreeTokens
  Concurrency = 1
  CacheTtl = 1
  SendMaxAge = 0
  MaxTime = 2
INVARIANTS
  TypeOK
  JobsAccounted
  SendUsesFreshSecurity
PROPERTIES
  UrgentFirst
  RecheckEnds
