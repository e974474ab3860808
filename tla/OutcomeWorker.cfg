\* A crash, a failing database, the backfill of an earlier release.
SPECIFICATION FairSpec
CONSTANTS
  Jobs <- TwoJobs
  Due <- OldAndNew
  Profiles <- Pairs
  OldStates <- OldRowStates
  Limit = 2
  Grace = 3
  Retry = 1
  MaxTime = 4
  MaxMishaps = 1
INVARIANTS
  TypeOK
  RemovalNeedsBaseline
  AsksBounded
  RemovalIsKept
PROPERTIES
  ResultsAreFinal
  CheckpointsEnd
CHECK_DEADLOCK FALSE
