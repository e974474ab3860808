\* One token on two lists: what is logged, sampled, counted; order, windows,
\* silent sources and a restart.
SPECIFICATION Spec
CONSTANTS
  Tokens <- OneToken
  Payloads <- TwoPayloads
  SOURCE_SCHEDULE <- TwoSources
  RankSources <- OneRank
  Interval = 3
  Retention = 2
  MaxEvents = 2
  Timeout = 2
  Check = 2
  Faults <- StorageFaults
  MaxTime = 4
  MaxSecurity = 1
  MaxRestarts = 1
INVARIANTS
  TypeOK
  LogTellsPresence
  MissesCountGoodAnswers
  WindowEndsWithNewest
  SilenceEnds
PROPERTIES
  SeqGivesOrder
CHECK_DEADLOCK FALSE
