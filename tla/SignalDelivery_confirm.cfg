\* A confirmation edit that fails once, in the best of conditions.
SPECIFICATION KindSpec
CONSTANTS
  t1 = t1
  Tokens <- OneToken
  MaxWaiting = 1
  Faults <- NoFaults
PROPERTIES
  ConfirmationReachesCard
