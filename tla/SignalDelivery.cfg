\* Every failure the code is written for.
SPECIFICATION FairSpec
CONSTANTS
  t1 = t1
  Tokens <- OneToken
  MaxWaiting = 2
  Faults <- AllHonestFaults
INVARIANTS
  TypeOK
  AtMostOneMessage
  ReservationMatchesDelivery
  EngineAgreesWithRow
PROPERTIES
  PendingIsResolved
  ImplementsFirstSignal
  EvaluationEnds
