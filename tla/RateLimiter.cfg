\* Deadlines, cooldowns, stages and restarts all fall within MaxTime.
SPECIFICATION Spec
CONSTANTS
  Capacity = 3
  Rate = 1
  MaximumQueueWait = 2
  SecurityDelay = 1
  OfflineDelay = 2
  MaxCooldown = 2
  MaxQueue = 2
  MaxTime = 5
  Faults <- RestartsAndStorage
INVARIANTS
  TypeOK
  RateBound
  WaitIsBounded
  NoLostWakeup
PROPERTIES
  CooldownRespected
  ImplementsGrantPolicy
CHECK_DEADLOCK FALSE
