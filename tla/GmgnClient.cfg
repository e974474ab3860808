\* Two callers, a crash and failing writes; 429 bodies arrive whole.
SPECIFICATION Spec
CONSTANTS
  Requests = {r1, r2}
  Resets <- ResetTimes
  Bodies <- WholeBodies
  RATE_LIMIT_RESET_BUFFER = 1
  DEFAULT_FALLBACK_COOLDOWN = 2
  MAX_ACCEPTED_RESET = 3
  Faults <- StorageFaults
  MaxTime = 4
  MaxCrashes = 1
  MaxSent = 3
INVARIANTS
  TypeOK
  CountsAreAttempts
PROPERTIES
  NothingSentInCooldown
SYMMETRY RequestSymmetry
