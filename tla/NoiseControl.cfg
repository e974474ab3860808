\* Two cards a minute, one of them normal; two tokens share a creator.
SPECIFICATION Spec
CONSTANTS
  a = a
  b = b
  c = c
  Tokens <- ThreeTokens
  NoCreator = NoCreator
  Creator <- Creators
  MaxTotal = 2
  MaxNormal = 1
  Minute = 1
  CreatorCooldown = 2
  MaxLag = 1
  MaxTime = 3
INVARIANTS
  TypeOK
  VerdictsWithinLimits
  CardsWithinLimits
  CreatorApart
SYMMETRY Twins
CHECK_DEADLOCK FALSE
