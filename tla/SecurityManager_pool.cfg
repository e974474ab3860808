\* A pool response that takes a tick to arrive.
SPECIFICATION Spec
CONSTANTS
  a = a
  b = b
  c = c
  Tokens <- OneToken
  Concurrency = 1
  CacheTtl = 2
  SendMaxAge = 1
  MaxTime = 3
PROPERTIES
  FreshPoolAccepted
