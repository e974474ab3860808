\* A 5xx answer to a message that Telegram had accepted.
SPECIFICATION Spec
CONSTANTS
  t1 = t1
  Tokens <- OneToken
  MaxWaiting = 1
  Faults <- Late5xx
INVARIANTS
  AtMostOneMessage
