SPECIFICATION FairSpec
CONSTANTS
  a = a
  b = b
  c = c
  Txs <- Small
  TTL <- Ttl
  Graced <- WithB
  Grace = 1
  Outcomes <- SuccessOrPartial
  MaxTime = 2
  MaxRestarts = 1
  Faults <- Harmless
INVARIANTS
  Separated
  TrackedUntilResolved
  FinalUnlessMissed
PROPERTIES
  EventuallyResolved
