SPECIFICATION ClientsFairSpec
CONSTANTS
  c1 = c1
  c2 = c2
  k1 = k1
  k2 = k2
  Calls = {c1, c2}
  Waits = {"Finalized"}
  MaxLosses = 1
  MaxReorgs = 1
  Proofs = {c1, c2}
  KeyFiles = {k1, k2}
  Files = 2
  Attempts = 2
  Retries = 1
INVARIANTS
  VerdictsAreTrue
  NoOrphanWorker
PROPERTIES
  EveryCallSettles
CHECK_DEADLOCK FALSE
