SPECIFICATION FairFollowingSpec
CONSTANTS
  Starts = {s1, s2}
  BatchSize = 2
  MaxEvents = 3
  MaxFaults = 2
  Relevant <- MCRelevant
  Faults <- AllFaults
  c1 = c1
  c2 = c2
  s1 = s1
  s2 = s2
  NotSent = NotSent
  Done = Done
  RuntimeError = RuntimeError
  Since <- ThreeVariants
  MaxSupportedVersion = 4
  Commands = {c1, c2}
  MaxSignals = 1
INVARIANTS
  ExactlyOnce
  SyncedIsHonest
  HistoryCovers
  CommandsSurvive
  NothingInBackground
  QuietMeansCurrent
PROPERTIES
  EventuallySynced
  VersionFollowed
CHECK_DEADLOCK FALSE
