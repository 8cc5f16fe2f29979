SPECIFICATION Spec
CONSTANTS
  Terms = {1, 2}
  MaxIndex = 3
  MaxBatch = 2
  MaxVotes = 1
  MaxCrashes = 2
INVARIANTS
  PromisesSurvive
  AppliedIsSafe
  NeverFails
  DrainedIsStored
PROPERTIES
  ImplementsPlainLog
CHECK_DEADLOCK FALSE
