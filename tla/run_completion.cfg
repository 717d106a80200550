\* One run with two resources: stages, export, cleanup, and callers that return.
CONSTANTS
  Run = {r1}
  RunId = {a}
  Resource = {x, y}
  NBindings = 2
  None = None
SPECIFICATION FairSpec
CHECK_DEADLOCK FALSE
INVARIANTS
  CleanupIsLast
  ReleasedRunIsClean
  PassedIsComplete
PROPERTIES
  StagesRunOnceInOrder
  CompletionIsFinal
  CallerBounded
