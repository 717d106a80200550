\* Three calls with and without one key, for two branches and two names.
CONSTANTS
  Call = {c1, c2, c3}
  Key = {k}
  Branch = {x, y}
  Name = {n, m}
  Config = {v, w}
  None = None
SPECIFICATION Spec
SYMMETRY Symmetry
CHECK_DEADLOCK FALSE
INVARIANTS
  OneBatchPerKey
  AnswerIsOwnBatch
PROPERTIES
  BatchHasCurrentConfig
