\* Three calls that wait for branch locks and for each other's keys.
CONSTANTS
  Call = {c1, c2, c3}
  Key = {k}
  Branch = {x, y}
  Name = {n}
  Config = {v}
  None = None
SPECIFICATION FairSpec
CHECK_DEADLOCK FALSE
PROPERTIES
  CreationEnds
