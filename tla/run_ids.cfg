\* Two start calls that compete for, and reuse, one run ID.
CONSTANTS
  Run = {r1, r2}
  RunId = {a}
  Resource = {x}
  NBindings = 1
  None = None
SPECIFICATION Spec
SYMMETRY Symmetry
CONSTRAINT NoLoggedErrors
CHECK_DEADLOCK FALSE
PROPERTIES
  ImplementsCustody
