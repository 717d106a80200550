\* Two jobs of a batch: close calls race on their uploads, and the batch follows.
CONSTANTS
  Job = {j1, j2}
  Upload = {1, 2}
  Closer = {c1, c2}
  Status = {ok, err}
  MaxUploads = 2
  MaxVersions = 2
  MaxFaults = 2
  None = None
SPECIFICATION Spec
SYMMETRY Symmetry
CHECK_DEADLOCK FALSE
INVARIANTS
  CustodyIsComplete
  LockProtectsCustody
PROPERTIES
  CustodyIsPermanent
