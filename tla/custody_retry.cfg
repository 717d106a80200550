\* A claimed close that is retried ends, through lost sessions and answers.
CONSTANTS
  Job = {j1}
  Upload = {1, 2}
  Closer = {c1, c2}
  Status = {ok}
  MaxUploads = 2
  MaxVersions = 2
  MaxFaults = 1
  None = None
SPECIFICATION FairSpec
CHECK_DEADLOCK FALSE
PROPERTIES
  ClaimedJobCloses
