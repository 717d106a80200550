\* Two runs, one of whose files are replaced twice while they are read, and one
\* campaign; two recordings and two assessments of an execution; bundles with two
\* edits; two calls of which one may be active; three modules in two places.
CONSTANTS
  RunOrder <- MCRunOrder
  Results <- MCResults
  Finished <- MCFinished
  ResultContents <- MCResultContents
  RunDomains <- MCRunDomains
  Qualifications <- MCQualifications
  Policy <- MCPolicy
  Rewrites <- MCRewrites
  Attempts = 2
  Absent = Absent
  Profiles <- MCProfiles
  Captures <- MCCaptures
  Methods <- MCMethods
  Measurements <- MCMeasurements
  Replies <- MCReplies
  Windows <- MCWindows
  PolicyRows <- MCPolicyRows
  Recordings = 2
  Assessments = 2
  Bundles <- MCBundles
  Library <- MCLibrary
  Edits = 2
  None = None
  Calls = {c, d}
  Artifacts = {"a", "b"}
  Size <- MCSize
  Limit = 2
  Inputs <- MCCalls
  Capacity = 1
  Changes = 1
  Failures = 1
  Places <- MCPlaces
  Modules <- MCModules
  ImportsOf <- MCImports
  LateImportsOf <- MCLateImports
  Suites <- MCSuites
  Versions = {"v1", "v2"}
  Tampering = 2
  Evaluations = 2
SPECIFICATION InputsSpec
CHECK_DEADLOCK FALSE
INVARIANTS
  CampaignIsSound
  SummariesAreAccepted
  
  PassedIsCovered
  AggregateFixesBundle
  ObservedUnderPermit
  OkIsRegistered
  NothingIsLeftBehind
  OnlyVerifiedCodeRuns
