\* One verification, live or offline, with every finding: what a verdict rests
\* on, and that it comes.
CONSTANTS
  Live = {p}
  Offline = {o}
  Topic = {k}
  Endpoint = {}
  Node = {n}
  Forbidden = {f}
  FirstMessageTimeout <- TopicTwo
  NodeTimeout <- NodeThree
  NodeStable <- NodeTwo
  ReadyTimeout = 2
  StableFor = 1
  ExecutionTime = 2
  ShutdownTimeout = 1
  Poll = 1
  Physical = FALSE
  Evaluations <- Evaluation
  MaxLag = 2
  None = None
SPECIFICATION FairSpecApart
CHECK_DEADLOCK FALSE
INVARIANTS
  MeasuresOnlyWhenStable
  PassedIsEarned
  FailureHasCause
  
PROPERTIES
  VerificationEnds
