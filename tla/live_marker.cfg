\* Two verifications with one marker.
CONSTANTS
  Live = {p, q}
  Offline = {}
  Topic = {k}
  Endpoint = {}
  Node = {}
  Forbidden = {f}
  FirstMessageTimeout <- TopicTwo
  NodeTimeout <- NodeThree
  NodeStable <- NodeTwo
  ReadyTimeout = 1
  StableFor = 1
  ExecutionTime = 1
  ShutdownTimeout = 1
  Poll = 1
  Physical = TRUE
  Evaluations <- TwoEvaluations
  MaxLag = 1
  None = None
SPECIFICATION Spec
CHECK_DEADLOCK FALSE
SYMMETRY Symmetry
INVARIANTS
  MarkerIsFinal
