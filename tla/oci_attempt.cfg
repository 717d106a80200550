\* One attempt with every failure, interruption and kill.
SPECIFICATION FairSpec
CHECK_DEADLOCK FALSE
INVARIANTS
  ResponseIsSettled
  JournalCoversContainer
  FailureIsReported
PROPERTIES
  RemovalIsEarned
  AttemptEnds
