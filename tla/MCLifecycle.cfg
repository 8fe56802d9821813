SPECIFICATION FairSpec
INVARIANTS
  ServerDeathReported
  ResultTruthful
  NothingLeaks
  ReadyAfterFirstAttempt
PROPERTIES
  LoopStartsTruthful
  ProcessEnds
