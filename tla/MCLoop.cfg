SPECIFICATION FairSpec
CONSTANTS
  PeriodicInterval = 3
  DebounceDelay = 1
  MaxDebounceDelay = 2
  InitialDelay = 1
  MaxDelay = 3
  StabilityDelay = 1
  MaxBuffered = 1
INVARIANTS
  NeverStranded
  EventAnsweredInTime
  HealthTruthful
  StreamsCancelled
PROPERTIES
  BackoffKept
  ImplementsContract
  LoopEnds
  Converges
