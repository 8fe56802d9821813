SPECIFICATION FairSpec
CONSTANTS
  Concern = {"snapshot", "events", "apply"}
  Handler = {"h1"}
  MaxHistory = 2
  MaxFails = 5
INVARIANTS
  ActiveRetained
  HistoryBounded
  ReasonFound
PROPERTIES
  LockReleased
