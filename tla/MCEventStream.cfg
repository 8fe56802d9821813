SPECIFICATION FairSpec
CONSTANTS
  MaxPending = 1
  MaxMessages = 4
INVARIANTS
  EventsInOrder
  ErrorToldUnlessCancelled
PROPERTIES
  ImplementsContract
  CloseEnds
