SPECIFICATION ScanSpec
\* A finished scan takes no further step.
CHECK_DEADLOCK FALSE
CONSTANTS
  Line = {"u", "B", "B-cr", "E"}
  BeginLines = {"B", "B-cr"}
  EndLines = {"E"}
  BeginMarker = "B"
  EndMarker = "E"
  Terminate <- MCTerminate
  Baseline <- MCBaseline
  Inputs <- MCInputs
INVARIANTS
  ScanCorrect
