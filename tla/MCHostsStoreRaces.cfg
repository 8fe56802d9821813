\* The store while somebody else edits both files between any two steps, with
\* failing calls, cancellation, kills and power losses on top.
SPECIFICATION Spec
CONSTANTS
  Line = {"u", "u-", "v", "l", "d", "B", "B-cr", "E"}
  BeginLines = {"B", "B-cr"}
  EndLines = {"E"}
  BeginMarker = "B"
  EndMarker = "E"
  Terminate <- MCTerminate
  Baseline <- MCBaseline
  Meta = {"root", "other"}
  DefaultMeta = "root"
  NoMeta = "zero"
  Bodies <- RaceBodies
  InitFiles <- RaceInit
  EditFiles <- RaceEdits
CONSTRAINT FewVersions
INVARIANTS
  FailureAtomic
PROPERTIES
  NoLostEdit
