\* The store while somebody else edits its files: is every concurrent change of
\* the destination detected?  No: the check and the rename are two steps.
SPECIFICATION Spec
CONSTANTS
  Line = {"u", "u-", "v", "l", "d", "B", "B-cr", "E"}
  BeginLines = {"B", "B-cr"}
  EndLines = {"E"}
  BeginMarker = "B"
  EndMarker = "E"
  Terminate <- MCTerminate
  Baseline <- MCBaseline
  Meta = {"root", "other"}
  DefaultMeta = "root"
  NoMeta = "zero"
  Bodies <- RaceBodies
  InitFiles <- RaceInit
  EditFiles <- RaceEdits
CONSTRAINT FewVersions
PROPERTIES
  ConcurrentChangeDetected
