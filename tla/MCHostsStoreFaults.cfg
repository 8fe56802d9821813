\* The store with nobody else editing its files, from every pair of files it may
\* find: failing calls, cancellation, kills and power losses at every step.
SPECIFICATION Spec
CONSTANTS
  Line = {"u", "u-", "v", "l", "d", "B", "B-cr", "E"}
  BeginLines = {"B", "B-cr"}
  EndLines = {"E"}
  BeginMarker = "B"
  EndMarker = "E"
  Terminate <- MCTerminate
  Baseline <- MCBaseline
  Meta = {"root", "other"}
  DefaultMeta = "root"
  NoMeta = "zero"
  Bodies <- FaultBodies
  InitFiles <- FaultInit
  EditFiles <- FaultEdits
CONSTRAINT FewVersions
INVARIANTS
  TypeOK
  MirrorOnSuccess
  NeverTorn
  RetainedBeforeCommit
PROPERTIES
  BackupStaysValid
  UserLinesPreserved
  ImplementsContract
