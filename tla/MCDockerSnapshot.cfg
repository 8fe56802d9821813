SPECIFICATION Spec
SYMMETRY Symmetry
CONSTANTS
  Container = {a, b, c}
  networks <- MCNetworks
  Network = {1, 2}
  Alias <- MCAlias
  Qualified <- MCQualified
  Settings <- MCSettings
  Gone = Gone
  None = None
  Failed = Failed
  Delimited = {9}
  DefaultNetwork = 2
  maxConcurrentInspects = 2
  MaxChanges = 2
INVARIANTS
  BodyWellFormed
PROPERTIES
  SnapshotFaithful
  SameDockerSameBody
