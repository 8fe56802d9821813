SPECIFICATION Spec
SYMMETRY Symmetry
CONSTANTS
  Process = {p1, p2, p3}
  Dir = {"/", "/a", "/a/b", "nowhere"}
  Root = "/"
  Nowhere = "nowhere"
  Name = {"a", "b", "short", "deep"}
  Up = ".."
  Enter <- MCEnter
  File = {"hosts"}
  LinkTo <- MCLinkTo
  Path <- MCStraightPaths
  LockFiles = {"absent", "fifo", "symlink"}
  MaxUpdates = 2
INVARIANTS
  OneWriterPerFile
PROPERTIES
  SerialUpdates
