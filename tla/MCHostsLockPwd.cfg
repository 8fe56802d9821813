SPECIFICATION Spec
SYMMETRY Symmetry
CONSTANTS
  Process = {p1, p2}
  Dir = {"/", "/a", "/a/b", "nowhere"}
  Root = "/"
  Nowhere = "nowhere"
  Name = {"a", "b", "short", "deep"}
  Up = ".."
  Enter <- MCEnter
  File = {"hosts"}
  LinkTo <- MCLinkTo
  Path <- MCPathsOutOfLink
  LockFiles = {"absent", "fifo", "symlink"}
  MaxUpdates = 2
INVARIANTS
  OneWriterPerFile
