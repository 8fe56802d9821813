SPECIFICATION Spec
CONSTANTS
  Words = {"", "saltbox", "web", "db", "bad#", "127.0.0.1"}
  Blank = ""
  Saltbox = "saltbox"
  Broken = {"bad#"}
  Literals = {"127.0.0.1"}
  Paths = {"", " ", ".", "./ ", "/h", "/./h", "/b"}
  NoPath = ""
  BlankPaths = {"", " "}
  Clean <- MCClean
  MaxInt = 63
  Day = 10
  Options <- MCOptions
INVARIANTS
  DurationsExact
  AcceptsExactlySound
  NetworksAsWritten
CHECK_DEADLOCK FALSE
