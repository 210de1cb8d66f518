SPECIFICATION Spec
CONSTANTS
  Names = {"krl", "dev"}
  Paths <- MCPaths
  Blocked = {}
  Bodies <- MCBodies
  Absent = Absent
  Candidates <- KRLCandidates
  Main = main
  Publishers = {refresher}
  Writers = {main, refresher}
  Clients = {c1}
  MaxSessionDuration = 24
  MaxSessionLifetime = 24
  MaxBoots = 1
  MaxVersions = 2
CHECK_DEADLOCK FALSE
INVARIANT MatchingRoutesAreHandedBack
