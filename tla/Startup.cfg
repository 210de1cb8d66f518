SPECIFICATION Spec
CONSTANTS
  Names <- MCNames
  Paths <- MCPaths
  Blocked <- MCBlocked
  Bodies <- MCBodies
  Absent = Absent
  Candidates <- MCCandidates
  Main = main
  Publishers = {refresher, handler}
  Writers = {main, refresher, handler}
  Clients = {c1}
  MaxSessionDuration = 24
  MaxSessionLifetime = 24
  MaxBoots = 2
  MaxVersions = 2
SYMMETRY MCSymmetry
CHECK_DEADLOCK FALSE
INVARIANTS
  TypeOK
  NeverTorn
  ReturnedIsDurable
  RoutesMatchTheScript
  ServesItsConfig
  ServesWhatItOffers
PROPERTIES
  ImplementsAtomicReplace
