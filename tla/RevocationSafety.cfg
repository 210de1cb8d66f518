SPECIFICATION Spec
CONSTANTS
    Users = {"ann"}
    Lifetimes = {1}
    MaxTrackedSessions = 1
    DefaultMaxSessions = 1
    MaxIssued = 2
    MaxTime = 2
    Requests = {r1, r2}
    Refresher = Refresher
    Startup = Startup
    Lists = {"vpn", "ssh"}
    MaxCrashes = 1
INVARIANTS
    TypeOK
    OnlyRevokedAreListed
    SnapshotNamesItsTarget
    ServesWithItsLists
    RevocationsAreHeld
PROPERTY OnlyOlderListsUndo
SYMMETRY Handlers
