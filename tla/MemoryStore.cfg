SPECIFICATION Spec
CONSTANTS
    Users = {"ann"}
    Lifetimes <- MCLifetimes
    MaxTrackedSessions = 0
    DefaultMaxSessions = 2
    MaxIssued = 4
    MaxTime = 1
INVARIANTS
    TypeOK
    NewestFirst
    RevokedOnce
    HeldAreTheLongestLived
    HeldAreBounded
PROPERTIES
    ImplementsSessionStore
