SPECIFICATION Spec
CONSTANTS
    RefreshInterval = 3
    CrlValidity = 12
    MaxLag = 1
    MaxFailures = 2
    MaxTime = 24
INVARIANTS
    TypeOK
    CrlIsCurrent
    RevocationsListedInTime
