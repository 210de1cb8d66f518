SPECIFICATION FairSpec
CONSTANTS
    Users = {"ann"}
    Lifetimes = {0}
    MaxTrackedSessions = 1
    DefaultMaxSessions = 1
    MaxIssued = 2
    MaxTime = 1
    Requests = {r1}
    Refresher = Refresher
    Startup = Startup
    Lists = {"vpn", "ssh"}
    MaxCrashes = 1
PROPERTIES
    RevocationTakesHold
    SettledRevocationsHold
