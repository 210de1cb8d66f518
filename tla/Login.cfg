SPECIFICATION Spec
CONSTANTS
    b1 = b1
    b2 = b2
    t1 = t1
    t2 = t2
    t3 = t3
    Users = {u1}
    Browsers = {b1, b2}
    Tabs = {t1, t2, t3}
    BrowserOf <- AllTabs
    FlowLifetime = 0
    SessionLifetime = 0
    WriteTimeout = 0
    MaxLogins = 2
    MaxTime = 1
INVARIANTS
    TypeOK
    SessionIsOwn
    CodeIsSpentAtHome

PROPERTIES
    AccessEndsWithAccount
SYMMETRY TwinTabs
