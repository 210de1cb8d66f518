SPECIFICATION RetrySpec
CONSTANTS
    Users = {u1, u2}
    Requests = {r1, r2}
    PerHour = 1
    TokenTicks = 3
    SecondTicks = 3
    SweepAt = 2
    MaxLag = 1
    MaxTime = 5
INVARIANTS
    TypeOK
    BudgetHolds
PROPERTIES
    RefusedOnlyWhenSpent
    PromiseIsKept
SYMMETRY Interchangeable
