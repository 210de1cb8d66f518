SPECIFICATION Spec
CONSTANTS
    Users = {u1}
    Requests = {r1}
    PerHour = 2
    TokenTicks = 6
    SecondTicks = 4
    SweepAt = 2
    MaxLag = 0
    MaxTime = 8
PROPERTIES
    WaitIsEnough
