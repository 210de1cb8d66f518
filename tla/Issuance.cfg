SPECIFICATION Spec
CONSTANTS
  Names = {"vpn", "ssh"}
  MaxSessionDuration = 24
  MaxSessionLifetime = 24
  Conf <- MCConf
  Users = {"ann"}
  Roles = {"staff"}
  Requests = {r1, r2}
  Logins = {l1}
  CAEnd = 4
  SecondTicks = 3
  FlowLifetime = 0
  WriteTimeout = 1
  TokenTicks = 2
  SweepAt = 2
  MaxLag = 0
  DefaultMaxSessions = 4
  MaxIssued = 2
  MaxTime = 3
  MaxForgotten = 1
SYMMETRY MCSymmetry
CHECK_DEADLOCK FALSE
INVARIANTS
  TypeOK
  DeliveredCanBeRevoked
  ExpiryIsHonest
  CredentialsArePaidFor
  IssuedWithinBudget
  CredentialsEndWithRoles
PROPERTIES
  UsesTheLimiter
