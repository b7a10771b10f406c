SPECIFICATION ApiSpec
CONSTANTS
  None = None
  Visitors = {a1, a2}
  Admin = a1
  Console = console
  Requests = {r1, r2}
  Limiters = {1, 2, 3, 4, 5}
  Names = {n1, n2}
  Scopes <- AskedScopes
  Rates = {1, 2}
  DefaultRate = 1
  Expiry = 2
  MaxNow = 3
  MaxRequests = 5
  MaxChanges = 1
  MaxFaults = 1
SYMMETRY ApiSymmetry
INVARIANTS ApiTypeOK FairShare KeysWork NamesLostBound
PROPERTY LimitedOnlyAtLimit
CHECK_DEADLOCK FALSE
