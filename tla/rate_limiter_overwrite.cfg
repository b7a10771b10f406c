SPECIFICATION Spec
CONSTANTS
  None = None
  Visitors = {a1}
  Requests = {r1, r2}
  Limiters = {1, 2, 3, 4, 5}
  Rates = {1, 2}
  Expiry = 2
  MaxNow = 3
SYMMETRY RateLimiterSymmetry
INVARIANT EntryReturned
