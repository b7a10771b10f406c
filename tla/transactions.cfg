SPECIFICATION FairSpec
CONSTANTS
  a1 = a1
  None = None
  Users = {u1, u2}
  Accounts = {a1}
  Account <- OnePerson
  Locations = {l1, l2}
  Rows <- AllRows
  Nicknames = {n1}
  Sources = {1, 2}
  NumSources = 2
  Sessions = {s1, s2, s3}
  UIDs = {x1, x2}
  Registered = {u1}
  MaxFaults = 1
INVARIANTS TypeOK NoWaitCycle
PROPERTIES ImplementsTables EveryTransactionEnds
CHECK_DEADLOCK FALSE
