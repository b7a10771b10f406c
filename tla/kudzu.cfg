SPECIFICATION KudzuFairSpec
CONSTANTS
  a1 = a1
  p1 = p1
  None = None
  Users = {u1, u2}
  Accounts = {a1}
  Account <- OneAccount
  Locations = {l1}
  Owned <- AllOwned
  Indexers = {i1}
  Requests = {r1}
  UIDs = {x1, x2, x3}
  Nicknames = {n1, n2}
  Places = {p1, p2}
  Fitted = {l1}
  Home <- AllHome
  Legacy <- NoLegacy
  Registered = {u1}
  InitialSamples = {2}
  Window = 1
  Period = 0
  Longest = 2
  MaxSample = 3
  MaxNow = 2
  Faults = {"db", "thingful"}
  MaxFaults = 1
INVARIANTS KudzuTypeOK StrandedByDeletion OwnersRegistered
PROPERTIES NicknameFollows GeolocationRepaired
CHECK_DEADLOCK FALSE
