SPECIFICATION Spec
CONSTANTS
  u1 = u1
  l1 = l1
  l2 = l2
  p1 = p1
  x1 = x1
  None = None
  Users = {u1}
  Locations = {l1, l2}
  Owned <- OneOwner
  Indexers = {i1}
  UIDs = {x1, x2, x3, x4}
  Nicknames = {n1}
  Places = {p1}
  Fitted = {l1, l2}
  Home <- AllHome
  Legacy <- LegacyL1
  Registered = {u1}
  InitialSamples = {0, 3}
  Window = 2
  Period = 1
  Longest = 3
  MaxSample = 4
  MaxNow = 3
  Faults = {"query", "commit", "parrot", "thingful", "db", "crash"}
  MaxFaults = 2
INVARIANTS TypeOK StrandedBound
PROPERTIES WatermarkNeverRegresses ImplementsDelivery
CHECK_DEADLOCK FALSE
