SPECIFICATION Spec
CONSTANTS
  u1 = u1
  l1 = l1
  l2 = l2
  p1 = p1
  x1 = x1
  None = None
  Users = {u1, u2}
  Locations = {l1, l2}
  Owned <- TwoOwners
  Indexers = {i1, i2}
  UIDs = {x1, x2, x3}
  Nicknames = {n1}
  Places = {p1}
  Fitted = {l1, l2}
  Home <- AllHome
  Legacy <- LegacyL1
  Registered = {u1, u2}
  InitialSamples = {0, 3}
  Window = 1
  Period = 1
  Longest = 1
  MaxSample = 4
  MaxNow = 4
  Faults = {"query", "parrot", "db", "crash"}
  MaxFaults = 1
SYMMETRY IndexerSymmetry
INVARIANT OnePassPerIdentity
PROPERTY WatermarkNeverRegresses
CHECK_DEADLOCK FALSE
