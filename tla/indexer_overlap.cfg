SPECIFICATION Spec
CONSTANTS
  u1 = u1
  l1 = l1
  l2 = l2
  p1 = p1
  x1 = x1
  None = None
  Users = {u1}
  Locations = {l1}
  Owned <- OneOwner
  Indexers = {i1, i2}
  UIDs = {x1, x2, x3, x4}
  Nicknames = {n1, n2}
  Places = {p1}
  Fitted = {l1}
  Home <- AllHome
  Legacy <- NoLegacy
  Registered = {u1}
  InitialSamples = {0, 3}
  Window = 1
  Period = 0
  Longest = 3
  MaxSample = 4
  MaxNow = 3
  Faults = {"commit", "thingful", "db"}
  MaxFaults = 1
SYMMETRY IndexerSymmetry
INVARIANTS CopyInv Coverage
CHECK_DEADLOCK FALSE
