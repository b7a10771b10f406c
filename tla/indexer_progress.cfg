SPECIFICATION EndlessSpec
CONSTANTS
  u1 = u1
  l1 = l1
  l2 = l2
  p1 = p1
  x1 = x1
  None = None
  Users = {u1, u2}
  Locations = {l1, l2}
  Owned <- OneOwner
  Indexers = {i1}
  UIDs = {x1, x2, x3}
  Nicknames = {n1}
  Places = {p1}
  Fitted = {l1, l2}
  Home <- AllHome
  Legacy <- LegacyL1
  Registered = {u1, u2}
  InitialSamples = {3}
  Window = 2
  Period = 0
  Longest = 5
  MaxSample = 4
  MaxNow = 5
  Faults = {"thingful"}
  MaxFaults = 1
PROPERTIES NoStarvation PassEnds EventuallyUploaded
CHECK_DEADLOCK FALSE
