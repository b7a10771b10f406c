SPECIFICATION Spec
CONSTANTS
  x1 = x1
  x2 = x2
  UIDs = {x1, x2}
  Calls = {}
  Requests <- MCRequests
  Contents <- MCContents
  DataSources <- MCSources
  HN4Unit <- MCUnits
  MaxLocations = 3
  MaxTimeInterval = 2
  NoUnit = ""
INVARIANTS Complete InOrder Explained OnlyRequestedFail
CHECK_DEADLOCK FALSE
