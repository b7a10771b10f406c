SPECIFICATION FairSpec
CONSTANTS
  MaxApps = 3
  NoIndexer = FALSE
INVARIANTS TypeOK GracefulStop
PROPERTIES StopTerminates NeverDeaf
CHECK_DEADLOCK FALSE
