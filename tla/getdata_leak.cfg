SPECIFICATION FairSpec
CONSTANTS
  NumUids = 3
  Concurrency = 1
PROPERTY ChannelGetsClosed
CHECK_DEADLOCK FALSE
