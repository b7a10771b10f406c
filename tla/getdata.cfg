SPECIFICATION FairSpec
CONSTANTS
  NumUids = 4
  Concurrency = 2
INVARIANTS TypeOK AllOrError NoSendAfterClose LeakBound
PROPERTIES CallReturns ImplementsFetch
CHECK_DEADLOCK FALSE
