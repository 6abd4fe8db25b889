SPECIFICATION FairSpec
CONSTANTS
  k1 = k1
  k2 = k2
  Keys = {k1, k2}
  MaxConcurrent = 1
  MaxSessions <- SessionsOfTwo
  MaxRedeliveries = 1
  MaxWorkers = 4
  None = None
INVARIANTS
  Capacity
  OrderedEncodersWithinCap
  RemovedIsReleased
  PoolTracksBroadcasts
PROPERTIES
  HandlerReturns
  ImplementsSlotQueue
\* The service exits after Shutdown, so the model may stop.
CHECK_DEADLOCK FALSE
