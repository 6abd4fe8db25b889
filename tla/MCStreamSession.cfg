\* Reconnects, two keys of one stream and one failing request, or two streams at a time.
SPECIFICATION FairSpec
CONSTANTS
  s1 = s1
  s2 = s2
  Streams = {s1, s2}
  MaxKeys = 2
  MaxActiveKeys = 2
  MaxLive = 1
  MaxPublishes = 2
  MaxRequests = 1
  MaxFailures = 1
  Requests = {"api"}
  None = None
INVARIANTS
  LiveMeansOnAir
  EndedIsFinalized
  
  EventsBalance
  LiveWithinLimit
CONSTRAINT FewRequests
PROPERTIES
  IdleSessionsEnd
  RevokedNotFromCache
\* OBS need not connect again, so the model may stop.
CHECK_DEADLOCK FALSE
