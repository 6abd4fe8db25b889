\* The studio ends a broadcast that is about to start.
SPECIFICATION ReliableSpec
CONSTANTS
  s1 = s1
  s2 = s2
  Streams = {s1}
  MaxKeys = 1
  MaxActiveKeys = 2
  MaxLive = 1
  MaxPublishes = 1
  MaxRequests = 0
  MaxFailures = 0
  Requests = {"api"}
  None = None
PROPERTIES
  EndIsPermanent
\* OBS need not connect again, so the model may stop.
CHECK_DEADLOCK FALSE
