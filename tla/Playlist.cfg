\* Two sessions, three segments in all, one failing request, one crash.
SPECIFICATION PlaylistSpec
CONSTANTS
  MaxSessions = 2
  MaxSegments = 3
  MaxFailures = 1
  MaxCrashes = 1
  None = None
INVARIANTS
  ListedExists
  AllListed
  ClipsAreStitched
  
PROPERTIES
  CountedClipsKept
\* The last session is over when its delayed pass is.
CHECK_DEADLOCK FALSE
