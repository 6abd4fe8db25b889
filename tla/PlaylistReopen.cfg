\* OBS reconnects after the playlist was finalized.
SPECIFICATION PlaylistSpec
CONSTANTS
  MaxSessions = 2
  MaxSegments = 2
  MaxFailures = 0
  MaxCrashes = 0
  None = None
INVARIANTS
  ReconnectIsOpen
\* The last session is over when its delayed pass is.
CHECK_DEADLOCK FALSE
