\* A broadcast sent with two keys, two tabs that delete its recording, two faults.
SPECIFICATION RecordingsSpec
CONSTANTS
  BroadcastKeys = {k1, k2}
  Latest = k2
  Thumbs = thumbs
  Calls = {c1, c2}
  MaxClips = 1
  MaxThumbs = 2
  MaxFaults = 2
INVARIANTS
  DeletedIsGone
  ListedIsIntact
CHECK_DEADLOCK FALSE
