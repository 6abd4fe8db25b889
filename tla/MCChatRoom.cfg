\* Two tabs of one user, two handlers at a time: whoever joins, posts and is banned meanwhile.
SPECIFICATION Spec
CONSTANTS
  s1 = s1
  s2 = s2
  viewer = viewer
  c1 = c1
  c2 = c2
  r1 = r1
  r2 = r2
  Streams = {s1, s2}
  Users = {viewer}
  Sockets = {c1, c2}
  Owner <- OwnerOfTwo
  UserOf <- OneUser
  Private = {s1}
  HistoryLength = 1
  Requests = {r1, r2}
  MaxJoins = 3
  MaxMessages = 2
  MaxBans = 2
  None = None
CONSTRAINT FewInputs
SYMMETRY Alike
INVARIANTS
  OneSocketPerUser
  RoomsAgree
  BannedStayOut
  FilteredByOwnWords
CHECK_DEADLOCK FALSE
