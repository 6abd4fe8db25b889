\* Two users sign in and out of one tab that opens and closes the chat panel.
SPECIFICATION Spec
CONSTANTS
  ann = ann
  bob = bob
  c1 = c1
  c2 = c2
  Users = {ann, bob}
  None = None
  Calls = {c1, c2}
  MaxAttempts = 2
  MaxMishaps = 1
  MaxSessions = 5
SYMMETRY Alike
CONSTRAINT FewSessions
INVARIANTS
  OneSocket
  SignedInAgrees
  NeverSilentlyOffline
CHECK_DEADLOCK FALSE
