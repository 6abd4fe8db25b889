\* A private stream: two viewers, one of them with two tabs, and an invite for one.
SPECIFICATION Spec
CONSTANTS
  p1 = p1
  p2 = p2
  p3 = p3
  r1 = r1
  r2 = r2
  owner = owner
  ann = ann
  bob = bob
  Pages = {p1, p2, p3}
  Users = {ann, bob}
  UserOf <- Tabs
  Owner = owner
  Private = TRUE
  MaxUses = 1
  Requests = {r1, r2}
  MaxOpens = 3
  MaxPings = 3
  MaxRedeems = 2
  MaxMishaps = 1
  MaxInputs = 6
SYMMETRY Alike
CONSTRAINT FewInputs
INVARIANTS
  PresentAreWatching
  CountsAgree
  InviteHolds
CHECK_DEADLOCK FALSE
