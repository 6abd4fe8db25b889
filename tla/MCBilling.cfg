\* Checkouts, cancellations and webhooks of one user, two at a time.
SPECIFICATION Spec
CONSTANTS
  h1 = h1
  h2 = h2
  Handlers = {h1, h2}
  MaxSubs = 2
  MaxEvents = 4
  MaxCancels = 1
  MaxFailures = 1
SYMMETRY Alike
CONSTRAINT FewInputs
INVARIANTS
  RowsFollowRazorpay
  PlanFollowsRows
  
CHECK_DEADLOCK FALSE
