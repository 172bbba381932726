SPECIFICATION Spec
CONSTANTS
  Requests = {r1}
  MaxDays = 1
  MaxBalance = 2
  MaxAttempts = 1
  Batches = {}
  Reconciles = {}
  Refreshes = {}
  Adjustments = {}
  MaxCrashes = 1
  r1 = r1
SYMMETRY Symmetry
INVARIANT DebitedIsTracked
CHECK_DEADLOCK FALSE
