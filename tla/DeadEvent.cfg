SPECIFICATION Spec
CONSTANTS
  Requests = {r1}
  MaxDays = 1
  MaxBalance = 2
  MaxAttempts = 2
  Batches = {}
  Reconciles = {}
  Refreshes = {}
  Adjustments = {}
  MaxCrashes = 0
  r1 = r1
SYMMETRY Symmetry
INVARIANT DeadMeansFailed
CHECK_DEADLOCK FALSE
