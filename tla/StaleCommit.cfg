SPECIFICATION Spec
CONSTANTS
  Requests = {r1, r2}
  MaxDays = 1
  MaxBalance = 2
  MaxAttempts = 1
  Batches = {b}
  Reconciles = {}
  Refreshes = {}
  Adjustments = {1}
  MaxCrashes = 0
  b = b
  r1 = r1
  r2 = r2
SYMMETRY Symmetry
INVARIANT ReservedIsAlwaysHeld
