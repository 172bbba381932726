SPECIFICATION Spec
CONSTANTS
  Requests = {r1, r2}
  MaxDays = 2
  MaxBalance = 2
  MaxAttempts = 1
  Batches = {}
  Reconciles = {s}
  Refreshes = {f}
  Adjustments = {0}
  MaxCrashes = 0
  f = f
  r1 = r1
  r2 = r2
  s = s
SYMMETRY Symmetry
INVARIANT TypeOK
INVARIANT LedgerExplainsBalance
INVARIANT ReservationIsHeld
 
