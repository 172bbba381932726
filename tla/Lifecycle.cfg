SPECIFICATION FairSpec
CONSTANTS
  Requests = {r1, r2}
  MaxDays = 2
  MaxBalance = 3
  MaxAttempts = 2
  Batches = {}
  Reconciles = {}
  Refreshes = {}
  Adjustments = {}
  MaxCrashes = 0
  r1 = r1
  r2 = r2
INVARIANT TypeOK
INVARIANT ApprovedIsTracked
INVARIANT DriftIsUnbookedDebits
PROPERTY ApprovedIsResolved
CHECK_DEADLOCK FALSE
PROPERTY ImplementsAccount
