SPECIFICATION Spec
CONSTANTS
  Requests = {r1, r2}
  MaxDays = 2
  MaxBalance = 2
  MaxAttempts = 1
  Batches = {b}
  Reconciles = {}
  Refreshes = {}
  Adjustments = {0, 1}
  MaxCrashes = 1
  b = b
  r1 = r1
  r2 = r2
SYMMETRY Symmetry
INVARIANT TypeOK
INVARIANT UnapprovedNeverDebited
INVARIANT CommittedMeansDebited
INVARIANT DoneIsSettled
INVARIANT LedgerExplainsBalance
INVARIANT ReservationIsHeld
INVARIANT NoOverbooking
INVARIANT DebitCanBeBooked
PROPERTY OutcomeIsFinal
PROPERTY AccountUntilOverridden
