SPECIFICATION Spec
CONSTANTS
  Pairs = {p}
  Refreshed = {}
  Values = {100, 125}
  MaxRounded = 2
  p = p
INVARIANT LedgerIsExact
