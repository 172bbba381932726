SPECIFICATION Spec
CONSTANTS
  Pairs = {p, q}
  Refreshed = {q}
  Values = {40, 96, 100}
  MaxRounded = 1
  p = p
  q = q
INVARIANT TypeOK
INVARIANT DriftIsRounding
INVARIANT OverbookedByRounding
INVARIANT EveryRowIsMet
PROPERTY ReconciledToRounding
