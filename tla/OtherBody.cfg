SPECIFICATION Spec
CONSTANTS
  Sends = {s1, s2}
  Keys = {k}
  Bodies = {b1, b2}
  MaxBalance = 1
  MaxCrashes = 1
  s1 = s1
  s2 = s2
  k = k
  b1 = b1
  b2 = b2
SYMMETRY Symmetry
INVARIANT OtherBodyRefused
CHECK_DEADLOCK FALSE
