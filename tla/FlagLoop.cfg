SPECIFICATION Spec
CONSTANTS
  Requests = {r1, r2, r3}
  MaxDays = 3
  MaxBorn = 3
  MaxBalance = 9
  r1 = r1
  r2 = r2
  r3 = r3
INVARIANT FlagsAsStated
PROPERTY RestIsCovered
CHECK_DEADLOCK FALSE
