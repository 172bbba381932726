SPECIFICATION Spec
CONSTANTS
  Sends = {s1, s2, s3, s4}
  Keys = {k}
  Bodies = {b1, b2}
  MaxBalance = 1
  MaxCrashes = 1
  s1 = s1
  s2 = s2
  s3 = s3
  s4 = s4
  k = k
  b1 = b1
  b2 = b2
SYMMETRY Symmetry
INVARIANT TypeOK
INVARIANT KeyReservesOnce
INVARIANT SameKeySameId
INVARIANT ReplyFitsOperation
INVARIANT ApprovalsAgree
INVARIANT OneApprovalWaits
PROPERTY RetriedCreationIsAnswered
CHECK_DEADLOCK FALSE
