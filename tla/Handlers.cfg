CONSTANTS
  Requests = {r1, r2}
  Value = 2
  MaxItems = 3
  MayFail = TRUE
SPECIFICATION Spec
SYMMETRY Symmetry
INVARIANTS TypeOK MetricsFollowRequests QuotaCoversWork ChargeIsUsed BatchAnswered
\* every request has been handled
CHECK_DEADLOCK FALSE
