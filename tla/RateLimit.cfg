CONSTANTS
  Callers = {c1, c2}
  Value = 2
  Period = 1
  Requests = {1, 3}
  MaxTime = 2
  MayFail = TRUE
  Seed = Seed
  Nobody = Nobody
  NoRow = NoRow
  Unlimited = 99
SPECIFICATION FairSpec
INVARIANTS TypeOK QuotaRespected
PROPERTIES WindowsOnlyMoveOn ImplementsQuota EveryCallReturns
