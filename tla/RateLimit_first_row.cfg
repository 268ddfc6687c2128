CONSTANTS
  Callers = {c1, c2}
  Value = 2
  Period = 1
  Requests = {2}
  MaxTime = 1
  MayFail = FALSE
  Seed = Seed
  Nobody = Nobody
  NoRow = NoRow
  Unlimited = 99
SPECIFICATION FairSpec
INVARIANTS InserterIsFirst
CHECK_DEADLOCK FALSE
