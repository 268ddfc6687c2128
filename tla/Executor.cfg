CONSTANTS
  Workers = {w1, w2}
  Jobs = {j1, j2, j3}
  NoJob = NoJob
SPECIFICATION FairSpec
INVARIANTS TypeOK OneOwner NoLostWakeup HaltedIsQuiet
PROPERTIES ImplementsTaskPool AcceptedJobRuns HaltReturns
\* an idle pool waits for add() or halt() for ever
CHECK_DEADLOCK FALSE
