CONSTANTS
  Clients = {c1}
  MaxRequests = 3
SPECIFICATION FairSpec
INVARIANTS TypeOK ResponsesInOrder StreamHasOneUser NothingAfterClose
PROPERTIES EveryRequestAnswered SessionsEnd
\* every client may fall silent
CHECK_DEADLOCK FALSE
