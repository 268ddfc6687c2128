CONSTANTS
  Clients = {c1, c2}
  Lengths = {0, 2}
  MaxBytes = 8
SPECIFICATION FairSpec
INVARIANTS NoByteLost RightSession OnlyShortClientsSpin
PROPERTIES EnoughIsEnough LeaverStaysOnlyInRead
\* every client may fall silent
CHECK_DEADLOCK FALSE
