SPECIFICATION Spec
CONSTANTS
  Pids <- PidsMC
  Terminals = {tty1}
  NoTerminal = NoTerminal
  Threads = {t1, t2}
  Rooms = {2, 3}
  MaxLaunches = 3
INVARIANT NobodyIsMissed
PROPERTIES StopEnds ConnectionsAccepted
\* servers may stay without work
CHECK_DEADLOCK FALSE
