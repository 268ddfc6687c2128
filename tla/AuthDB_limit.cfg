CONSTANTS
  Procs = {p1}
  Users = {u1}
  Vaults = {v1, v2}
  UserLines = {{"create-user", "grant", "limit"}}
  MaxCommands = 3
  NoCommand = NoCommand
SPECIFICATION Spec
INVARIANTS LimitApplies
\* no command has to be called
CHECK_DEADLOCK FALSE
