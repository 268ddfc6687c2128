CONSTANTS
  Procs = {p1}
  Users = {u1}
  Vaults = {v1}
  UserLines = {{"create-user", "grant"}}
  MaxCommands = 2
  NoCommand = NoCommand
SPECIFICATION Spec
INVARIANTS GrantedIsAccessible
\* no command has to be called
CHECK_DEADLOCK FALSE
