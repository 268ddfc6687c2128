CONSTANTS
  Procs = {p1, p2}
  Users = {u1, u2}
  Vaults = {v1}
  UserLines = {{"create-user"}, {"create-user", "grant"}, {"grant", "limit"}}
  MaxCommands = 3
  NoCommand = NoCommand
SPECIFICATION FairSpec
INVARIANTS VaultsAreWhole GrantsWereAsked
PROPERTIES EveryCommandEnds
\* no command has to be called
CHECK_DEADLOCK FALSE
