------------------------------- MODULE AuthDB --------------------------------
(***************************************************************************)
(* The database of users, vaults, grants and limits (src/src/authdb.cc),   *)
(* and the command line that fills it (processCmd of                       *)
(* src/src/include/tokenization.hh).  Every command is a process of its    *)
(* own: it creates the tables if there are none, executes its statements   *)
(* in one transaction, and exits.  Several commands may run at once, and   *)
(* each may be killed.                                                     *)
(*                                                                         *)
(* PostgreSQL is external, at READ COMMITTED: a statement sees what is     *)
(* committed when it starts; one that would break a UNIQUE constraint      *)
(* waits for the transaction that wrote the other row, and fails if that   *)
(* commits; a failed transaction leaves nothing but used-up serial ids.    *)
(* A vault's two names, alias and table, belong together: a vault stands   *)
(* for both.  A user stands for the name and the token.                    *)
(***************************************************************************)
EXTENDS Naturals, FiniteSets

CONSTANTS Procs,        \* processes that run commands at the same time
          Users, Vaults,
          UserLines,    \* the user options that come together on a command line
          MaxCommands,  \* bound of the commands
          NoCommand

UserDoes == {"create-user", "grant", "limit"}

ASSUME CommandAssumption == /\ MaxCommands \in Nat
                            /\ UserLines \subseteq (SUBSET UserDoes) \ {{}}

VARIABLES schema,     \* the tables are there
          users,      \* rows [id, user]
          vaults,     \* rows [id, vault]
          tables,     \* the table of a vault's tokens exists
          grants,     \* rows of user_vaults [id, user, vault], of ids
          configs,    \* rows of user_limits_config [id, grant], of ids
          serial,     \* next id of each table
          at,         \* at[p]: the statement p is about to execute
          cmd,        \* cmd[p]: its command
          todo,       \* todo[p]: what of it is not done yet
          new,        \* new[p]: rows it wrote and has not committed
          count,      \* commands so far
          history     \* commands that ended, with their exit status

data == <<users, vaults, tables, grants, configs>>
vars == <<schema, data, serial, at, cmd, todo, new, count, history>>

(* One command line may create a user, grant and limit, in this order and  *)
(* in a transaction each.                                                  *)
Commands == [does : {{"create-vault"}}, vault : Vaults]
            \cup [does : UserLines, user : Users, vault : Vaults]

Nothing == [users |-> {}, vaults |-> {}, tables |-> {}, grants |-> {}, configs |-> {}]

Stage == {"idle", "init", "create tables", "commit tables", "run", "create table",
          "insert vault", "commit"}

Init == /\ schema = FALSE
        /\ users = {} /\ vaults = {} /\ tables = {} /\ grants = {} /\ configs = {}
        /\ serial = [t \in {"users", "vaults", "grants", "configs"} |-> 1]
        /\ at = [p \in Procs |-> "idle"]
        /\ cmd = [p \in Procs |-> NoCommand]
        /\ todo = [p \in Procs |-> {}]
        /\ new = [p \in Procs |-> Nothing]
        /\ count = 0
        /\ history = {}

-----------------------------------------------------------------------------
Goto(p, label) == at' = [at EXCEPT ![p] = label]

Call(p) == /\ at[p] = "idle" /\ count < MaxCommands
           /\ \E c \in Commands : /\ cmd' = [cmd EXCEPT ![p] = c]
                                /\ todo' = [todo EXCEPT ![p] = c.does]
           /\ Goto(p, "init")
           /\ count' = count + 1
           /\ UNCHANGED <<schema, data, serial, new, history>>

(* The process exits; what it did not commit is gone.                      *)
Exit(p, status) == /\ Goto(p, "idle")
                   /\ history' = history \cup {[cmd |-> cmd[p], status |-> status]}
                   /\ cmd' = [cmd EXCEPT ![p] = NoCommand]
                   /\ todo' = [todo EXCEPT ![p] = {}]
                   /\ new' = [new EXCEPT ![p] = Nothing]
                   /\ UNCHANGED count

Fails(p) == Exit(p, "failed") /\ UNCHANGED <<schema, data>>

-----------------------------------------------------------------------------
(* init(): look for the tables.                                            *)
FindTables(p) == /\ at[p] = "init"
                 /\ Goto(p, IF schema THEN "run" ELSE "create tables")
                 /\ UNCHANGED <<schema, data, serial, cmd, todo, new, count, history>>

(* Mutant: it tries again until it is the one that creates them.           *)
CreateTablesRetries(p) ==
    /\ at[p] = "create tables"
    /\ \A q \in Procs \ {p} : at[q] # "commit tables"
    /\ Goto(p, IF schema THEN "create tables" ELSE "commit tables")
    /\ UNCHANGED <<schema, data, serial, cmd, todo, new, count, history>>

(* CREATE TABLE waits for another transaction that creates the same one.   *)
CreateTables(p) == /\ at[p] = "create tables"
                   /\ \A q \in Procs \ {p} : at[q] # "commit tables"
                   /\ IF schema
                      THEN Fails(p)
                      ELSE /\ Goto(p, "commit tables")
                           /\ UNCHANGED <<schema, data, cmd, todo, new, count, history>>
                   /\ UNCHANGED serial

CommitTables(p) == /\ at[p] = "commit tables"
                   /\ schema' = TRUE
                   /\ Goto(p, "run")
                   /\ UNCHANGED <<data, serial, cmd, todo, new, count, history>>

-----------------------------------------------------------------------------
IdsOfUser(u)  == {r.id : r \in {s \in users : s.user = u}}
IdsOfVault(v) == {r.id : r \in {s \in vaults : s.vault = v}}

Runs(p, what, before) == at[p] = "run" /\ what \in todo[p] /\ todo[p] \cap before = {}

(* A row another transaction wrote and has not committed yet.              *)
Pending(p, table) == UNION {new[q][table] : q \in Procs \ {p}}

Inserted(p, what, table, rows) ==
    /\ todo' = [todo EXCEPT ![p] = @ \ {what}]
    /\ new' = [new EXCEPT ![p][table] = rows]
    /\ serial' = [serial EXCEPT ![table] = @ + Cardinality(rows)]
    /\ Goto(p, "commit")
    /\ UNCHANGED <<schema, data, cmd, count, history>>

(* A statement that breaks a UNIQUE constraint has drawn its id.           *)
Refused(p, table) == Fails(p) /\ serial' = [serial EXCEPT ![table] = @ + 1]

(* create_user: users_username_key.                                        *)
CreateUser(p) ==
    /\ Runs(p, "create-user", {})
    /\ LET u == cmd[p].user
       IN  /\ \A r \in Pending(p, "users") : r.user # u
           /\ IF IdsOfUser(u) # {}
              THEN Refused(p, "users")
              ELSE Inserted(p, "create-user", "users", {[id |-> serial["users"], user |-> u]})

(* Mutant: the grant is not joined with the user's name.                   *)
GrantRowsAnyUser(u, v) == {[id |-> serial["grants"], user |-> i, vault |-> k] :
                              i \in {r.id : r \in users}, k \in IdsOfVault(v)}

(* The rows of INSERT INTO user_vaults SELECT: none if user or vault is    *)
(* not there, which is no error.                                           *)
GrantRows(u, v) == {[id |-> serial["grants"], user |-> i, vault |-> k] :
                       i \in IdsOfUser(u), k \in IdsOfVault(v)}

SamePair(a, b) == a.user = b.user /\ a.vault = b.vault

(* grant_user: user_vaults_uid_vault.                                      *)
Grant(p) ==
    /\ Runs(p, "grant", {"create-user"})
    /\ LET rows == GrantRows(cmd[p].user, cmd[p].vault)
       IN  /\ \A r \in rows, s \in Pending(p, "grants") : ~SamePair(r, s)
           /\ IF \E r \in rows, s \in grants : SamePair(r, s)
              THEN Refused(p, "grants")
              ELSE Inserted(p, "grant", "grants", rows)

LimitRows(u, v) == {[id |-> serial["configs"], grant |-> g.id] :
                       g \in {h \in grants : h.user \in IdsOfUser(u) /\ h.vault \in IdsOfVault(v)}}

(* limit_user: another row each time.                                      *)
Limit(p) == /\ Runs(p, "limit", {"create-user", "grant"})
            /\ Inserted(p, "limit", "configs", LimitRows(cmd[p].user, cmd[p].vault))

(* createVault: look for the name first; the exception of a later          *)
(* statement is caught, and the command exits with status 1 all the same.  *)
FindVault(p) ==
    /\ Runs(p, "create-vault", {})
    /\ IF IdsOfVault(cmd[p].vault) # {}
       THEN Fails(p)
       ELSE Goto(p, "create table") /\ UNCHANGED <<schema, data, cmd, todo, new, count, history>>
    /\ UNCHANGED serial

(* Mutant: the table is committed before the entry.                        *)
CreateTableAtOnce(p) ==
    /\ at[p] = "create table" /\ cmd[p].vault \notin Pending(p, "tables")
    /\ IF cmd[p].vault \in tables
       THEN Fails(p)
       ELSE /\ tables' = tables \cup {cmd[p].vault}
            /\ Goto(p, "insert vault")
            /\ UNCHANGED <<schema, users, vaults, grants, configs, cmd, todo, new, count, history>>
    /\ UNCHANGED serial

(* CREATE TABLE for the tokens of the vault.                               *)
CreateTable(p) ==
    /\ at[p] = "create table" /\ cmd[p].vault \notin Pending(p, "tables")
    /\ IF cmd[p].vault \in tables
       THEN Fails(p)
       ELSE /\ new' = [new EXCEPT ![p].tables = {cmd[p].vault}]
            /\ Goto(p, "insert vault")
            /\ UNCHANGED <<schema, data, cmd, todo, count, history>>
    /\ UNCHANGED serial

(* Its entry: vaults_alias_key, vaults_name_key.                           *)
InsertVault(p) ==
    /\ at[p] = "insert vault"
    /\ LET v == cmd[p].vault
       IN  /\ \A r \in Pending(p, "vaults") : r.vault # v
           /\ IF IdsOfVault(v) # {}
              THEN Refused(p, "vaults")
              ELSE Inserted(p, "create-vault", "vaults", {[id |-> serial["vaults"], vault |-> v]})

(* connection.commit(); the command goes on, or exits with status 0, also  *)
(* where no row was inserted.  It may be killed before it can say so.      *)
Commit(p) ==
    /\ at[p] = "commit"
    /\ users' = users \cup new[p].users
    /\ vaults' = vaults \cup new[p].vaults
    /\ tables' = tables \cup new[p].tables
    /\ grants' = grants \cup new[p].grants
    /\ configs' = configs \cup new[p].configs
    /\ \/ todo[p] = {} /\ Exit(p, "ok")
       \/ Exit(p, "failed")
       \/ /\ todo[p] # {}
          /\ Goto(p, "run")
          /\ new' = [new EXCEPT ![p] = Nothing]
          /\ UNCHANGED <<cmd, todo, count, history>>
    /\ UNCHANGED <<schema, serial>>

(* The process is killed or loses the database.                            *)
Dies(p) == at[p] # "idle" /\ Fails(p) /\ UNCHANGED serial

-----------------------------------------------------------------------------
Step(p) == \/ FindTables(p) \/ CreateTables(p) \/ CommitTables(p)
           \/ CreateUser(p) \/ Grant(p) \/ Limit(p)
           \/ FindVault(p) \/ CreateTable(p) \/ InsertVault(p) \/ Commit(p)

Next == \E p \in Procs : Call(p) \/ Step(p) \/ Dies(p)

(* A process that need not wait goes on; none has to be called.            *)
Fairness == \A p \in Procs : WF_vars(Step(p))

Spec == Init /\ [][Next]_vars
FairSpec == Spec /\ Fairness

-----------------------------------------------------------------------------
(* The queries of the service.                                             *)

(* accessible: the column user_vaults.vault is compared with the name in   *)
(* the request; a name is no id.                                           *)
Accessible(u, name) == \E g \in grants : g.user \in IdsOfUser(u) /\ g.vault = name

(* The rows user_limit may take for its configuration: the vaults are      *)
(* joined by v.id = uv.id.                                                 *)
ConfigsOf(u, name) == {k \in configs : \E g \in grants, w \in vaults :
                           /\ g.id = k.grant /\ g.user \in IdsOfUser(u)
                           /\ w.id = g.id /\ w.vault = name}

-----------------------------------------------------------------------------
(* The type invariant.                                                     *)
Tables == [users   : SUBSET [id : Nat, user : Users],
           vaults  : SUBSET [id : Nat, vault : Vaults],
           tables  : SUBSET Vaults,
           grants  : SUBSET [id : Nat, user : Nat, vault : Nat],
           configs : SUBSET [id : Nat, grant : Nat]]

Committed == [users |-> users, vaults |-> vaults, tables |-> tables,
              grants |-> grants, configs |-> configs]

TypeOK == /\ schema \in BOOLEAN
          /\ Committed \in Tables /\ new \in [Procs -> Tables]
          /\ serial \in [{"users", "vaults", "grants", "configs"} -> Nat \ {0}]
          /\ at \in [Procs -> Stage]
          /\ \A p \in Procs :
                /\ at[p] # "idle" => cmd[p] \in Commands /\ todo[p] \subseteq cmd[p].does
                /\ at[p] = "idle" => cmd[p] = NoCommand /\ todo[p] = {}
                /\ new[p] # Nothing => at[p] \in {"insert vault", "commit"}
          /\ count \in 0..MaxCommands
          /\ history \subseteq [cmd : Commands, status : {"ok", "failed"}]

(* A vault's table and its entry come together, once, whoever else creates *)
(* it at the same time and wherever a command is killed; the same holds    *)
(* for the entry of a user.                                                *)
VaultsAreWhole == /\ tables = {w.vault : w \in vaults}
                  /\ \A v \in Vaults : Cardinality(IdsOfVault(v)) <= 1
                  /\ \A u \in Users : Cardinality(IdsOfUser(u)) <= 1

(* A grant is there once, for a user and a vault that are there and that   *)
(* somebody named together on a command line; a limit hangs on a grant.    *)
GrantsWereAsked ==
    /\ \A g \in grants :
          /\ \A h \in grants : SamePair(g, h) => g = h
          /\ \E c \in {h.cmd : h \in history} \cup {cmd[p] : p \in {q \in Procs : at[q] # "idle"}} :
                /\ "grant" \in c.does
                /\ g.user \in IdsOfUser(c.user) /\ g.vault \in IdsOfVault(c.vault)
    /\ \A k \in configs : \E g \in grants : g.id = k.grant

(* Commands that wait for each other's transactions all come to their end. *)
EveryCommandEnds == \A p \in Procs : at[p] # "idle" ~> at[p] = "idle"

(* options.hh:56, "Grant vault permissions": what was granted the service  *)
(* lets the user do.                                                       *)
GrantedIsAccessible == \A g \in grants, u \in Users, v \in Vaults :
    g.user \in IdsOfUser(u) /\ g.vault \in IdsOfVault(v) => Accessible(u, v)

(* options.hh:57, "Enable rate Limit": a limit for a user and a vault is   *)
(* found when this user charges this vault, and nowhere else.              *)
LimitApplies == \A u \in Users, v \in Vaults :
    ConfigsOf(u, v) = {k \in configs : \E g \in grants :
                           g.id = k.grant /\ g.user \in IdsOfUser(u) /\ g.vault \in IdsOfVault(v)}
=============================================================================
