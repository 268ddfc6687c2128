---------------------------- MODULE AuthDBProofs ----------------------------
(***************************************************************************)
(* Commands on the database of users, vaults and grants, for any number of *)
(* processes and commands.  The invariant relates what a process has       *)
(* written and not committed to what is committed and to what the others   *)
(* have written: neither may hold the same name, table or grant, which is  *)
(* what the UNIQUE constraints and their waiting are for.                  *)
(***************************************************************************)
EXTENDS AuthDB, FiniteSetTheorems, TLAPS

(* Variables are functions of the processes, and pending rows a record.    *)
Shape == /\ at \in [Procs -> Stage]
         /\ cmd = [p \in Procs |-> cmd[p]]
         /\ todo = [p \in Procs |-> todo[p]]
         /\ new = [p \in Procs |-> new[p]]
         /\ \A p \in Procs : new[p] = [users |-> new[p].users, vaults |-> new[p].vaults,
                                       tables |-> new[p].tables, grants |-> new[p].grants,
                                       configs |-> new[p].configs]

(* What is committed: names and pairs once, a table for each vault.        *)
Whole == /\ \A r, s \in users : r.user = s.user => r = s
         /\ \A r, s \in vaults : r.vault = s.vault => r = s
         /\ \A g, h \in grants : SamePair(g, h) => g = h
         /\ tables = {w.vault : w \in vaults}

Asks == {h.cmd : h \in history} \cup {cmd[q] : q \in {p \in Procs : at[p] # "idle"}}

AsksFor(c, g) == /\ "grant" \in c.does
                 /\ g.user \in IdsOfUser(c.user) /\ g.vault \in IdsOfVault(c.vault)

Asked == /\ \A g \in grants : \E c \in Asks : AsksFor(c, g)
         /\ \A k \in configs : \E g \in grants : g.id = k.grant

Place(p) == /\ at[p] # "idle" => todo[p] \subseteq cmd[p].does
            /\ at[p] \notin {"insert vault", "commit"} => new[p] = Nothing
            /\ at[p] = "insert vault" => new[p] = [Nothing EXCEPT !.tables = {cmd[p].vault}]

(* What a process is about to commit is whole and was asked for.           *)
Writes(p) == /\ \A r, s \in new[p].users : r = s
             /\ \A r, s \in new[p].vaults : r = s
             /\ at[p] # "insert vault" => new[p].tables = {r.vault : r \in new[p].vaults}
             /\ \A g, h \in new[p].grants : SamePair(g, h) => g = h
             /\ \A g \in new[p].grants : AsksFor(cmd[p], g)
             /\ \A k \in new[p].configs : \E g \in grants : g.id = k.grant

(* Two sets of rows have nothing in common that has to be unique.          *)
Clear(n, m) == /\ \A r \in n.users, s \in m.users : r.user # s.user
               /\ n.tables \cap m.tables = {}
               /\ \A g \in n.grants, h \in m.grants : ~SamePair(g, h)

Own(p) == /\ Place(p) /\ Writes(p) /\ Clear(new[p], Committed)
          /\ \A q \in Procs \ {p} : Clear(new[p], new[q])

Inv == Shape /\ Whole /\ Asked /\ \A p \in Procs : Own(p)

-----------------------------------------------------------------------------
(* No rows are clear of all others, and who comes first does not matter.   *)
LEMMA ClearFacts ==
    /\ \A m : Clear(Nothing, m) /\ Clear(m, Nothing)
    /\ \A n, m : Clear(n, m) => Clear(m, n)
  BY DEF Clear, Nothing, SamePair

(* Nothing was asked for at first.                                         *)
LEMMA InitInv == Init => Inv
<1> SUFFICES ASSUME Init PROVE Inv
  OBVIOUS
<1>1. Shape
  BY DEF Init, Shape, Stage, Nothing
<1>2. Whole /\ Asked
  BY DEF Init, Whole, Asked
<1>3. ASSUME NEW p \in Procs PROVE Own(p)
  <2>1. /\ at[p] = "idle"
        /\ \A q \in Procs : new[q] = Nothing
    BY DEF Init
  <2>2. Place(p) /\ Writes(p)
    BY <2>1 DEF Place, Writes, Nothing
  <2>3. QED
    BY <2>1, <2>2, ClearFacts DEF Own
<1>4. QED
  BY <1>1, <1>2, <1>3 DEF Inv

(* A command that is no longer running is remembered.                      *)
LEMMA AsksStay ==
    ASSUME Inv, NEW p \in Procs,
           \A q \in Procs \ {p} : at'[q] = at[q] /\ cmd'[q] = cmd[q],
           \/ at'[p] # "idle" /\ cmd'[p] = cmd[p] /\ history' = history
           \/ at[p] = "idle" /\ history' = history
           \/ \E status \in {"ok", "failed"} : history' = history \cup {[cmd |-> cmd[p], status |-> status]}
    PROVE  Asks \subseteq Asks'
<1>1. SUFFICES ASSUME NEW c \in Asks PROVE c \in Asks'
  OBVIOUS
<1>2. history \subseteq history'
  OBVIOUS
<1>3. CASE \E h \in history : c = h.cmd
  BY <1>2, <1>3 DEF Asks
<1>4. CASE \E q \in Procs : at[q] # "idle" /\ c = cmd[q]
  <2>1. PICK q \in Procs : at[q] # "idle" /\ c = cmd[q]
    BY <1>4
  <2>2. CASE q # p \/ (at'[p] # "idle" /\ cmd'[p] = cmd[p])
    BY <2>1, <2>2 DEF Asks
  <2>3. CASE q = p /\ \E status \in {"ok", "failed"} :
                        history' = history \cup {[cmd |-> cmd[p], status |-> status]}
    <3>1. PICK status \in {"ok", "failed"} :
             history' = history \cup {[cmd |-> cmd[p], status |-> status]}
      BY <2>3
    <3>2. [cmd |-> cmd[p], status |-> status] \in history' /\ c = cmd[p]
      BY <2>1, <2>3, <3>1
    <3>3. [cmd |-> cmd[p], status |-> status].cmd = c
      BY <3>2
    <3>4. QED
      BY <3>2, <3>3 DEF Asks
  <2>4. QED
    BY <2>1, <2>2, <2>3
<1>5. QED
  BY <1>3, <1>4 DEF Asks

(* More that is committed takes nothing from what was asked for.           *)
LEMMA AsksForStays ==
    ASSUME users \subseteq users', vaults \subseteq vaults', NEW c, NEW g, AsksFor(c, g)
    PROVE  AsksFor(c, g)'
  BY DEF AsksFor, IdsOfUser, IdsOfVault

(* One process moves; what the others have written stays as it is.         *)
LEMMA OneKeepsInv ==
    ASSUME Inv, NEW p \in Procs, NEW l \in Stage, NEW c, NEW t, NEW n,
           at' = [at EXCEPT ![p] = l], cmd' = [cmd EXCEPT ![p] = c],
           todo' = [todo EXCEPT ![p] = t], new' = [new EXCEPT ![p] = n],
           n = [users |-> n.users, vaults |-> n.vaults, tables |-> n.tables,
                grants |-> n.grants, configs |-> n.configs],
           users \subseteq users', vaults \subseteq vaults', grants \subseteq grants',
           Whole', Asked', Place(p)', Writes(p)',
           Clear(n, Committed'),
           \A q \in Procs \ {p} : Clear(n, new[q]) /\ Clear(new[q], Committed')
    PROVE  Inv'
<1>1. /\ at'[p] = l /\ cmd'[p] = c /\ todo'[p] = t /\ new'[p] = n
      /\ \A q \in Procs \ {p} : at'[q] = at[q] /\ cmd'[q] = cmd[q] /\ todo'[q] = todo[q] /\ new'[q] = new[q]
  BY DEF Inv, Shape
<1>2. Shape'
  <2>1. /\ at' \in [Procs -> Stage] /\ cmd' = [q \in Procs |-> cmd'[q]]
        /\ todo' = [q \in Procs |-> todo'[q]] /\ new' = [q \in Procs |-> new'[q]]
    BY DEF Inv, Shape
  <2>2. ASSUME NEW q \in Procs
        PROVE  new'[q] = [users |-> new'[q].users, vaults |-> new'[q].vaults,
                          tables |-> new'[q].tables, grants |-> new'[q].grants,
                          configs |-> new'[q].configs]
    <3>1. CASE q = p
      BY <1>1, <3>1
    <3>2. CASE q # p
      BY <1>1, <3>2 DEF Inv, Shape
    <3>3. QED
      BY <3>1, <3>2
  <2>3. QED
    BY <2>1, <2>2 DEF Shape
<1>3. ASSUME NEW q \in Procs, q # p PROVE Own(q)'
  <2>1. at'[q] = at[q] /\ cmd'[q] = cmd[q] /\ todo'[q] = todo[q] /\ new'[q] = new[q] /\ Own(q)
    BY <1>1, <1>3 DEF Inv
  <2>2. Place(q)'
    BY <2>1 DEF Own, Place
  <2>3. Writes(q)'
    <3>1. ASSUME NEW g \in new'[q].grants PROVE AsksFor(cmd[q], g)'
      <4>1. AsksFor(cmd[q], g)
        BY <2>1, <3>1 DEF Own, Writes
      <4>2. QED
        BY <2>1, <4>1 DEF AsksFor, IdsOfUser, IdsOfVault
    <3>2. \A k \in new'[q].configs : \E g \in grants' : g.id = k.grant
      BY <2>1 DEF Own, Writes
    <3>3. /\ \A r, s \in new'[q].users : r = s
          /\ \A r, s \in new'[q].vaults : r = s
          /\ at'[q] # "insert vault" => new'[q].tables = {r.vault : r \in new'[q].vaults}
          /\ \A g, h \in new'[q].grants : SamePair(g, h) => g = h
      BY <2>1 DEF Own, Writes
    <3>4. QED
      BY <3>1, <3>2, <3>3 DEF Writes, SamePair
  <2>4. \A z \in Procs \ {q} : Clear(new'[q], new'[z])
    <3>1. TAKE z \in Procs \ {q}
    <3>2. CASE z = p
      BY <1>1, <1>3, <2>1, <3>2, ClearFacts
    <3>3. CASE z # p
      BY <1>1, <2>1, <3>3 DEF Own
    <3>4. QED
      BY <3>2, <3>3
  <2>5. Clear(new'[q], Committed')
    BY <1>3, <2>1
  <2>6. QED
    BY <2>2, <2>3, <2>4, <2>5 DEF Own, Clear, SamePair
<1>4. Own(p)'
  <2>1. \A q \in Procs \ {p} : Clear(new'[p], new'[q])
    BY <1>1
  <2>2. Clear(new'[p], Committed')
    BY <1>1
  <2>3. QED
    BY <2>1, <2>2 DEF Own, Clear, SamePair
<1>5. QED
  BY <1>2, <1>3, <1>4 DEF Inv

(* Nothing is committed in the step.                                       *)
LEMMA LocalKeepsInv ==
    ASSUME Inv, NEW p \in Procs, NEW l \in Stage, NEW c, NEW t, NEW n,
           at' = [at EXCEPT ![p] = l], cmd' = [cmd EXCEPT ![p] = c],
           todo' = [todo EXCEPT ![p] = t], new' = [new EXCEPT ![p] = n],
           n = [users |-> n.users, vaults |-> n.vaults, tables |-> n.tables,
                grants |-> n.grants, configs |-> n.configs],
           UNCHANGED data, Asks \subseteq Asks',
           Place(p)', Writes(p)', Clear(n, Committed),
           \A q \in Procs \ {p} : Clear(n, new[q])
    PROVE  Inv'
<1>1. UNCHANGED <<users, vaults, tables, grants, configs>> /\ Committed' = Committed
  BY DEF data, Committed
<1>2. Whole'
  BY <1>1 DEF Inv, Whole, SamePair
<1>3. Asked'
  <2>1. ASSUME NEW g \in grants' PROVE \E d \in Asks' : AsksFor(d, g)'
    <3>1. PICK d \in Asks : AsksFor(d, g)
      BY <1>1, <2>1 DEF Inv, Asked
    <3>2. d \in Asks' /\ AsksFor(d, g)'
      BY <1>1, <3>1 DEF AsksFor, IdsOfUser, IdsOfVault
    <3>3. QED
      BY <3>2
  <2>2. \A k \in configs' : \E g \in grants' : g.id = k.grant
    BY <1>1 DEF Inv, Asked
  <2>3. QED
    BY <2>1, <2>2 DEF Asked
<1>4. Clear(n, Committed') /\ \A q \in Procs \ {p} : Clear(new[q], Committed')
  BY <1>1 DEF Inv, Own
<1>5. QED
  BY <1>1, <1>2, <1>3, <1>4, OneKeepsInv

(* A process that has written nothing goes on, or exits.                   *)
LEMMA IdleKeepsInv ==
    ASSUME Inv, NEW p \in Procs, NEW l \in Stage \ {"insert vault", "commit"}, NEW c, NEW t,
           at' = [at EXCEPT ![p] = l], cmd' = [cmd EXCEPT ![p] = c],
           todo' = [todo EXCEPT ![p] = t], new' = [new EXCEPT ![p] = Nothing],
           UNCHANGED data, Asks \subseteq Asks', l # "idle" => t \subseteq c.does
    PROVE  Inv'
<1>1. at'[p] = l /\ cmd'[p] = c /\ todo'[p] = t /\ new'[p] = Nothing
  BY DEF Inv, Shape
<1>2. Place(p)' /\ Writes(p)'
  <2>1. Place(p)'
    BY <1>1 DEF Place
  <2>2. /\ new'[p].users = {} /\ new'[p].vaults = {} /\ new'[p].tables = {}
        /\ new'[p].grants = {} /\ new'[p].configs = {}
    <3>1. /\ Nothing.users = {} /\ Nothing.vaults = {} /\ Nothing.tables = {}
          /\ Nothing.grants = {} /\ Nothing.configs = {}
      BY DEF Nothing
    <3>2. QED
      BY <1>1, <3>1
  <2>3. Writes(p)'
    BY <2>2 DEF Writes
  <2>4. QED
    BY <2>1, <2>3
<1>3. Nothing = [users |-> Nothing.users, vaults |-> Nothing.vaults, tables |-> Nothing.tables,
                 grants |-> Nothing.grants, configs |-> Nothing.configs]
  BY DEF Nothing
<1>4. QED
  BY <1>2, <1>3, ClearFacts, LocalKeepsInv

(* A command is called.                                                    *)
LEMMA CallKeepsInv ==
    ASSUME Inv, NEW p \in Procs, Call(p)
    PROVE  Inv'
<1>1. PICK c \in Commands : cmd' = [cmd EXCEPT ![p] = c] /\ todo' = [todo EXCEPT ![p] = c.does]
  BY DEF Call
<1>2. /\ at[p] = "idle" /\ at' = [at EXCEPT ![p] = "init"]
      /\ UNCHANGED data /\ new' = new /\ history' = history
  BY DEF Call, Goto, data
<1>3. new' = [new EXCEPT ![p] = Nothing]
  BY <1>2 DEF Inv, Shape, Own, Place
<1>4. \A q \in Procs \ {p} : at'[q] = at[q] /\ cmd'[q] = cmd[q]
  BY <1>1, <1>2 DEF Inv, Shape
<1>5. Asks \subseteq Asks'
  BY <1>2, <1>4, AsksStay
<1>6. QED
  BY <1>1, <1>2, <1>3, <1>5, IdleKeepsInv DEF Stage

(* A process exits; with what it has not committed it is gone.             *)
LEMMA ExitFacts ==
    ASSUME Inv, NEW p \in Procs, NEW status \in {"ok", "failed"}, Exit(p, status)
    PROVE  /\ at' = [at EXCEPT ![p] = "idle"] /\ cmd' = [cmd EXCEPT ![p] = NoCommand]
           /\ todo' = [todo EXCEPT ![p] = {}] /\ new' = [new EXCEPT ![p] = Nothing]
           /\ Asks \subseteq Asks'
<1>1. /\ at' = [at EXCEPT ![p] = "idle"] /\ cmd' = [cmd EXCEPT ![p] = NoCommand]
      /\ todo' = [todo EXCEPT ![p] = {}] /\ new' = [new EXCEPT ![p] = Nothing]
      /\ history' = history \cup {[cmd |-> cmd[p], status |-> status]}
  BY DEF Exit, Goto
<1>2. \A q \in Procs \ {p} : at'[q] = at[q] /\ cmd'[q] = cmd[q]
  BY <1>1 DEF Inv, Shape
<1>3. QED
  BY <1>1, <1>2, AsksStay

(* A command fails, wherever it is.                                        *)
LEMMA FailKeepsInv ==
    ASSUME Inv, NEW p \in Procs, Fails(p)
    PROVE  Inv'
<1>1. Exit(p, "failed") /\ UNCHANGED data
  BY DEF Fails
<1>2. /\ at' = [at EXCEPT ![p] = "idle"] /\ cmd' = [cmd EXCEPT ![p] = NoCommand]
      /\ todo' = [todo EXCEPT ![p] = {}] /\ new' = [new EXCEPT ![p] = Nothing]
      /\ Asks \subseteq Asks'
  BY <1>1, ExitFacts
<1>3. {} \subseteq NoCommand.does /\ "idle" \in Stage \ {"insert vault", "commit"}
  BY DEF Stage
<1>4. QED
  BY <1>1, <1>2, <1>3, IdleKeepsInv

(* Looking for tables and names, creating the tables.                      *)
LEMMA LookKeepsInv ==
    ASSUME Inv, NEW p \in Procs, NEW l \in {"run", "create tables", "commit tables", "create table"},
           at[p] \in {"init", "create tables", "commit tables", "run"},
           at' = [at EXCEPT ![p] = l], UNCHANGED <<data, cmd, todo, new, history>>
    PROVE  Inv'
<1>1. /\ new' = [new EXCEPT ![p] = Nothing] /\ cmd' = [cmd EXCEPT ![p] = cmd[p]]
      /\ todo' = [todo EXCEPT ![p] = todo[p]] /\ todo[p] \subseteq cmd[p].does
  BY DEF Inv, Shape, Own, Place
<1>2. /\ at'[p] # "idle" /\ cmd'[p] = cmd[p] /\ history' = history
      /\ \A q \in Procs \ {p} : at'[q] = at[q] /\ cmd'[q] = cmd[q]
  BY DEF Inv, Shape
<1>3. Asks \subseteq Asks'
  BY <1>2, AsksStay
<1>4. QED
  BY <1>1, <1>3, IdleKeepsInv DEF Stage

-----------------------------------------------------------------------------
(* A process writes rows, before it commits them.                          *)
LEMMA WriteKeepsInv ==
    ASSUME Inv, NEW p \in Procs, NEW l \in {"insert vault", "commit"}, NEW t, NEW n,
           at[p] # "idle", t \subseteq todo[p],
           at' = [at EXCEPT ![p] = l], cmd' = cmd,
           todo' = [todo EXCEPT ![p] = t], new' = [new EXCEPT ![p] = n],
           n = [users |-> n.users, vaults |-> n.vaults, tables |-> n.tables,
                grants |-> n.grants, configs |-> n.configs],
           UNCHANGED <<data, history>>,
           l = "insert vault" => n = [Nothing EXCEPT !.tables = {cmd[p].vault}],
           \A r, s \in n.users : r = s,
           \A r, s \in n.vaults : r = s,
           l = "commit" => n.tables = {r.vault : r \in n.vaults},
           \A g, h \in n.grants : SamePair(g, h) => g = h,
           \A g \in n.grants : AsksFor(cmd[p], g),
           \A k \in n.configs : \E g \in grants : g.id = k.grant,
           Clear(n, Committed), \A q \in Procs \ {p} : Clear(n, new[q])
    PROVE  Inv'
<1>1. /\ at'[p] = l /\ cmd'[p] = cmd[p] /\ todo'[p] = t /\ new'[p] = n
      /\ cmd' = [cmd EXCEPT ![p] = cmd[p]] /\ todo[p] \subseteq cmd[p].does
      /\ \A q \in Procs \ {p} : at'[q] = at[q] /\ cmd'[q] = cmd[q]
  BY DEF Inv, Shape, Own, Place
<1>2. Asks \subseteq Asks'
  BY <1>1, AsksStay
<1>3. Place(p)'
  BY <1>1 DEF Place
<1>4. Writes(p)'
  <2>1. ASSUME NEW g \in new'[p].grants PROVE AsksFor(cmd[p], g)'
    <3>1. AsksFor(cmd[p], g)
      BY <1>1, <2>1
    <3>2. users \subseteq users' /\ vaults \subseteq vaults'
      BY DEF data
    <3>3. cmd'[p] = cmd[p] /\ "grant" \in cmd[p].does
      BY <1>1, <3>1 DEF AsksFor
    <3>4. g.user \in IdsOfUser(cmd[p].user)' /\ g.vault \in IdsOfVault(cmd[p].vault)'
      BY <3>1, <3>2, <3>3 DEF AsksFor, IdsOfUser, IdsOfVault
    <3>5. QED
      BY <3>3, <3>4 DEF AsksFor
  <2>2. \A k \in new'[p].configs : \E g \in grants' : g.id = k.grant
    BY <1>1 DEF data
  <2>3. /\ \A r, s \in new'[p].users : r = s
        /\ \A r, s \in new'[p].vaults : r = s
        /\ at'[p] # "insert vault" => new'[p].tables = {r.vault : r \in new'[p].vaults}
        /\ \A g, h \in new'[p].grants : SamePair(g, h) => g = h
    BY <1>1
  <2>4. QED
    BY <2>1, <2>2, <2>3 DEF Writes, SamePair
<1>5. QED
  BY <1>1, <1>2, <1>3, <1>4, LocalKeepsInv DEF Stage

(* A row of one table, by a process that had written none.                 *)
LEMMA InsertFacts ==
    ASSUME Inv, NEW p \in Procs, at[p] = "run", NEW what,
           NEW table \in {"users", "grants", "configs"}, NEW rows,
           Inserted(p, what, table, rows)
    PROVE  /\ at' = [at EXCEPT ![p] = "commit"] /\ cmd' = cmd
           /\ todo' = [todo EXCEPT ![p] = todo[p] \ {what}]
           /\ new' = [new EXCEPT ![p] = [Nothing EXCEPT ![table] = rows]]
           /\ UNCHANGED <<data, history>>
<1>1. new[p] = Nothing
  BY DEF Inv, Own, Place
<1>2. new' = [new EXCEPT ![p] = [new[p] EXCEPT ![table] = rows]]
  BY DEF Inserted
<1>3. QED
  BY <1>1, <1>2 DEF Inserted, Goto

(* create_user.                                                            *)
LEMMA CreateUserKeepsInv ==
    ASSUME Inv, NEW p \in Procs, CreateUser(p)
    PROVE  Inv'
<1> DEFINE u == cmd[p].user
           row == [id |-> serial["users"], user |-> u]
           n == [Nothing EXCEPT !["users"] = {row}]
<1>1. CASE Fails(p)
  BY <1>1, FailKeepsInv
<1>2. CASE ~Fails(p)
  <2>1. /\ at[p] = "run" /\ IdsOfUser(u) = {}
        /\ \A r \in Pending(p, "users") : r.user # u
        /\ Inserted(p, "create-user", "users", {row})
    BY <1>2 DEF CreateUser, Runs, Refused
  <2>2. /\ at' = [at EXCEPT ![p] = "commit"] /\ cmd' = cmd
        /\ todo' = [todo EXCEPT ![p] = todo[p] \ {"create-user"}]
        /\ new' = [new EXCEPT ![p] = n] /\ UNCHANGED <<data, history>>
    BY <2>1, InsertFacts
  <2>3. n.users = {row} /\ n.vaults = {} /\ n.tables = {} /\ n.grants = {} /\ n.configs = {}
    BY DEF Nothing
  <2>4. n = [users |-> n.users, vaults |-> n.vaults, tables |-> n.tables,
             grants |-> n.grants, configs |-> n.configs]
    BY DEF Nothing
  <2>5. row.user = u /\ \A s \in users : s.user # u
    BY <2>1 DEF IdsOfUser
  <2>6. \A q \in Procs \ {p} : \A s \in new[q].users : s.user # u
    BY <2>1 DEF Pending
  <2> HIDE DEF n, row
  <2>7. Clear(n, Committed) /\ \A q \in Procs \ {p} : Clear(n, new[q])
    BY <2>3, <2>5, <2>6 DEF Clear, Committed
  <2>8. /\ \A r, s \in n.users : r = s
        /\ \A r, s \in n.vaults : r = s
        /\ n.tables = {r.vault : r \in n.vaults}
        /\ \A g, h \in n.grants : SamePair(g, h) => g = h
        /\ \A g \in n.grants : AsksFor(cmd[p], g)
        /\ \A k \in n.configs : \E g \in grants : g.id = k.grant
    BY <2>3
  <2>9. at[p] # "idle" /\ todo[p] \ {"create-user"} \subseteq todo[p]
    BY <2>1
  <2>10. QED
    BY <2>2, <2>4, <2>7, <2>8, <2>9, WriteKeepsInv
<1>3. QED
  BY <1>1, <1>2

(* grant_user.                                                             *)
LEMMA GrantKeepsInv ==
    ASSUME Inv, NEW p \in Procs, Grant(p)
    PROVE  Inv'
<1> DEFINE rows == GrantRows(cmd[p].user, cmd[p].vault)
           n == [Nothing EXCEPT !["grants"] = rows]
<1>1. CASE Fails(p)
  BY <1>1, FailKeepsInv
<1>2. CASE ~Fails(p)
  <2>1. /\ at[p] = "run" /\ "grant" \in todo[p]
        /\ \A r \in rows, s \in grants : ~SamePair(r, s)
        /\ \A r \in rows, s \in Pending(p, "grants") : ~SamePair(r, s)
        /\ Inserted(p, "grant", "grants", rows)
    BY <1>2 DEF Grant, Runs, Refused
  <2>2. /\ at' = [at EXCEPT ![p] = "commit"] /\ cmd' = cmd
        /\ todo' = [todo EXCEPT ![p] = todo[p] \ {"grant"}]
        /\ new' = [new EXCEPT ![p] = n] /\ UNCHANGED <<data, history>>
    BY <2>1, InsertFacts
  <2>3. n.users = {} /\ n.vaults = {} /\ n.tables = {} /\ n.grants = rows /\ n.configs = {}
    BY DEF Nothing
  <2>4. n = [users |-> n.users, vaults |-> n.vaults, tables |-> n.tables,
             grants |-> n.grants, configs |-> n.configs]
    BY DEF Nothing
  <2>5. \A g, h \in rows : SamePair(g, h) => g = h
    BY DEF GrantRows, SamePair
  <2>6. \A g \in rows : AsksFor(cmd[p], g)
    <3>1. todo[p] \subseteq cmd[p].does
      BY <2>1 DEF Inv, Own, Place
    <3>2. \A g \in rows : g.user \in IdsOfUser(cmd[p].user) /\ g.vault \in IdsOfVault(cmd[p].vault)
      BY DEF GrantRows
    <3>3. QED
      BY <2>1, <3>1, <3>2 DEF AsksFor
  <2>7. \A q \in Procs \ {p} : \A g \in rows, h \in new[q].grants : ~SamePair(g, h)
    BY <2>1 DEF Pending
  <2> HIDE DEF n, rows
  <2>8. Clear(n, Committed) /\ \A q \in Procs \ {p} : Clear(n, new[q])
    BY <2>1, <2>3, <2>7 DEF Clear, Committed
  <2>9. /\ \A r, s \in n.users : r = s
        /\ \A r, s \in n.vaults : r = s
        /\ n.tables = {r.vault : r \in n.vaults}
        /\ \A g, h \in n.grants : SamePair(g, h) => g = h
        /\ \A g \in n.grants : AsksFor(cmd[p], g)
        /\ \A k \in n.configs : \E g \in grants : g.id = k.grant
    BY <2>3, <2>5, <2>6
  <2>10. at[p] # "idle" /\ todo[p] \ {"grant"} \subseteq todo[p]
    BY <2>1
  <2>11. QED
    BY <2>2, <2>4, <2>8, <2>9, <2>10, WriteKeepsInv
<1>3. QED
  BY <1>1, <1>2

(* limit_user.                                                             *)
LEMMA LimitKeepsInv ==
    ASSUME Inv, NEW p \in Procs, Limit(p)
    PROVE  Inv'
<1> DEFINE rows == LimitRows(cmd[p].user, cmd[p].vault)
           n == [Nothing EXCEPT !["configs"] = rows]
<1>1. at[p] = "run" /\ Inserted(p, "limit", "configs", rows)
  BY DEF Limit, Runs
<1>2. /\ at' = [at EXCEPT ![p] = "commit"] /\ cmd' = cmd
      /\ todo' = [todo EXCEPT ![p] = todo[p] \ {"limit"}]
      /\ new' = [new EXCEPT ![p] = n] /\ UNCHANGED <<data, history>>
  BY <1>1, InsertFacts
<1>3. n.users = {} /\ n.vaults = {} /\ n.tables = {} /\ n.grants = {} /\ n.configs = rows
  BY DEF Nothing
<1>4. n = [users |-> n.users, vaults |-> n.vaults, tables |-> n.tables,
           grants |-> n.grants, configs |-> n.configs]
  BY DEF Nothing
<1>5. \A k \in rows : \E g \in grants : g.id = k.grant
  BY DEF LimitRows
<1> HIDE DEF n, rows
<1>6. Clear(n, Committed) /\ \A q \in Procs \ {p} : Clear(n, new[q])
  BY <1>3 DEF Clear
<1>7. /\ \A r, s \in n.users : r = s
      /\ \A r, s \in n.vaults : r = s
      /\ n.tables = {r.vault : r \in n.vaults}
      /\ \A g, h \in n.grants : SamePair(g, h) => g = h
      /\ \A g \in n.grants : AsksFor(cmd[p], g)
      /\ \A k \in n.configs : \E g \in grants : g.id = k.grant
  BY <1>3, <1>5
<1>8. at[p] # "idle" /\ todo[p] \ {"limit"} \subseteq todo[p]
  BY <1>1
<1>9. QED
  BY <1>2, <1>4, <1>6, <1>7, <1>8, WriteKeepsInv

(* createVault: the table, in the transaction of its entry.                *)
LEMMA CreateTableKeepsInv ==
    ASSUME Inv, NEW p \in Procs, CreateTable(p)
    PROVE  Inv'
<1> DEFINE v == cmd[p].vault
           n == [Nothing EXCEPT !.tables = {v}]
<1>1. CASE Fails(p)
  BY <1>1, FailKeepsInv
<1>2. CASE ~Fails(p)
  <2>1. /\ at[p] = "create table" /\ v \notin tables /\ v \notin Pending(p, "tables")
        /\ new' = [new EXCEPT ![p].tables = {v}] /\ at' = [at EXCEPT ![p] = "insert vault"]
        /\ cmd' = cmd /\ todo' = todo /\ UNCHANGED <<data, history>>
    BY <1>2 DEF CreateTable, Goto
  <2>2. new[p] = Nothing
    BY <2>1 DEF Inv, Own, Place
  <2>3. new' = [new EXCEPT ![p] = n] /\ todo' = [todo EXCEPT ![p] = todo[p]]
    BY <2>1, <2>2 DEF Inv, Shape
  <2>4. n.users = {} /\ n.vaults = {} /\ n.tables = {v} /\ n.grants = {} /\ n.configs = {}
    BY DEF Nothing
  <2>5. n = [users |-> n.users, vaults |-> n.vaults, tables |-> n.tables,
             grants |-> n.grants, configs |-> n.configs]
    BY DEF Nothing
  <2>6. \A q \in Procs \ {p} : v \notin new[q].tables
    BY <2>1 DEF Pending
  <2>7. n = [Nothing EXCEPT !.tables = {cmd[p].vault}]
    OBVIOUS
  <2> HIDE DEF n
  <2>8. Clear(n, Committed) /\ \A q \in Procs \ {p} : Clear(n, new[q])
    BY <2>1, <2>4, <2>6 DEF Clear, Committed
  <2>9. /\ \A r, s \in n.users : r = s
        /\ \A r, s \in n.vaults : r = s
        /\ \A g, h \in n.grants : SamePair(g, h) => g = h
        /\ \A g \in n.grants : AsksFor(cmd[p], g)
        /\ \A k \in n.configs : \E g \in grants : g.id = k.grant
    BY <2>4
  <2>10. /\ at[p] # "idle" /\ todo[p] \subseteq todo[p] /\ at' = [at EXCEPT ![p] = "insert vault"]
         /\ cmd' = cmd /\ UNCHANGED <<data, history>>
    BY <2>1
  <2>11. "insert vault" = "commit" => n.tables = {r.vault : r \in n.vaults}
    OBVIOUS
  <2>12. "insert vault" = "insert vault" => n = [Nothing EXCEPT !.tables = {cmd[p].vault}]
    BY <2>7
  <2>13. QED
    BY <2>3, <2>5, <2>8, <2>9, <2>10, <2>11, <2>12, WriteKeepsInv
<1>3. QED
  BY <1>1, <1>2

(* And the entry.                                                          *)
LEMMA InsertVaultKeepsInv ==
    ASSUME Inv, NEW p \in Procs, InsertVault(p)
    PROVE  Inv'
<1> DEFINE v == cmd[p].vault
           row == [id |-> serial["vaults"], vault |-> v]
           n == [new[p] EXCEPT !["vaults"] = {row}]
<1>1. CASE Fails(p)
  BY <1>1, FailKeepsInv
<1>2. CASE ~Fails(p)
  <2>1. at[p] = "insert vault" /\ Inserted(p, "create-vault", "vaults", {row})
    BY <1>2 DEF InsertVault, Refused
  <2>2. new[p] = [Nothing EXCEPT !.tables = {v}]
    BY <2>1 DEF Inv, Own, Place
  <2>3. /\ at' = [at EXCEPT ![p] = "commit"] /\ cmd' = cmd
        /\ todo' = [todo EXCEPT ![p] = todo[p] \ {"create-vault"}]
        /\ new' = [new EXCEPT ![p] = n] /\ UNCHANGED <<data, history>>
    BY <2>1 DEF Inserted, Goto
  <2>4. /\ n.users = {} /\ n.vaults = {row} /\ n.tables = {v} /\ n.grants = {} /\ n.configs = {}
        /\ new[p].tables = {v}
    BY <2>2 DEF Nothing
  <2>5. n = [users |-> n.users, vaults |-> n.vaults, tables |-> n.tables,
             grants |-> n.grants, configs |-> n.configs]
    <3> HIDE DEF row, v
    <3>0. new[p] = [users |-> {}, vaults |-> {}, tables |-> {v}, grants |-> {}, configs |-> {}]
      BY <2>2 DEF Nothing
    <3>1. n = [users |-> {}, vaults |-> {row}, tables |-> {v}, grants |-> {}, configs |-> {}]
      BY <3>0
    <3> HIDE DEF n, row
    <3>2. QED
      BY <2>4, <3>1
  <2>6. row.vault = v
    OBVIOUS
  <2> HIDE DEF n, row
  <2>7. Clear(n, Committed) /\ \A q \in Procs \ {p} : Clear(n, new[q])
    BY <2>4 DEF Clear, Inv, Own
  <2>8. /\ \A r, s \in n.users : r = s
        /\ \A r, s \in n.vaults : r = s
        /\ n.tables = {r.vault : r \in n.vaults}
        /\ \A g, h \in n.grants : SamePair(g, h) => g = h
        /\ \A g \in n.grants : AsksFor(cmd[p], g)
        /\ \A k \in n.configs : \E g \in grants : g.id = k.grant
    BY <2>4, <2>6
  <2>9. at[p] # "idle" /\ todo[p] \ {"create-vault"} \subseteq todo[p]
    BY <2>1
  <2>10. QED
    BY <2>3, <2>5, <2>7, <2>8, <2>9, WriteKeepsInv
<1>3. QED
  BY <1>1, <1>2

-----------------------------------------------------------------------------
(* What a commit adds is as whole as what was there, and was asked for.    *)
LEMMA CommitFacts ==
    ASSUME Inv, NEW p \in Procs, Commit(p), Asks \subseteq Asks'
    PROVE  /\ Whole' /\ Asked'
           /\ \A q \in Procs \ {p} : Clear(new[q], Committed')
<1> DEFINE n == new[p]
<1>1. /\ at[p] = "commit" /\ users' = users \cup n.users /\ vaults' = vaults \cup n.vaults
      /\ tables' = tables \cup n.tables /\ grants' = grants \cup n.grants
      /\ configs' = configs \cup n.configs
  BY DEF Commit
<1>2. /\ \A r, s \in n.users : r = s
      /\ \A r, s \in n.vaults : r = s
      /\ n.tables = {r.vault : r \in n.vaults}
      /\ \A g, h \in n.grants : SamePair(g, h) => g = h
      /\ \A g \in n.grants : AsksFor(cmd[p], g)
      /\ \A k \in n.configs : \E g \in grants : g.id = k.grant
  BY <1>1 DEF Inv, Own, Writes
<1>3. /\ \A r \in n.users, s \in users : r.user # s.user
      /\ n.tables \cap tables = {}
      /\ \A g \in n.grants, h \in grants : ~SamePair(g, h) /\ ~SamePair(h, g)
  BY DEF Inv, Own, Clear, Committed, SamePair
<1> HIDE DEF n
<1>4. Whole'
  <2>1. \A r, s \in users' : r.user = s.user => r = s
    BY <1>1, <1>2, <1>3 DEF Inv, Whole
  <2>2. tables' = {w.vault : w \in vaults'}
    BY <1>1, <1>2 DEF Inv, Whole
  <2>3. \A r, s \in vaults' : r.vault = s.vault => r = s
    <3>1. \A r \in n.vaults, s \in vaults : r.vault # s.vault
      BY <1>2, <1>3 DEF Inv, Whole
    <3>2. QED
      BY <1>1, <1>2, <3>1 DEF Inv, Whole
  <2>4. \A g, h \in grants' : SamePair(g, h) => g = h
    BY <1>1, <1>2, <1>3 DEF Inv, Whole
  <2>5. QED
    BY <2>1, <2>2, <2>3, <2>4 DEF Whole, SamePair
<1>5. Asked'
  <2>1. users \subseteq users' /\ vaults \subseteq vaults' /\ cmd[p] \in Asks
    BY <1>1 DEF Asks
  <2>2. ASSUME NEW g \in grants' PROVE \E c \in Asks' : AsksFor(c, g)'
    <3>1. PICK c \in Asks : AsksFor(c, g)
      BY <1>1, <1>2, <2>1 DEF Inv, Asked
    <3>2. c \in Asks' /\ AsksFor(c, g)'
      BY <2>1, <3>1, AsksForStays
    <3>3. QED
      BY <3>2
  <2>3. \A k \in configs' : \E g \in grants' : g.id = k.grant
    BY <1>1, <1>2 DEF Inv, Asked
  <2>4. QED
    BY <2>2, <2>3 DEF Asked
<1>6. ASSUME NEW q \in Procs \ {p} PROVE Clear(new[q], Committed')
  <2>1. Clear(new[q], Committed) /\ Clear(new[q], n)
    BY DEF Inv, Own, n
  <2>2. QED
    BY <1>1, <2>1 DEF Clear, Committed
<1>7. QED
  BY <1>4, <1>5, <1>6

(* A commit, where the process goes then and what it remembers.            *)
LEMMA CommittedKeepsInv ==
    ASSUME Inv, NEW p \in Procs, NEW l \in Stage \ {"insert vault", "commit"}, NEW c, NEW t,
           Commit(p), Asks \subseteq Asks', l # "idle" => t \subseteq c.does,
           at' = [at EXCEPT ![p] = l], cmd' = [cmd EXCEPT ![p] = c],
           todo' = [todo EXCEPT ![p] = t], new' = [new EXCEPT ![p] = Nothing]
    PROVE  Inv'
<1>1. at'[p] = l /\ cmd'[p] = c /\ todo'[p] = t /\ new'[p] = Nothing
  BY DEF Inv, Shape
<1>2. Place(p)'
  BY <1>1 DEF Place
<1>3. Writes(p)'
  <2>1. /\ Nothing.users = {} /\ Nothing.vaults = {} /\ Nothing.tables = {}
        /\ Nothing.grants = {} /\ Nothing.configs = {}
    BY DEF Nothing
  <2>2. /\ new'[p].users = {} /\ new'[p].vaults = {} /\ new'[p].tables = {}
        /\ new'[p].grants = {} /\ new'[p].configs = {}
    BY <1>1, <2>1
  <2>3. QED
    BY <2>2 DEF Writes
<1>4. Nothing = [users |-> Nothing.users, vaults |-> Nothing.vaults, tables |-> Nothing.tables,
                 grants |-> Nothing.grants, configs |-> Nothing.configs]
  BY DEF Nothing
<1>5. users \subseteq users' /\ vaults \subseteq vaults' /\ grants \subseteq grants'
  BY DEF Commit
<1>6. /\ Whole' /\ Asked'
      /\ \A q \in Procs \ {p} : Clear(new[q], Committed')
  BY CommitFacts
<1>7. Clear(Nothing, Committed') /\ \A q \in Procs \ {p} : Clear(Nothing, new[q])
  BY ClearFacts
<1>8. QED
  BY <1>2, <1>3, <1>4, <1>5, <1>6, <1>7, OneKeepsInv

(* connection.commit().                                                    *)
LEMMA CommitKeepsInv ==
    ASSUME Inv, NEW p \in Procs, Commit(p)
    PROVE  Inv'
<1>1. ASSUME NEW status \in {"ok", "failed"}, Exit(p, status) PROVE Inv'
  <2>1. /\ at' = [at EXCEPT ![p] = "idle"] /\ cmd' = [cmd EXCEPT ![p] = NoCommand]
        /\ todo' = [todo EXCEPT ![p] = {}] /\ new' = [new EXCEPT ![p] = Nothing]
        /\ Asks \subseteq Asks'
    BY <1>1, ExitFacts
  <2>2. {} \subseteq NoCommand.does /\ "idle" \in Stage \ {"insert vault", "commit"}
    BY DEF Stage
  <2>3. QED
    BY <2>1, <2>2, CommittedKeepsInv
<1>2. CASE /\ Goto(p, "run") /\ new' = [new EXCEPT ![p] = Nothing]
           /\ UNCHANGED <<cmd, todo, history>>
  <2>1. /\ at' = [at EXCEPT ![p] = "run"] /\ at[p] = "commit"
        /\ cmd' = [cmd EXCEPT ![p] = cmd[p]] /\ todo' = [todo EXCEPT ![p] = todo[p]]
    BY <1>2 DEF Goto, Commit, Inv, Shape
  <2>2. /\ at'[p] # "idle" /\ cmd'[p] = cmd[p] /\ todo[p] \subseteq cmd[p].does
        /\ \A q \in Procs \ {p} : at'[q] = at[q] /\ cmd'[q] = cmd[q]
    BY <1>2, <2>1 DEF Inv, Shape, Own, Place
  <2>3. Asks \subseteq Asks'
    BY <1>2, <2>2, AsksStay
  <2>4. "run" \in Stage \ {"insert vault", "commit"}
    BY DEF Stage
  <2>5. QED
    BY <1>2, <2>1, <2>2, <2>3, <2>4, CommittedKeepsInv
<1>3. QED
  BY <1>1, <1>2 DEF Commit

(* Every step keeps the invariant.                                         *)
LEMMA NextKeepsInv == Inv /\ [Next]_vars => Inv'
<1> SUFFICES ASSUME Inv, [Next]_vars PROVE Inv'
  OBVIOUS
<1>1. CASE UNCHANGED vars
  <2>1. /\ UNCHANGED <<users, vaults, tables, grants, configs, at, cmd, todo, new, history>>
    BY <1>1 DEF vars, data
  <2>2. Shape' /\ Whole' /\ Asked'
    BY <2>1 DEF Inv, Shape, Whole, Asked, Asks, AsksFor, IdsOfUser, IdsOfVault, SamePair
  <2>3. ASSUME NEW p \in Procs PROVE Own(p)'
    <3>1. Place(p)'
      BY <2>1 DEF Inv, Own, Place
    <3>2. Writes(p)'
      <4>1. ASSUME NEW g \in new[p].grants PROVE AsksFor(cmd[p], g)'
        BY <2>1 DEF Inv, Own, Writes, AsksFor, IdsOfUser, IdsOfVault
      <4>2. /\ \A r, s \in new[p].users : r = s
            /\ \A r, s \in new[p].vaults : r = s
            /\ at[p] # "insert vault" => new[p].tables = {r.vault : r \in new[p].vaults}
            /\ \A g, h \in new[p].grants : SamePair(g, h) => g = h
            /\ \A k \in new[p].configs : \E g \in grants : g.id = k.grant
        BY DEF Inv, Own, Writes
      <4>3. QED
        BY <2>1, <4>1, <4>2 DEF Writes, SamePair
    <3>3. Clear(new[p], Committed)' /\ \A q \in Procs \ {p} : Clear(new[p], new[q])'
      BY <2>1 DEF Inv, Own, Clear, Committed, SamePair
    <3>4. QED
      BY <3>1, <3>2, <3>3 DEF Own
  <2>4. QED
    BY <2>2, <2>3 DEF Inv
<1>2. ASSUME NEW p \in Procs, FindTables(p) \/ CreateTables(p) \/ CommitTables(p) \/ FindVault(p)
      PROVE  Inv'
  <2>1. CASE Fails(p)
    BY <2>1, FailKeepsInv
  <2>2. CASE ~Fails(p)
    <3>1. /\ at[p] \in {"init", "create tables", "commit tables", "run"}
          /\ UNCHANGED <<data, cmd, todo, new, history>>
          /\ \E l \in {"run", "create tables", "commit tables", "create table"} :
                at' = [at EXCEPT ![p] = l]
      BY <1>2, <2>2 DEF FindTables, CreateTables, CommitTables, FindVault, Runs, Goto
    <3>2. QED
      BY <3>1, LookKeepsInv
  <2>3. QED
    BY <2>1, <2>2
<1>3. ASSUME NEW p \in Procs, Dies(p) PROVE Inv'
  BY <1>3, FailKeepsInv DEF Dies
<1>4. QED
  BY <1>1, <1>2, <1>3, CallKeepsInv, CreateUserKeepsInv, GrantKeepsInv, LimitKeepsInv,
     CreateTableKeepsInv, InsertVaultKeepsInv, CommitKeepsInv DEF Next, Step

-----------------------------------------------------------------------------
(* Inv holds in every state.                                               *)
THEOREM Invariant == Spec => []Inv
  BY InitInv, NextKeepsInv, PTL DEF Spec

(* At most one element, so at most one in number.                          *)
LEMMA OneAtMost ==
    ASSUME NEW S, \A x, y \in S : x = y
    PROVE  Cardinality(S) <= 1
<1>1. CASE S = {}
  BY <1>1, FS_EmptySet
<1>2. CASE S # {}
  <2>1. PICK x \in S : TRUE
    BY <1>2
  <2>2. S = {x}
    BY <2>1
  <2>3. QED
    BY <2>2, FS_Singleton
<1>3. QED
  BY <1>1, <1>2

(* Tables and entries come together and once, whatever else is run at the  *)
(* same time and whatever is killed.                                       *)
THEOREM VaultsAndUsers == Spec => []VaultsAreWhole
<1>1. Inv => VaultsAreWhole
  <2> SUFFICES ASSUME Inv PROVE VaultsAreWhole
    OBVIOUS
  <2>1. tables = {w.vault : w \in vaults}
    BY DEF Inv, Whole
  <2>2. ASSUME NEW v \in Vaults PROVE Cardinality(IdsOfVault(v)) <= 1
    <3>1. \A x, y \in IdsOfVault(v) : x = y
      BY DEF Inv, Whole, IdsOfVault
    <3>2. QED
      BY <3>1, OneAtMost
  <2>3. ASSUME NEW u \in Users PROVE Cardinality(IdsOfUser(u)) <= 1
    <3>1. \A x, y \in IdsOfUser(u) : x = y
      BY DEF Inv, Whole, IdsOfUser
    <3>2. QED
      BY <3>1, OneAtMost
  <2>4. QED
    BY <2>1, <2>2, <2>3 DEF VaultsAreWhole
<1>2. QED
  BY <1>1, Invariant, PTL

(* Each grant is there once and was named on a command line, for a user    *)
(* and a vault that are there.                                             *)
THEOREM Grants == Spec => []GrantsWereAsked
<1>1. Inv => GrantsWereAsked
  BY DEF Inv, Whole, Asked, Asks, AsksFor, GrantsWereAsked
<1>2. QED
  BY <1>1, Invariant, PTL
-----------------------------------------------------------------------------
(* Whom a process waits for: the transaction that has written what p's     *)
(* statement would write, or creates the tables.                           *)
WaitsFor(p, q) ==
    \/ at[p] = "create tables" /\ at[q] = "commit tables"
    \/ Runs(p, "create-user", {}) /\ \E r \in new[q].users : r.user = cmd[p].user
    \/ /\ Runs(p, "grant", {"create-user"})
       /\ \E r \in GrantRows(cmd[p].user, cmd[p].vault), s \in new[q].grants : SamePair(r, s)
    \/ at[p] = "create table" /\ cmd[p].vault \in new[q].tables
    \/ at[p] = "insert vault" /\ \E r \in new[q].vaults : r.vault = cmd[p].vault

NoCircularWait ==
    \A p, q, r \in Procs : p # q /\ q # r => ~(WaitsFor(p, q) /\ WaitsFor(q, r))

(* Who waits has nothing that another one waits for, so that no circle of  *)
(* commands that wait for each other's rows comes up, however many run     *)
(* side by side: the safety half of EveryCommandEnds.  createVault, the    *)
(* one transaction of two inserts, has the table first and then finds no   *)
(* entry of another one to wait for (create_vault, authdb.cc).             *)
THEOREM NoCircle == Spec => []NoCircularWait
<1>1. ASSUME Inv PROVE NoCircularWait
  <2> SUFFICES ASSUME NEW p \in Procs, NEW q \in Procs, NEW r \in Procs, p # q, q # r,
                      WaitsFor(p, q), WaitsFor(q, r)
               PROVE  FALSE
    BY DEF NoCircularWait
  <2>1. /\ at[q] \notin {"insert vault", "commit"} => new[q] = Nothing
        /\ at[q] = "insert vault" => new[q].tables = {cmd[q].vault}
    BY <1>1 DEF Inv, Own, Place, Nothing
  <2>2. at[q] \in {"insert vault", "commit", "commit tables"}
    <3>1. Nothing.users = {} /\ Nothing.vaults = {} /\ Nothing.tables = {} /\ Nothing.grants = {}
      BY DEF Nothing
    <3>2. new[q] # Nothing \/ at[q] = "commit tables"
      BY <3>1 DEF WaitsFor
    <3>3. QED
      BY <2>1, <3>2
  <2>3. at[q] = "insert vault" /\ \E w \in new[r].vaults : w.vault = cmd[q].vault
    BY <2>2 DEF WaitsFor, Runs
  <2>4. cmd[q].vault \in new[r].tables
    <3>1. at[r] # "insert vault"
      BY <1>1, <2>3 DEF Inv, Own, Place, Nothing
    <3>2. new[r].tables = {w.vault : w \in new[r].vaults}
      BY <1>1, <3>1 DEF Inv, Own, Writes
    <3>3. QED
      BY <2>3, <3>2
  <2>5. new[q].tables \cap new[r].tables = {}
    BY <1>1 DEF Inv, Own, Clear
  <2>6. QED
    BY <2>1, <2>3, <2>4, <2>5
<1>2. QED
  BY <1>1, Invariant, PTL

-----------------------------------------------------------------------------
(* The ids of vaults are numbers.                                          *)
Numbered == /\ DOMAIN serial = {"users", "vaults", "grants", "configs"} /\ serial["vaults"] \in Nat
            /\ \A w \in vaults : w.id \in Nat
            /\ \A p \in Procs : \A w \in new[p].vaults : w.id \in Nat

LEMMA NumberedKept ==
    ASSUME Inv, Numbered, [Next]_vars
    PROVE  Numbered'
<1>1. ASSUME \/ serial' = serial
             \/ \E t \in {"users", "grants", "configs"} : \E n : serial' = [serial EXCEPT ![t] = n],
             \A w \in vaults' : w \in vaults \/ \E q \in Procs : w \in new[q].vaults,
             \A p \in Procs : new'[p].vaults = new[p].vaults \/ new'[p].vaults = {}
      PROVE  Numbered'
  BY <1>1 DEF Numbered
<1>2. ASSUME NEW p \in Procs PROVE new = [q \in Procs |-> new[q]] /\ Nothing.vaults = {}
  BY DEF Inv, Shape, Nothing
<1>3. CASE UNCHANGED vars
  BY <1>1, <1>3 DEF vars, data
<1>4. ASSUME NEW p \in Procs, Fails(p), serial' = serial \/ \E t \in {"users", "grants", "configs"} : \E n :
                                          serial' = [serial EXCEPT ![t] = n]
      PROVE  Numbered'
  BY <1>1, <1>2, <1>4 DEF Fails, Exit, data
<1>5. ASSUME NEW p \in Procs, NEW t \in {"users", "grants", "configs"}, NEW what, NEW rows,
             Inserted(p, what, t, rows)
      PROVE  Numbered'
  <2>1. new' = [new EXCEPT ![p][t] = rows] /\ vaults' = vaults
        /\ \E n : serial' = [serial EXCEPT ![t] = n]
    BY <1>5 DEF Inserted, data
  <2>2. \A q \in Procs : new'[q].vaults = new[q].vaults
    BY <1>2, <2>1 DEF Inv, Shape
  <2>3. QED
    BY <1>1, <2>1, <2>2
<1>6. ASSUME NEW p \in Procs, InsertVault(p) PROVE Numbered'
  <2>1. CASE Refused(p, "vaults")
    <3>1. serial' = [serial EXCEPT !["vaults"] = @ + 1] /\ vaults' = vaults
          /\ \A q \in Procs : new'[q].vaults = new[q].vaults \/ new'[q].vaults = {}
      BY <1>2, <2>1 DEF Refused, Fails, Exit, data
    <3>2. QED
      BY <3>1 DEF Numbered
  <2>2. CASE Inserted(p, "create-vault", "vaults", {[id |-> serial["vaults"], vault |-> cmd[p].vault]})
    <3> DEFINE row == [id |-> serial["vaults"], vault |-> cmd[p].vault]
    <3>1. /\ new' = [new EXCEPT ![p]["vaults"] = {row}] /\ vaults' = vaults
          /\ serial' = [serial EXCEPT !["vaults"] = @ + Cardinality({row})]
      BY <2>2 DEF Inserted, data
    <3>2. row.id \in Nat
      BY DEF Numbered
    <3> HIDE DEF row
    <3>3. Cardinality({row}) = 1
      BY FS_Singleton
    <3>4. \A q \in Procs : new'[q].vaults = IF q = p THEN {row} ELSE new[q].vaults
      BY <1>2, <3>1 DEF Inv, Shape
    <3>5. QED
      BY <3>1, <3>2, <3>3, <3>4 DEF Numbered
  <2>3. QED
    BY <1>6, <2>1, <2>2 DEF InsertVault
<1>7. ASSUME NEW p \in Procs, Commit(p) PROVE Numbered'
  <2>1. serial' = serial /\ vaults' = vaults \cup new[p].vaults
        /\ \A q \in Procs : new'[q].vaults = new[q].vaults \/ new'[q].vaults = {}
    BY <1>2, <1>7 DEF Commit, Exit
  <2>2. QED
    BY <1>1, <2>1
<1>8. ASSUME NEW p \in Procs, CreateTable(p) PROVE Numbered'
  <2>1. CASE Fails(p) /\ serial' = serial
    BY <1>4, <2>1
  <2>2. CASE new' = [new EXCEPT ![p].tables = {cmd[p].vault}] /\ UNCHANGED <<vaults, serial>>
    <3>1. \A q \in Procs : new'[q].vaults = new[q].vaults
      BY <1>2, <2>2 DEF Inv, Shape
    <3>2. QED
      BY <1>1, <2>2, <3>1
  <2>3. QED
    BY <1>8, <2>1, <2>2 DEF CreateTable, data
<1>9. ASSUME NEW p \in Procs, CreateUser(p) \/ Grant(p) \/ Limit(p) PROVE Numbered'
  <2>1. \/ Refused(p, "users") \/ Refused(p, "grants")
        \/ \E t \in {"users", "grants", "configs"} : \E what, rows : Inserted(p, what, t, rows)
    BY <1>9 DEF CreateUser, Grant, Limit
  <2>2. QED
    BY <1>4, <1>5, <2>1 DEF Refused
<1>10. ASSUME NEW p \in Procs,
              Call(p) \/ FindTables(p) \/ CreateTables(p) \/ CommitTables(p) \/ FindVault(p) \/ Dies(p)
       PROVE  Numbered'
  <2>1. serial' = serial /\ (Fails(p) \/ UNCHANGED <<new, vaults>>)
    BY <1>10 DEF Call, FindTables, CreateTables, CommitTables, FindVault, Dies, data
  <2>2. QED
    BY <1>1, <1>4, <2>1
<1>11. QED
  BY <1>3, <1>6, <1>7, <1>8, <1>9, <1>10 DEF Next, Step

(* Where no vault is named by a number, accessible() finds no grant for    *)
(* anyone, whatever was granted: it compares the id of the vault with its  *)
(* name (authdb.cc:201-207).  GrantedIsAccessible fails for every grant.   *)
THEOREM NobodyHasAccess ==
    ASSUME \A v \in Vaults : v \notin Nat
    PROVE  Spec => [](\A u \in Users, v \in Vaults : ~Accessible(u, v))
<1>1. Init => Numbered
  BY DEF Init, Numbered, Nothing
<1>2. ASSUME Inv, Numbered PROVE \A u \in Users, v \in Vaults : ~Accessible(u, v)
  <2>1. \A g \in grants : g.vault \in Nat
    BY <1>2 DEF Inv, Asked, AsksFor, IdsOfVault, Numbered
  <2>2. QED
    BY <2>1 DEF Accessible
<1>3. QED
  BY <1>1, <1>2, Invariant, NumberedKept, PTL DEF Spec
=============================================================================
