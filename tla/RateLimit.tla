------------------------------ MODULE RateLimit ------------------------------
(***************************************************************************)
(* AuthTokenDB::rate_limit (src/src/authdb.cc) and the PL/pgSQL function   *)
(* user_limit it calls (src/src/ratelimit-1.sql), for one user and vault,  *)
(* called by several request handlers at once, each on a connection of its *)
(* own.  One row of user_limits_config governs the user and the vault once *)
(* an administrator has set a limit; before, calls are not limited.        *)
(*                                                                         *)
(* PostgreSQL is external: transactions run at its default isolation,      *)
(* READ COMMITTED, where a statement sees the rows committed when it       *)
(* starts, a row lock is held to the end of the transaction, a locking     *)
(* read waits for the lock and then reads the row as committed last, and   *)
(* one transaction of a cycle of waiting ones is aborted.  now() is the    *)
(* time the transaction began.  What a transaction has written is kept in  *)
(* calc[c] until its commit puts it into the table.                        *)
(***************************************************************************)
EXTENDS Integers, FiniteSets

CONSTANTS Callers,    \* handlers that call rate_limit() concurrently
          Value,      \* user_limits_config.value
          Period,     \* user_limits_config.period
          Requests,   \* what _requests may be: the entries of one HTTP request
          MaxTime,    \* bound of the clock
          MayFail,    \* statements, commits and servers may fail
          Seed,       \* id of the row from the earlier call
          Nobody,     \* no holder of a row lock
          NoRow,      \* NOT FOUND
          Unlimited   \* uint32_t rc = -1

ASSUME LimitAssumption == /\ Value \in Nat /\ Period \in Nat /\ MaxTime \in Nat
                          /\ Requests \subseteq Nat /\ Unlimited \in Nat
ASSUME FlagAssumption  == MayFail \in BOOLEAN
ASSUME IdAssumption    == /\ Seed \notin Callers /\ Nobody \notin Callers
                          /\ NoRow \notin Callers \cup {Seed}

(* A row is named after the caller that inserts it: once a row is there    *)
(* nobody inserts another, so no caller commits two.                       *)
RowId == Callers \cup {Seed}

VARIABLES clock,
          config,     \* the row of user_limits_config is there
          present,    \* ids of the committed rows of user_limits
          table,      \* table[r]: value and expire of a committed row
          lock,       \* lock[r]: the transaction that holds the row lock
          at,         \* at[c]: the statement c is about to execute
          want,       \* want[c]: _requests
          start,      \* start[c]: now()
          found,      \* found[c]: the row the SELECT picked, or NoRow
          calc,       \* calc[c]: allowed, limits.value and limits.expire
          answer,     \* answer[c]: what rate_limit() returned
          ends,       \* history: last tick of the window that is open
          spent       \* history: operations handed out in that window

vars == <<clock, config, present, table, lock, at, want, start, found, calc, answer, ends, spent>>

Stage == {"idle", "select", "lock", "insert", "update", "commit", "answered",
          "threw"}    \* an exception left rate_limit()
InTransaction == {"select", "lock", "insert", "update", "commit"}
Row  == [value : Nat, expire : Nat]
Calc == [allowed : Nat, value : Nat, expire : Nat]
NoCalc == [allowed |-> 0, value |-> 0, expire |-> 0]

(* user_limits has its row from an earlier call, or no call was made yet.  *)
Seeded == Seed \in present

Init == /\ clock = 0
        /\ present \in {{}, {Seed}}
        /\ config \in BOOLEAN /\ (Seeded => config)
        /\ \E v \in 0..Value, e \in 0..MaxTime :
              /\ Seeded \/ (v = Value /\ e = 0)
              /\ table = [r \in RowId |-> [value |-> v, expire |-> e]]
              /\ ends = IF Seeded THEN e ELSE -1
              /\ spent = Value - v
        /\ lock = [r \in RowId |-> Nobody]
        /\ at = [c \in Callers |-> "idle"]
        /\ want = [c \in Callers |-> 0]
        /\ start = [c \in Callers |-> 0]
        /\ found = [c \in Callers |-> NoRow]
        /\ calc = [c \in Callers |-> NoCalc]
        /\ answer = [c \in Callers |-> 0]

Tick == /\ clock < MaxTime
        /\ clock' = clock + 1
        /\ UNCHANGED <<config, present, table, lock, at, want, start, found, calc, answer, ends, spent>>

(* limit_user commits a limit where there was none.  It is never removed.  *)
Configure == /\ ~config
             /\ config' = TRUE
             /\ UNCHANGED <<clock, present, table, lock, at, want, start, found, calc, answer, ends, spent>>

-----------------------------------------------------------------------------
(* Mutants: no stop at zero; expire is stamped anew by every call; the     *)
(* window is over at its last tick.                                        *)
ChargeBelowZero(row, n, t) ==
    LET limits == IF row.expire < t THEN [value |-> Value, expire |-> t + Period] ELSE row
    IN  [allowed |-> n, value |-> limits.value - n, expire |-> limits.expire]

ChargeRestamps(row, n, t) ==
    LET value == IF row.expire < t THEN Value ELSE row.value
    IN  [allowed |-> IF value < n THEN value ELSE n,
         value   |-> IF value < n THEN 0 ELSE value - n,
         expire  |-> t + Period]

ChargeResetsEarly(row, n, t) ==
    LET limits == IF row.expire <= t THEN [value |-> Value, expire |-> t + Period] ELSE row
        rest   == limits.value - n
    IN  [allowed |-> IF rest < 0 THEN n + rest ELSE n,
         value   |-> IF rest < 0 THEN 0 ELSE rest,
         expire  |-> limits.expire]

(* The arithmetic of user_limit: the first charge of a configuration, and  *)
(* a charge against an existing row.                                       *)
FirstCharge(n, t) ==
    [allowed |-> IF Value - n < 0 THEN Value ELSE n,
     value   |-> IF Value - n < 0 THEN 0 ELSE Value - n,
     expire  |-> t + Period]

Charge(row, n, t) ==
    LET limits == IF row.expire < t THEN [value |-> Value, expire |-> t + Period] ELSE row
        rest   == limits.value - n
    IN  [allowed |-> IF rest < 0 THEN n + rest ELSE n,
         value   |-> IF rest < 0 THEN 0 ELSE rest,
         expire  |-> limits.expire]

-----------------------------------------------------------------------------
(* rate_limit() is called and its transaction begins.                      *)
Begin(c) ==
    /\ at[c] \in {"idle", "answered", "threw"}
    /\ \E n \in Requests : want' = [want EXCEPT ![c] = n]
    /\ start' = [start EXCEPT ![c] = clock]
    /\ at' = [at EXCEPT ![c] = "select"]
    /\ answer' = [answer EXCEPT ![c] = 0]
    /\ UNCHANGED <<clock, config, present, table, lock, found, calc, ends, spent>>

(* No limit is configured: everything that was asked for is allowed, and   *)
(* nothing is written.                                                     *)
SelectNoConfig(c) ==
    /\ at[c] = "select" /\ ~config
    /\ calc' = [calc EXCEPT ![c] = [NoCalc EXCEPT !.allowed = want[c]]]
    /\ at' = [at EXCEPT ![c] = "commit"]
    /\ UNCHANGED <<clock, config, present, table, lock, want, start, found, answer, ends, spent>>

(* SELECT ... FOR UPDATE takes its snapshot.  INTO fetches one row; which  *)
(* one is not specified.                                                   *)
SelectNothing(c) ==
    /\ at[c] = "select" /\ config /\ present = {}
    /\ found' = [found EXCEPT ![c] = NoRow]
    /\ calc' = [calc EXCEPT ![c] = FirstCharge(want[c], start[c])]
    /\ at' = [at EXCEPT ![c] = "insert"]
    /\ UNCHANGED <<clock, config, present, table, lock, want, start, answer, ends, spent>>

SelectRow(c) ==
    /\ at[c] = "select" /\ config
    /\ \E r \in present : found' = [found EXCEPT ![c] = r]
    /\ at' = [at EXCEPT ![c] = "lock"]
    /\ UNCHANGED <<clock, config, present, table, lock, want, start, calc, answer, ends, spent>>

(* Mutant: the SELECT is not FOR UPDATE.                                   *)
ReadRowUnlocked(c) ==
    /\ at[c] = "lock"
    /\ calc' = [calc EXCEPT ![c] = Charge(table[found[c]], want[c], start[c])]
    /\ at' = [at EXCEPT ![c] = "update"]
    /\ UNCHANGED <<clock, config, present, table, lock, want, start, found, answer, ends, spent>>

(* FOR UPDATE gets the lock and reads the row as it is now.                *)
LockRow(c) ==
    /\ at[c] = "lock" /\ lock[found[c]] \in {Nobody, c}
    /\ lock' = [lock EXCEPT ![found[c]] = c]
    /\ calc' = [calc EXCEPT ![c] = Charge(table[found[c]], want[c], start[c])]
    /\ at' = [at EXCEPT ![c] = "update"]
    /\ UNCHANGED <<clock, config, present, table, want, start, found, answer, ends, spent>>

(* The new row is locked by its transaction and invisible until commit.    *)
Insert(c) ==
    /\ at[c] = "insert"
    /\ lock' = [lock EXCEPT ![c] = c]
    /\ at' = [at EXCEPT ![c] = "commit"]
    /\ UNCHANGED <<clock, config, present, table, want, start, found, calc, answer, ends, spent>>

(* UPDATE ... WHERE config_id = ...: every committed row of this           *)
(* configuration, each of which must be locked.                            *)
Update(c) ==
    /\ at[c] = "update" /\ \A r \in present : lock[r] \in {Nobody, c}
    /\ lock' = [r \in RowId |-> IF r \in present THEN c ELSE lock[r]]
    /\ at' = [at EXCEPT ![c] = "commit"]
    /\ UNCHANGED <<clock, config, present, table, want, start, found, calc, answer, ends, spent>>

Unlocked(c) == [r \in RowId |-> IF lock[r] = c THEN Nobody ELSE lock[r]]

(* The locals of the call and its transaction are gone.                    *)
Over(c) == /\ want' = [want EXCEPT ![c] = 0]
           /\ start' = [start EXCEPT ![c] = 0]
           /\ found' = [found EXCEPT ![c] = NoRow]
           /\ calc' = [calc EXCEPT ![c] = NoCalc]
           /\ UNCHANGED <<clock, config>>

Returns(c, a) == /\ at' = [at EXCEPT ![c] = "answered"]
                 /\ answer' = [answer EXCEPT ![c] = a]
                 /\ Over(c)

(* connection.commit().  The history variables charge the call to the      *)
(* window it belongs to by its own date, whatever the rows say; without a  *)
(* limit there is no window.                                               *)
Commit(c) ==
    /\ at[c] = "commit"
    /\ LET written == {r \in RowId : lock[r] = c}
       IN  /\ present' = present \cup written
           /\ table' = [r \in RowId |-> IF r \in written
                                        THEN [value |-> calc[c].value, expire |-> calc[c].expire]
                                        ELSE table[r]]
           /\ IF written = {}
              THEN UNCHANGED <<ends, spent>>
              ELSE IF ends < start[c]
              THEN ends' = start[c] + Period /\ spent' = calc[c].allowed
              ELSE ends' = ends /\ spent' = spent + calc[c].allowed
    /\ lock' = Unlocked(c)
    /\ Returns(c, calc[c].allowed)

-----------------------------------------------------------------------------
(* Mutant: catch( ... ) without the rollback: the locks stay.              *)
NoRollback(c) == /\ Returns(c, Unlimited)
                 /\ UNCHANGED <<present, table, lock, ends, spent>>

(* catch( ... ): the transaction is rolled back and rc still is -1.        *)
RollbackUnlimited(c) == /\ Returns(c, Unlimited)
                        /\ lock' = Unlocked(c)
                        /\ UNCHANGED <<present, table, ends, spent>>

StatementFails(c) == /\ MayFail /\ at[c] \in InTransaction \ {"commit"}
                     /\ RollbackUnlimited(c)

(* c and another transaction hold what the other's UPDATE waits for.       *)
Deadlocked(c) ==
    /\ at[c] = "update"
    /\ \E d \in Callers \ {c} : /\ at[d] = "update"
                                /\ \E r \in present : lock[r] = d
                                /\ \E r \in present : lock[r] = c

DeadlockAbort(c) == Deadlocked(c) /\ RollbackUnlimited(c)

(* commit() throws and nothing was committed; rc was set before.           *)
CommitFails(c) == /\ MayFail /\ at[c] = "commit"
                  /\ Returns(c, calc[c].allowed)
                  /\ lock' = Unlocked(c)
                  /\ UNCHANGED <<present, table, ends, spent>>

(* The call ends at "stage" without an answer, and PostgreSQL rolls the    *)
(* transaction of the lost connection back.                                *)
Ends(c, stage) == /\ at[c] \in InTransaction
                  /\ at' = [at EXCEPT ![c] = stage]
                  /\ lock' = Unlocked(c)
                  /\ Over(c)
                  /\ UNCHANGED <<present, table, answer, ends, spent>>

(* The server process dies.                                                *)
Crash(c) == MayFail /\ Ends(c, "idle")

(* rollback() throws out of the catch( ... ), or getConnection(), which is *)
(* not within the try, has thrown before the first statement.              *)
RateLimitThrows(c) == MayFail /\ Ends(c, "threw")

-----------------------------------------------------------------------------
Statement(c) == \/ SelectNoConfig(c) \/ SelectNothing(c) \/ SelectRow(c) \/ Insert(c) \/ Commit(c)
                \/ DeadlockAbort(c)

Failure(c) == StatementFails(c) \/ CommitFails(c) \/ Crash(c) \/ RateLimitThrows(c)

Next == \/ Tick \/ Configure
        \/ \E c \in Callers : \/ Begin(c) \/ Statement(c) \/ LockRow(c) \/ Update(c)
                              \/ Failure(c)

(* A statement that need not wait is executed.  PostgreSQL queues the      *)
(* transactions that wait for a row, so that a lock which is released      *)
(* again and again is granted in the end.  Nothing has to fail, and nobody *)
(* has to call.                                                            *)
Fairness == \A c \in Callers : /\ WF_vars(Statement(c))
                               /\ SF_vars(LockRow(c))
                               /\ SF_vars(Update(c))

Spec == Init /\ [][Next]_vars
FairSpec == Spec /\ Fairness

-----------------------------------------------------------------------------
TypeOK == /\ clock \in Nat /\ config \in BOOLEAN
          /\ present \subseteq RowId
          /\ table \in [RowId -> Row]
          /\ lock \in [RowId -> Callers \cup {Nobody}]
          /\ at \in [Callers -> Stage]
          /\ want \in [Callers -> Nat] /\ start \in [Callers -> Nat]
          /\ found \in [Callers -> RowId \cup {NoRow}]
          /\ calc \in [Callers -> Calc]
          /\ answer \in [Callers -> Nat]
          /\ ends \in Int /\ spent \in Nat

(* Once the row is there: however the calls interleave and whichever of    *)
(* them fail, the calls that were written down in one window never add up  *)
(* to more than the configured value (ratelimit-1.sql:23-63).              *)
QuotaRespected == Seeded => spent <= Value

RowsMoveOn ==
    \A r \in present : /\ table'[r].expire >= table[r].expire
                       /\ table'[r].expire = table[r].expire => table'[r].value <= table[r].value

(* Once the row is there its remaining quota never grows within a window,  *)
(* and a window never ends earlier than announced: a late writer with an   *)
(* old now() does not put an old row back (ratelimit-1.sql:48-63).         *)
WindowsOnlyMoveOn == [][Seeded => RowsMoveOn]_vars

(* Every call of rate_limit() returns or throws: nobody waits for ever for *)
(* a row lock left behind, nor in a cycle of lock waits (authdb.cc:209).   *)
EveryCallReturns == \A c \in Callers : at[c] = "select" ~> at[c] \in {"answered", "threw", "idle"}

(* "If not found; this is the first..." (ratelimit-1.sql:31): a call that  *)
(* found no row inserts the only one.                                      *)
InserterIsFirst ==
    \A c \in Callers : at[c] = "commit" /\ found[c] = NoRow /\ lock[c] = c => present = {}

-----------------------------------------------------------------------------
(* With its row in place user_limit implements Quota: concurrent calls are *)
(* answered as if they had come one at a time.                             *)
CallState == [c \in Callers |-> CASE at[c] \in {"idle", "threw"} -> "none"
                                  [] at[c] = "answered" -> "answered"
                                  [] OTHER -> "asking"]

Serial == INSTANCE Quota WITH left <- table[Seed].value, ends <- table[Seed].expire,
                              call <- CallState, since <- start

(* Once the row is there every step is one of the serial quota, or none    *)
(* for it (ratelimit-1.sql:19-66).                                         *)
ImplementsQuota == Serial!Init /\ [][Seeded => Serial!Next]_(Serial!vars)
=============================================================================
