--------------------------- MODULE RateLimitProofs ---------------------------
(***************************************************************************)
(* Proofs about RateLimit, for any set of callers, any limit and period.   *)
(***************************************************************************)
EXTENDS RateLimit, TLAPS

USE DEF RowId

-----------------------------------------------------------------------------
(* A charge hands out what is left and no more.                            *)
LEMMA FirstChargeCalc ==
  ASSUME NEW n \in Nat, NEW t \in Nat
  PROVE  /\ FirstCharge(n, t) \in Calc
         /\ FirstCharge(n, t).allowed + FirstCharge(n, t).value = Value
         /\ FirstCharge(n, t).expire = t + Period
  BY LimitAssumption DEF FirstCharge, Calc

LEMMA ChargeCalc ==
  ASSUME NEW row \in Row, NEW n \in Nat, NEW t \in Nat
  PROVE  LET left == IF row.expire < t THEN Value ELSE row.value
             got  == IF n <= left THEN n ELSE left
         IN  /\ Charge(row, n, t) \in Calc
             /\ Charge(row, n, t).allowed = got
             /\ Charge(row, n, t).value = left - got
             /\ Charge(row, n, t).expire = IF row.expire < t THEN t + Period ELSE row.expire
<1>1. row.value \in Nat /\ row.expire \in Nat
  BY DEF Row
<1>2. CASE row.expire < t
  BY <1>1, <1>2, LimitAssumption DEF Charge, Calc, Row
<1>3. CASE ~(row.expire < t)
  BY <1>1, <1>3, LimitAssumption DEF Charge, Calc, Row
<1> QED
  BY <1>2, <1>3

-----------------------------------------------------------------------------
(* The type invariant.                                                     *)
LEMMA InitTypeOK == Init => TypeOK
<1> SUFFICES ASSUME Init PROVE TypeOK
  OBVIOUS
<1>1. PICK v \in 0..Value, e \in 0..MaxTime :
         /\ table = [r \in RowId |-> [value |-> v, expire |-> e]]
         /\ ends = IF Seeded THEN e ELSE -1
         /\ spent = Value - v
  BY DEF Init
<1>2. v \in Nat /\ e \in Nat /\ Value - v \in Nat
  BY LimitAssumption
<1>3. table \in [RowId -> Row] /\ ends \in Int /\ spent \in Nat
  BY <1>1, <1>2 DEF Row
<1>4. present \subseteq RowId /\ lock \in [RowId -> Callers \cup {Nobody}]
  BY DEF Init
<1>5. at \in [Callers -> Stage] /\ calc \in [Callers -> Calc]
  BY DEF Init, Stage, Calc, NoCalc
<1>6. /\ want \in [Callers -> Nat] /\ start \in [Callers -> Nat] /\ answer \in [Callers -> Nat]
      /\ found \in [Callers -> RowId \cup {NoRow}] /\ clock \in Nat /\ config \in BOOLEAN
  BY DEF Init
<1> QED
  BY <1>3, <1>4, <1>5, <1>6 DEF TypeOK

(* A call that waits for a row, or has it, knows which.                    *)
RowPicked == \A c \in Callers : at[c] \in {"lock", "update"} => found[c] \in present

LEMMA NextTypeOK == TypeOK /\ RowPicked /\ [Next]_vars => TypeOK'
<1> SUFFICES ASSUME TypeOK, RowPicked, [Next]_vars PROVE TypeOK'
  OBVIOUS
<1> USE LimitAssumption DEF TypeOK, Stage
<1>0. NoCalc \in Calc
  BY DEF NoCalc, Calc
<1>1. CASE Tick
  BY <1>1 DEF Tick
<1>14. CASE Configure
  BY <1>14 DEF Configure
<1>2. ASSUME NEW c \in Callers, Begin(c) PROVE TypeOK'
  BY <1>2 DEF Begin
<1>13. ASSUME NEW c \in Callers, SelectNoConfig(c) PROVE TypeOK'
  <2>1. [NoCalc EXCEPT !.allowed = want[c]] \in Calc
    BY DEF NoCalc, Calc
  <2> QED
    BY <1>13, <2>1 DEF SelectNoConfig
<1>3. ASSUME NEW c \in Callers, SelectNothing(c) PROVE TypeOK'
  BY <1>3, FirstChargeCalc DEF SelectNothing
<1>4. ASSUME NEW c \in Callers, SelectRow(c) PROVE TypeOK'
  BY <1>4 DEF SelectRow
<1>5. ASSUME NEW c \in Callers, LockRow(c) PROVE TypeOK'
  <2>1. Charge(table[found[c]], want[c], start[c]) \in Calc
    BY <1>5, ChargeCalc DEF LockRow, RowPicked
  <2> QED
    BY <1>5, <2>1 DEF LockRow
<1>6. ASSUME NEW c \in Callers, Insert(c) PROVE TypeOK'
  BY <1>6 DEF Insert
<1>7. ASSUME NEW c \in Callers, Update(c) PROVE TypeOK'
  BY <1>7 DEF Update
<1>8. ASSUME NEW c \in Callers, Commit(c) PROVE TypeOK'
  <2>1. /\ calc[c].allowed \in Nat /\ calc[c].value \in Nat /\ calc[c].expire \in Nat
        /\ [value |-> calc[c].value, expire |-> calc[c].expire] \in Row
    BY DEF Calc, Row
  <2>2. present' \subseteq RowId /\ table' \in [RowId -> Row]
    BY <1>8, <2>1 DEF Commit
  <2>3. lock' \in [RowId -> Callers \cup {Nobody}]
    BY <1>8 DEF Commit, Unlocked
  <2>4. ends' \in Int /\ spent' \in Nat
    BY <1>8, <2>1 DEF Commit
  <2>5. /\ at' \in [Callers -> Stage] /\ answer' \in [Callers -> Nat]
        /\ want' \in [Callers -> Nat] /\ start' \in [Callers -> Nat]
        /\ clock' \in Nat /\ config' \in BOOLEAN
        /\ found' \in [Callers -> RowId \cup {NoRow}] /\ calc' \in [Callers -> Calc]
    BY <1>0, <1>8, <2>1 DEF Commit, Returns, Over
  <2> HIDE DEF Stage
  <2> QED
    BY <2>2, <2>3, <2>4, <2>5
<1>9. ASSUME NEW c \in Callers, RollbackUnlimited(c) PROVE TypeOK'
  BY <1>0, <1>9 DEF RollbackUnlimited, Returns, Over, Unlocked
<1>10. ASSUME NEW c \in Callers, CommitFails(c) PROVE TypeOK'
  BY <1>0, <1>10 DEF CommitFails, Returns, Over, Unlocked, Calc
<1>11. ASSUME NEW c \in Callers, NEW s \in {"idle", "threw"}, Ends(c, s) PROVE TypeOK'
  BY <1>0, <1>11 DEF Ends, Over, Unlocked
<1>12. CASE UNCHANGED vars
  BY <1>12 DEF vars
<1> QED
  BY <1>1, <1>2, <1>3, <1>4, <1>5, <1>6, <1>7, <1>8, <1>9, <1>10, <1>11, <1>12, <1>13, <1>14
     DEF Next, Statement, Failure, StatementFails, DeadlockAbort, Crash, RateLimitThrows

LEMMA NextRowPicked == TypeOK /\ RowPicked /\ [Next]_vars => RowPicked'
<1> SUFFICES ASSUME TypeOK, RowPicked, [Next]_vars PROVE RowPicked'
  OBVIOUS
<1> USE DEF TypeOK, RowPicked
<1>1. CASE Tick \/ Configure
  BY <1>1 DEF Tick, Configure
<1>2. ASSUME NEW c \in Callers, Begin(c) PROVE RowPicked'
  BY <1>2 DEF Begin
<1>3. ASSUME NEW c \in Callers, SelectNothing(c) \/ SelectNoConfig(c) PROVE RowPicked'
  BY <1>3 DEF SelectNothing, SelectNoConfig
<1>4. ASSUME NEW c \in Callers, SelectRow(c) PROVE RowPicked'
  BY <1>4 DEF SelectRow
<1>5. ASSUME NEW c \in Callers, LockRow(c) PROVE RowPicked'
  BY <1>5 DEF LockRow
<1>6. ASSUME NEW c \in Callers, Insert(c) PROVE RowPicked'
  BY <1>6 DEF Insert
<1>7. ASSUME NEW c \in Callers, Update(c) PROVE RowPicked'
  BY <1>7 DEF Update
<1>8. ASSUME NEW c \in Callers, NEW a, Returns(c, a), present \subseteq present' PROVE RowPicked'
  BY <1>8 DEF Returns, Over
<1>9. ASSUME NEW c \in Callers, NEW s \in {"idle", "threw"}, Ends(c, s) PROVE RowPicked'
  BY <1>9 DEF Ends, Over
<1>10. CASE UNCHANGED vars
  BY <1>10 DEF vars
<1> QED
  BY <1>1, <1>2, <1>3, <1>4, <1>5, <1>6, <1>7, <1>8, <1>9, <1>10
     DEF Next, Statement, Failure, StatementFails, DeadlockAbort, Commit, CommitFails, RollbackUnlimited,
         Crash, RateLimitThrows

(* No step makes the first row appear or go: locks are held on rows that   *)
(* are there, and callers insert rows of their own.                        *)
SeedLocked == lock[Seed] # Nobody => Seeded

LEMMA SeedStays ==
  ASSUME TypeOK, RowPicked, SeedLocked, [Next]_vars
  PROVE  Seeded' = Seeded /\ SeedLocked'
<1> USE IdAssumption DEF TypeOK, SeedLocked, Seeded
<1>1. CASE Tick \/ Configure
  BY <1>1 DEF Tick, Configure
<1>2. ASSUME NEW c \in Callers, Begin(c) \/ SelectNoConfig(c) \/ SelectNothing(c) \/ SelectRow(c)
      PROVE  Seeded' = Seeded /\ SeedLocked'
  BY <1>2 DEF Begin, SelectNoConfig, SelectNothing, SelectRow
<1>3. ASSUME NEW c \in Callers, LockRow(c) PROVE Seeded' = Seeded /\ SeedLocked'
  BY <1>3 DEF LockRow, RowPicked
<1>4. ASSUME NEW c \in Callers, Insert(c) PROVE Seeded' = Seeded /\ SeedLocked'
  BY <1>4 DEF Insert
<1>5. ASSUME NEW c \in Callers, Update(c) PROVE Seeded' = Seeded /\ SeedLocked'
  BY <1>5 DEF Update
<1>6. ASSUME NEW c \in Callers, Commit(c) PROVE Seeded' = Seeded /\ SeedLocked'
  BY <1>6 DEF Commit, Unlocked
<1>7. ASSUME NEW c \in Callers, DeadlockAbort(c) \/ Failure(c) PROVE Seeded' = Seeded /\ SeedLocked'
  BY <1>7 DEF DeadlockAbort, Failure, StatementFails, RollbackUnlimited, CommitFails, Crash,
              RateLimitThrows, Ends, Unlocked
<1>8. CASE UNCHANGED vars
  BY <1>8 DEF vars
<1> QED
  BY <1>1, <1>2, <1>3, <1>4, <1>5, <1>6, <1>7, <1>8 DEF Next, Statement

(* Every variable keeps its type, whatever the interleaving and the        *)
(* failures, with or without a first row.                                  *)
THEOREM TypeCorrect == Spec => []TypeOK
<1>1. Init => TypeOK /\ RowPicked
  BY InitTypeOK DEF Init, RowPicked
<1>2. TypeOK /\ RowPicked /\ [Next]_vars => (TypeOK /\ RowPicked)'
  BY NextTypeOK, NextRowPicked
<1> QED
  BY <1>1, <1>2, PTL DEF Spec

-----------------------------------------------------------------------------
(* With the row in place: it stays the only one; only the transaction that *)
(* is about to write it, or has, holds its lock; what that transaction is  *)
(* going to write was computed from the row as it still is; and the row    *)
(* agrees with the history of the calls.                                   *)
OneRow == /\ present = {Seed}
          /\ \A r \in Callers : lock[r] = Nobody
          /\ \A c \in Callers : /\ at[c] # "insert"
                                /\ at[c] \in {"lock", "update", "commit"} => found[c] = Seed

LockedByWriter == \A c \in Callers : lock[Seed] = c <=> at[c] \in {"update", "commit"}

WriterIsFresh == \A c \in Callers : at[c] \in {"update", "commit"} =>
                                       calc[c] = Charge(table[Seed], want[c], start[c])

RowIsHistory == ends = table[Seed].expire /\ spent + table[Seed].value = Value

RowInv == OneRow /\ LockedByWriter /\ WriterIsFresh /\ RowIsHistory

(* A row of user_limits is there only for a limit that is configured.      *)
Configured == Seeded => config

LEMMA ConfiguredStays ==
  ASSUME Configured, Seeded' = Seeded, [Next]_vars
  PROVE  Configured'
<1>1. UNCHANGED config \/ Configure
  BY DEF Next, vars, Tick, Begin, Statement, Failure, SelectNoConfig, SelectNothing, SelectRow,
         LockRow, Insert, Update, Commit, DeadlockAbort, StatementFails, CommitFails, Crash,
         RateLimitThrows, RollbackUnlimited, Returns, Ends, Over
<1> QED
  BY <1>1 DEF Configured, Configure

LEMMA InitRowInv == Seeded /\ Init => RowInv
<1> SUFFICES ASSUME Seeded, Init PROVE RowInv
  OBVIOUS
<1>1. OneRow /\ LockedByWriter /\ WriterIsFresh
  BY IdAssumption DEF Init, Seeded, OneRow, LockedByWriter, WriterIsFresh
<1>2. PICK v \in 0..Value, e \in 0..MaxTime :
         /\ table = [r \in RowId |-> [value |-> v, expire |-> e]]
         /\ ends = IF Seeded THEN e ELSE -1
         /\ spent = Value - v
  BY DEF Init
<1>3. RowIsHistory
  BY <1>2, LimitAssumption DEF RowIsHistory
<1> QED
  BY <1>1, <1>3 DEF RowInv

(* Ending a call without a commit gives the lock back and changes no row.  *)
LEMMA RollbackRowInv ==
  ASSUME TypeOK, RowInv, NEW c \in Callers, NEW s \in {"idle", "answered", "threw"},
         at' = [at EXCEPT ![c] = s], lock' = Unlocked(c), Over(c),
         UNCHANGED <<present, table, ends, spent>>
  PROVE  RowInv'
<1> USE IdAssumption DEF TypeOK, RowInv
<1>1. OneRow'
  BY DEF OneRow, Over, Unlocked
<1>2. LockedByWriter'
  BY DEF LockedByWriter, Unlocked
<1>3. WriterIsFresh'
  BY DEF WriterIsFresh, Over
<1>4. RowIsHistory'
  BY DEF RowIsHistory
<1> QED
  BY <1>1, <1>2, <1>3, <1>4

LEMMA CommitRowInv ==
  ASSUME TypeOK, RowInv, NEW c \in Callers, Commit(c)
  PROVE  RowInv'
<1>1. at[c] = "commit" /\ lock[Seed] = c /\ {r \in RowId : lock[r] = c} = {Seed}
  BY IdAssumption DEF Commit, RowInv, LockedByWriter, OneRow
<1>2. /\ present' = {Seed}
      /\ table' = [r \in RowId |-> IF r = Seed
                                   THEN [value |-> calc[c].value, expire |-> calc[c].expire]
                                   ELSE table[r]]
  BY <1>1 DEF Commit, RowInv, OneRow
<1>3. lock' = Unlocked(c) /\ at' = [at EXCEPT ![c] = "answered"] /\ Over(c)
  BY DEF Commit, Returns
<1>4. OneRow'
  BY <1>2, <1>3, IdAssumption DEF OneRow, RowInv, TypeOK, Over, Unlocked
<1>5. LockedByWriter'
  BY <1>3, IdAssumption DEF LockedByWriter, RowInv, TypeOK, Unlocked
<1>6. WriterIsFresh'
  <2>1. \A d \in Callers : at'[d] \in {"update", "commit"} => d # c /\ at[d] \in {"update", "commit"}
    BY <1>3 DEF TypeOK
  <2>2. \A d \in Callers : at'[d] \notin {"update", "commit"}
    BY <1>1, <2>1 DEF RowInv, LockedByWriter
  <2> QED
    BY <2>2 DEF WriterIsFresh
<1>7. RowIsHistory'
  <2>1. calc[c] = Charge(table[Seed], want[c], start[c])
    BY <1>1 DEF RowInv, WriterIsFresh
  <2>2. table[Seed] \in Row /\ want[c] \in Nat /\ start[c] \in Nat
    BY DEF TypeOK
  <2>3. table'[Seed].value = calc[c].value /\ table'[Seed].expire = calc[c].expire
    BY <1>2
  <2>4. /\ ends = table[Seed].expire /\ spent + table[Seed].value = Value
        /\ table[Seed].value \in Nat /\ table[Seed].expire \in Nat /\ spent \in Nat
    BY <2>2 DEF RowInv, RowIsHistory, TypeOK, Row
  <2>5. IF ends < start[c]
        THEN ends' = start[c] + Period /\ spent' = calc[c].allowed
        ELSE ends' = ends /\ spent' = spent + calc[c].allowed
    BY <1>1 DEF Commit
  <2>6. LET left == IF ends < start[c] THEN Value ELSE table[Seed].value
            got  == IF want[c] <= left THEN want[c] ELSE left
        IN  /\ calc[c].allowed = got /\ calc[c].value = left - got
            /\ calc[c].expire = IF ends < start[c] THEN start[c] + Period ELSE ends
    BY <2>1, <2>2, <2>4, ChargeCalc
  <2> QED
    BY <2>2, <2>3, <2>4, <2>5, <2>6, LimitAssumption DEF RowIsHistory
<1> QED
  BY <1>4, <1>5, <1>6, <1>7 DEF RowInv

LEMMA NextRowInv == TypeOK /\ RowInv /\ Configured /\ [Next]_vars => RowInv'
<1> SUFFICES ASSUME TypeOK, RowInv, Configured, [Next]_vars PROVE RowInv'
  OBVIOUS
<1> USE IdAssumption DEF TypeOK, RowInv, OneRow, LockedByWriter, WriterIsFresh, RowIsHistory
<1>1. CASE Tick \/ Configure
  BY <1>1 DEF Tick, Configure
<1>2. ASSUME NEW c \in Callers, Begin(c) PROVE RowInv'
  BY <1>2 DEF Begin
<1>3. ASSUME NEW c \in Callers, SelectNothing(c) \/ SelectNoConfig(c) PROVE RowInv'
  BY <1>3 DEF SelectNothing, SelectNoConfig, Configured, Seeded
<1>4. ASSUME NEW c \in Callers, SelectRow(c) PROVE RowInv'
  BY <1>4 DEF SelectRow
<1>5. ASSUME NEW c \in Callers, LockRow(c) PROVE RowInv'
  BY <1>5 DEF LockRow
<1>6. ASSUME NEW c \in Callers, Insert(c) PROVE RowInv'
  BY <1>6 DEF Insert
<1>7. ASSUME NEW c \in Callers, Update(c) PROVE RowInv'
  BY <1>7 DEF Update
<1>8. ASSUME NEW c \in Callers, Commit(c) PROVE RowInv'
  BY <1>8, CommitRowInv
<1>9. ASSUME NEW c \in Callers, DeadlockAbort(c) \/ Failure(c) PROVE RowInv'
  BY <1>9, RollbackRowInv
     DEF DeadlockAbort, Failure, StatementFails, CommitFails, Crash, RateLimitThrows, Ends,
         RollbackUnlimited, Returns
<1>10. CASE UNCHANGED vars
  BY <1>10 DEF vars
<1> QED
  BY <1>1, <1>2, <1>3, <1>4, <1>5, <1>6, <1>7, <1>8, <1>9, <1>10 DEF Next, Statement

(* The inductive invariant the theorems below rest on.                     *)
IInv == TypeOK /\ RowPicked /\ SeedLocked /\ Configured /\ (Seeded => RowInv)

LEMMA Invariance == Spec => []IInv
<1>1. Init => IInv
  <2> SUFFICES ASSUME Init PROVE IInv
    OBVIOUS
  <2>1. RowPicked /\ SeedLocked
    BY DEF Init, RowPicked, SeedLocked
  <2>2. Configured
    BY DEF Init, Configured
  <2> QED
    BY <2>1, <2>2, InitTypeOK, InitRowInv DEF IInv
<1>2. IInv /\ [Next]_vars => IInv'
  BY NextTypeOK, NextRowPicked, NextRowInv, SeedStays, ConfiguredStays DEF IInv
<1> QED
  BY <1>1, <1>2, PTL DEF Spec

(* Once the row exists, no interleaving of calls, no failure and no crash  *)
(* makes the recorded grants of a window exceed the configured value.      *)
THEOREM QuotaIsRespected == Spec => []QuotaRespected
<1>1. IInv => QuotaRespected
  <2> SUFFICES ASSUME IInv, Seeded PROVE spent <= Value
    BY DEF QuotaRespected
  <2>1. spent \in Nat /\ table[Seed].value \in Nat /\ spent + table[Seed].value = Value
    BY DEF IInv, TypeOK, Row, RowInv, RowIsHistory
  <2> QED
    BY <2>1, LimitAssumption
<1> QED
  BY <1>1, Invariance, PTL

-----------------------------------------------------------------------------
(* What a commit does to the row, in the terms of Quota.                   *)
LEMMA CommitCharges ==
  ASSUME IInv, Seeded, NEW c \in Callers, Commit(c)
  PROVE  LET left == IF table[Seed].expire < start[c] THEN Value ELSE table[Seed].value
             got  == IF want[c] <= left THEN want[c] ELSE left
         IN  /\ calc[c].allowed = got
             /\ table'[Seed].value = left - got
             /\ table'[Seed].expire = IF table[Seed].expire < start[c] THEN start[c] + Period
                                      ELSE table[Seed].expire
             /\ present' = present
<1>1. TypeOK /\ RowInv
  BY DEF IInv
<1>2. at[c] = "commit" /\ lock[Seed] = c /\ {r \in RowId : lock[r] = c} = {Seed}
  BY <1>1, IdAssumption DEF Commit, RowInv, LockedByWriter, OneRow
<1>3. /\ table'[Seed] = [value |-> calc[c].value, expire |-> calc[c].expire]
      /\ present' = present
  BY <1>1, <1>2 DEF Commit, RowInv, OneRow
<1>4. /\ calc[c] = Charge(table[Seed], want[c], start[c])
      /\ table[Seed] \in Row /\ want[c] \in Nat /\ start[c] \in Nat
  BY <1>1, <1>2 DEF RowInv, WriterIsFresh, TypeOK
<1> QED
  BY <1>3, <1>4, ChargeCalc

(* Every step but a commit leaves the committed rows alone.                *)
LEMMA OnlyCommitWrites ==
  ASSUME IInv, Next, \A c \in Callers : ~Commit(c)
  PROVE  UNCHANGED <<present, table>>
<1>1. CASE Tick \/ Configure
  BY <1>1 DEF Tick, Configure
<1>2. ASSUME NEW c \in Callers, Begin(c) PROVE UNCHANGED <<present, table>>
  BY <1>2 DEF Begin
<1>3. ASSUME NEW c \in Callers, Statement(c) \/ LockRow(c) \/ Update(c)
      PROVE  UNCHANGED <<present, table>>
  BY <1>3 DEF Statement, SelectNoConfig, SelectNothing, SelectRow, Insert, DeadlockAbort, RollbackUnlimited,
              LockRow, Update
<1>4. ASSUME NEW c \in Callers, Failure(c) PROVE UNCHANGED <<present, table>>
  BY <1>4 DEF Failure, StatementFails, RollbackUnlimited, CommitFails, Crash, RateLimitThrows, Ends
<1> QED
  BY <1>1, <1>2, <1>3, <1>4 DEF Next

(* Once the row exists its window never ends earlier than announced and    *)
(* its rest never grows within a window.                                   *)
THEOREM RowOnlyMovesOn == Spec => WindowsOnlyMoveOn
<1>1. ASSUME IInv, Next, Seeded PROVE RowsMoveOn
  <2>1. present = {Seed} /\ table[Seed].value \in Nat /\ table[Seed].expire \in Nat
    BY <1>1 DEF IInv, RowInv, OneRow, TypeOK, Row
  <2>2. ASSUME NEW c \in Callers, Commit(c) PROVE RowsMoveOn
    <3>1. start[c] \in Nat /\ want[c] \in Nat
      BY <1>1 DEF IInv, TypeOK
    <3>2. /\ table'[Seed].expire >= table[Seed].expire
          /\ table'[Seed].expire = table[Seed].expire => table'[Seed].value <= table[Seed].value
      BY <1>1, <2>1, <2>2, <3>1, CommitCharges, LimitAssumption
    <3> QED
      BY <2>1, <3>2 DEF RowsMoveOn
  <2>3. CASE \A c \in Callers : ~Commit(c)
    BY <1>1, <2>1, <2>3, OnlyCommitWrites DEF RowsMoveOn
  <2> QED
    BY <2>2, <2>3
<1>2. IInv /\ [Next]_vars => [Seeded => RowsMoveOn]_vars
  BY <1>1
<1> QED
  BY <1>2, Invariance, PTL DEF Spec, WindowsOnlyMoveOn

-----------------------------------------------------------------------------
(* user_limit implements Quota.                                            *)
LEMMA CallStateStep ==
  ASSUME TypeOK, NEW c \in Callers, NEW s \in Stage, at' = [at EXCEPT ![c] = s]
  PROVE  /\ CallState[c] = IF at[c] \in {"idle", "threw"} THEN "none"
                           ELSE IF at[c] = "answered" THEN "answered" ELSE "asking"
         /\ CallState' = [CallState EXCEPT ![c] = IF s \in {"idle", "threw"} THEN "none"
                                                  ELSE IF s = "answered" THEN "answered" ELSE "asking"]
<1> DEFINE View(x) == IF x \in {"idle", "threw"} THEN "none"
                    ELSE IF x = "answered" THEN "answered" ELSE "asking"
<1>1. CallState = [d \in Callers |-> View(at[d])]
  BY DEF CallState
<1>2. CallState' = [d \in Callers |-> View(at'[d])]
  BY DEF CallState
<1>3. \A d \in Callers : at'[d] = IF d = c THEN s ELSE at[d]
  BY DEF TypeOK
<1> HIDE DEF View
<1>4. CallState' = [CallState EXCEPT ![c] = View(s)]
  BY <1>1, <1>2, <1>3
<1>5. CallState[c] = View(at[c])
  BY <1>1
<1> QED
  BY <1>4, <1>5 DEF View

LEMMA InitSerial == Init => Serial!Init
<1> SUFFICES ASSUME Init PROVE Serial!Init
  OBVIOUS
<1>1. PICK v \in 0..Value, e \in 0..MaxTime : table = [r \in RowId |-> [value |-> v, expire |-> e]]
  BY DEF Init
<1>2. table[Seed].value \in 0..Value /\ table[Seed].expire \in Nat
  BY <1>1, LimitAssumption
<1>3. CallState = [c \in Callers |-> "none"]
  BY DEF Init, CallState
<1> QED
  BY <1>2, <1>3 DEF Init, Serial!Init

LEMMA StepSerial == Seeded /\ IInv /\ [Next]_vars => [Serial!Next]_(Serial!vars)
<1> SUFFICES ASSUME Seeded, IInv, [Next]_vars PROVE [Serial!Next]_(Serial!vars)
  OBVIOUS
<1>0. TypeOK /\ RowInv
  BY DEF IInv
<1>12. CASE Configure
  BY <1>12 DEF Configure, Serial!vars, CallState
<1>1. CASE Tick
  <2>1. Serial!Tick
    BY <1>1 DEF Tick, Serial!Tick, CallState
  <2> QED
    BY <2>1 DEF Serial!Next
<1>2. ASSUME NEW c \in Callers, Begin(c) PROVE [Serial!Next]_(Serial!vars)
  <2>1. /\ at[c] \in {"idle", "answered", "threw"} /\ at' = [at EXCEPT ![c] = "select"]
    BY <1>2 DEF Begin
  <2>2. CallState[c] # "asking" /\ CallState' = [CallState EXCEPT ![c] = "asking"]
    BY <1>0, <2>1, CallStateStep DEF Stage
  <2>3. Serial!Ask(c)
    BY <1>2, <2>2 DEF Begin, Serial!Ask
  <2> QED
    BY <2>3 DEF Serial!Next
<1>3. ASSUME NEW c \in Callers, NEW s \in {"lock", "insert", "update", "commit"},
             at[c] \in InTransaction, at' = [at EXCEPT ![c] = s],
             UNCHANGED <<clock, table, want, start, answer>>
      PROVE  [Serial!Next]_(Serial!vars)
  <2>1. CallState[c] = "asking" /\ CallState' = [CallState EXCEPT ![c] = "asking"]
    BY <1>0, <1>3, CallStateStep DEF Stage, InTransaction
  <2>2. CallState' = CallState
    BY <2>1 DEF CallState
  <2> QED
    BY <1>3, <2>2 DEF Serial!vars
<1>4. ASSUME NEW c \in Callers, NEW a, at[c] \in InTransaction, Returns(c, a)
      PROVE  Serial!Answered(c, a)
  <2>1. at' = [at EXCEPT ![c] = "answered"]
    BY <1>4 DEF Returns
  <2>2. CallState[c] = "asking" /\ CallState' = [CallState EXCEPT ![c] = "answered"]
    BY <1>0, <1>4, <2>1, CallStateStep DEF Stage, InTransaction
  <2> QED
    BY <1>4, <2>2 DEF Returns, Over, Serial!Answered, Serial!Done
<1>5. ASSUME NEW c \in Callers, RollbackUnlimited(c), at[c] \in InTransaction
      PROVE  [Serial!Next]_(Serial!vars)
  <2>1. Serial!FailOpen(c)
    BY <1>4, <1>5 DEF RollbackUnlimited, Serial!FailOpen
  <2> QED
    BY <2>1 DEF Serial!Next
<1>6. ASSUME NEW c \in Callers, CommitFails(c) PROVE [Serial!Next]_(Serial!vars)
  <2>1. calc[c] = Charge(table[Seed], want[c], start[c])
    BY <1>0, <1>6 DEF CommitFails, RowInv, WriterIsFresh
  <2>2. table[Seed] \in Row /\ want[c] \in Nat /\ start[c] \in Nat
    BY <1>0 DEF TypeOK
  <2>3. calc[c].allowed = Serial!Share(c)
    BY <2>1, <2>2, ChargeCalc DEF Serial!Share, Serial!Available
  <2>4. Serial!ServeUnrecorded(c)
    BY <1>4, <1>6, <2>3 DEF CommitFails, InTransaction, Serial!ServeUnrecorded
  <2> QED
    BY <2>4 DEF Serial!Next
<1>7. ASSUME NEW c \in Callers, Commit(c) PROVE [Serial!Next]_(Serial!vars)
  <2>1. /\ calc[c].allowed = Serial!Share(c)
        /\ table'[Seed].value = Serial!Available(c) - Serial!Share(c)
        /\ table'[Seed].expire = IF table[Seed].expire < start[c] THEN start[c] + Period
                                 ELSE table[Seed].expire
    BY <1>7, CommitCharges DEF Serial!Share, Serial!Available
  <2>2. Serial!Answered(c, Serial!Share(c))
    BY <1>4, <1>7, <2>1 DEF Commit, InTransaction
  <2>3. Serial!Serve(c)
    BY <2>1, <2>2 DEF Serial!Serve
  <2> QED
    BY <2>3 DEF Serial!Next
<1>8. ASSUME NEW c \in Callers, NEW s \in {"idle", "threw"}, Ends(c, s)
      PROVE  [Serial!Next]_(Serial!vars)
  <2>1. at[c] \in InTransaction /\ at' = [at EXCEPT ![c] = s]
    BY <1>8 DEF Ends
  <2>2. CallState[c] = "asking" /\ CallState' = [CallState EXCEPT ![c] = "none"]
    BY <1>0, <2>1, CallStateStep DEF Stage, InTransaction
  <2>3. Serial!Vanish(c)
    BY <1>8, <2>2 DEF Ends, Over, Serial!Vanish, Serial!Done
  <2> QED
    BY <2>3 DEF Serial!Next
<1>13. ASSUME NEW c \in Callers, SelectNoConfig(c) PROVE [Serial!Next]_(Serial!vars)
  BY <1>13 DEF SelectNoConfig, IInv, Configured
<1>9. ASSUME NEW c \in Callers,
             SelectNothing(c) \/ SelectRow(c) \/ LockRow(c) \/ Insert(c) \/ Update(c)
      PROVE  [Serial!Next]_(Serial!vars)
  BY <1>3, <1>9 DEF SelectNothing, SelectRow, LockRow, Insert, Update, InTransaction
<1>10. ASSUME NEW c \in Callers, DeadlockAbort(c) \/ StatementFails(c)
       PROVE  [Serial!Next]_(Serial!vars)
  BY <1>5, <1>10 DEF DeadlockAbort, Deadlocked, StatementFails, InTransaction
<1>11. CASE UNCHANGED vars
  BY <1>11 DEF vars, Serial!vars, CallState
<1> QED
  BY <1>1, <1>2, <1>6, <1>7, <1>8, <1>9, <1>10, <1>11, <1>12, <1>13
     DEF Next, Statement, Failure, Crash, RateLimitThrows

(* Once the row exists concurrent calls of user_limit are answered as if   *)
(* they had come one at a time.                                            *)
THEOREM RateLimitImplementsQuota == Spec => ImplementsQuota
<1>1. Init => Serial!Init
  BY InitSerial
<1>2. IInv /\ [Next]_vars => [Seeded => Serial!Next]_(Serial!vars)
  BY StepSerial
<1> QED
  BY <1>1, <1>2, Invariance, PTL DEF Spec, ImplementsQuota

-----------------------------------------------------------------------------
(* Who holds row locks: a call about to update holds the row it found, and *)
(* every holder is past its SELECT.  A row that is not committed yet is    *)
(* locked by the call it is named after, which has inserted it.            *)
Holding ==
    /\ \A c \in Callers : at[c] = "update" => lock[found[c]] = c
    /\ \A r \in RowId, c \in Callers : lock[r] = c => at[c] \in {"update", "commit"}
    /\ \A r \in RowId, c \in Callers : lock[r] = c => r \in present \/ (r = c /\ at[c] = "commit")
    /\ \A c \in Callers : at[c] = "insert" => c \notin present

(* A call that ends has given back whatever it held.                       *)
LEMMA EndHolding ==
  ASSUME TypeOK, RowPicked, Holding, NEW c \in Callers, NEW s \in {"idle", "answered", "threw"},
         at' = [at EXCEPT ![c] = s], lock' = Unlocked(c),
         found' = [found EXCEPT ![c] = NoRow],
         present' = present \cup {r \in RowId : lock[r] = c} \/ present' = present
  PROVE  Holding'
<1> USE IdAssumption DEF TypeOK
<1>1. ASSUME NEW d \in Callers, at'[d] = "update" PROVE lock'[found'[d]] = d
  <2>1. d # c /\ at[d] = "update" /\ found'[d] = found[d]
    BY <1>1
  <2>2. lock[found[d]] = d /\ found[d] \in RowId
    BY <2>1 DEF Holding, RowPicked
  <2> QED
    BY <2>1, <2>2 DEF Unlocked
<1>2. ASSUME NEW r \in RowId, NEW d \in Callers, lock'[r] = d
      PROVE  d # c /\ lock[r] = d /\ at'[d] = at[d]
  BY <1>2 DEF Unlocked
<1>3. ASSUME NEW d \in Callers, at'[d] = "insert" PROVE d \notin present'
  <2>1. d # c /\ at[d] = "insert" /\ d \notin present
    BY <1>3 DEF Holding
  <2>2. lock[d] # c
    BY <2>1 DEF Holding
  <2> QED
    BY <2>1, <2>2
<1> QED
  BY <1>1, <1>2, <1>3 DEF Holding

LEMMA NextHolding == TypeOK /\ RowPicked /\ Holding /\ [Next]_vars => Holding'
<1> SUFFICES ASSUME TypeOK, RowPicked, Holding, [Next]_vars PROVE Holding'
  OBVIOUS
<1> USE IdAssumption DEF TypeOK
<1>1. CASE Tick \/ Configure
  BY <1>1 DEF Tick, Configure, Holding
<1>2. ASSUME NEW c \in Callers, Begin(c) PROVE Holding'
  BY <1>2 DEF Begin, Holding
<1>3. ASSUME NEW c \in Callers, SelectNothing(c) \/ SelectNoConfig(c) PROVE Holding'
  BY <1>3 DEF SelectNothing, SelectNoConfig, Holding
<1>4. ASSUME NEW c \in Callers, SelectRow(c) PROVE Holding'
  BY <1>4 DEF SelectRow, Holding
<1>5. ASSUME NEW c \in Callers, LockRow(c) PROVE Holding'
  <2>1. found[c] \in present /\ found' = found /\ present' = present
    BY <1>5 DEF LockRow, RowPicked
  <2>2. \A d \in Callers : d # c /\ at[d] = "update" => found[d] # found[c]
    BY <1>5, <2>1 DEF LockRow, Holding
  <2> QED
    BY <1>5, <2>1, <2>2 DEF LockRow, Holding
<1>6. ASSUME NEW c \in Callers, Insert(c) PROVE Holding'
  <2>1. at[c] = "insert" /\ c \notin present /\ lock[c] = Nobody
    BY <1>6 DEF Insert, Holding
  <2> QED
    BY <1>6, <2>1 DEF Insert, Holding, RowPicked
<1>7. ASSUME NEW c \in Callers, Update(c) PROVE Holding'
  <2>1. \A d \in Callers : d # c => at[d] # "update"
    BY <1>7 DEF Update, Holding, RowPicked
  <2> QED
    BY <1>7, <2>1 DEF Update, Holding
<1>8. ASSUME NEW c \in Callers, Commit(c) PROVE Holding'
  BY <1>8, EndHolding DEF Commit, Returns, Over
<1>9. ASSUME NEW c \in Callers, DeadlockAbort(c) \/ Failure(c) PROVE Holding'
  BY <1>9, EndHolding
     DEF DeadlockAbort, Failure, StatementFails, CommitFails, Crash, RateLimitThrows, Ends,
         RollbackUnlimited, Returns, Over
<1>10. CASE UNCHANGED vars
  BY <1>10 DEF vars, Holding
<1> QED
  BY <1>1, <1>2, <1>3, <1>4, <1>5, <1>6, <1>7, <1>8, <1>9, <1>10 DEF Next, Statement

LEMMA AlwaysHolding == Spec => []Holding
<1>1. Init => Holding
  BY IdAssumption DEF Init, Holding
<1>2. Holding /\ IInv /\ [Next]_vars => Holding'
  BY NextHolding DEF IInv
<1> QED
  BY <1>1, <1>2, Invariance, PTL DEF Spec

-----------------------------------------------------------------------------
(* With the default database pool of one connection calls come one at a    *)
(* time, and the call that found no row inserts the only one.              *)
InserterAlone == /\ \A c \in Callers : at[c] = "insert" => found[c] = NoRow /\ present = {}
                 /\ InserterIsFirst

THEOREM OneConnectionInsertsFirst ==
  ASSUME NEW only, Callers = {only}
  PROVE  Spec => []InserterIsFirst
<1>1. Init => InserterAlone
  BY DEF Init, InserterAlone, InserterIsFirst
<1>2. ASSUME IInv, Holding, InserterAlone, [Next]_vars PROVE InserterAlone'
  <2> USE <1>2, IdAssumption DEF IInv, TypeOK, RowPicked, InserterAlone, InserterIsFirst
  <2>1. CASE Tick \/ Configure
    BY <2>1 DEF Tick, Configure
  <2>2. ASSUME NEW c \in Callers, Begin(c) \/ SelectNothing(c) \/ SelectRow(c) PROVE InserterAlone'
    BY <2>2 DEF Begin, SelectNothing, SelectRow
  <2>8. ASSUME NEW c \in Callers, SelectNoConfig(c) PROVE InserterAlone'
    <3>1. lock[c] # c
      BY <2>8 DEF SelectNoConfig, Holding
    <3> QED
      BY <2>8, <3>1 DEF SelectNoConfig
  <2>3. ASSUME NEW c \in Callers, LockRow(c) \/ Insert(c) PROVE InserterAlone'
    BY <2>3 DEF LockRow, Insert
  <2>4. ASSUME NEW c \in Callers, Update(c) PROVE InserterAlone'
    <3>1. found[c] # NoRow
      BY <2>4 DEF Update, RowId
    <3> QED
      BY <2>4, <3>1 DEF Update
  <2>5. ASSUME NEW c \in Callers, Commit(c) PROVE InserterAlone'
    BY <2>5 DEF Commit, Returns, Over
  <2>6. ASSUME NEW c \in Callers, DeadlockAbort(c) \/ Failure(c) PROVE InserterAlone'
    BY <2>6 DEF DeadlockAbort, Failure, StatementFails, RollbackUnlimited, CommitFails, Crash,
                RateLimitThrows, Ends, Returns, Over
  <2>7. CASE UNCHANGED vars
    BY <2>7 DEF vars
  <2> QED
    BY <2>1, <2>2, <2>3, <2>4, <2>5, <2>6, <2>7, <2>8 DEF Next, Statement
<1>3. InserterAlone => InserterIsFirst
  BY DEF InserterAlone
<1> QED
  BY <1>1, <1>2, <1>3, Invariance, AlwaysHolding, PTL DEF Spec

-----------------------------------------------------------------------------
(* PostgreSQL can execute the statement c is at: it waits for no row, or   *)
(* is the victim of a deadlock.                                            *)
CanGo(c) == \/ at[c] \in {"select", "insert", "commit"}
            \/ at[c] = "lock" /\ lock[found[c]] \in {Nobody, c}
            \/ at[c] = "update" /\ \A r \in present : lock[r] \in {Nobody, c}
            \/ Deadlocked(c)

(* The safety half of EveryCallReturns: whatever rows there are, whoever   *)
(* calls and whatever failed before, a transaction can go on, or the one   *)
(* that has the row it waits for can: no lock is left behind by a call     *)
(* that is over, and no cycle of waiting is closed (authdb.cc:209-228).    *)
THEOREM NobodyIsStuck ==
  Spec => [](\A c \in Callers : at[c] \in InTransaction =>
                CanGo(c) \/ \E d \in Callers, r \in present : lock[r] = d /\ CanGo(d))
<1> DEFINE GoesOn == \A c \in Callers : at[c] \in InTransaction =>
                        CanGo(c) \/ \E d \in Callers, r \in present : lock[r] = d /\ CanGo(d)
<1>1. ASSUME TypeOK, RowPicked, Holding PROVE GoesOn
  <2> SUFFICES ASSUME NEW c \in Callers, at[c] \in InTransaction, ~CanGo(c)
               PROVE  \E d \in Callers, r \in present : lock[r] = d /\ CanGo(d)
    OBVIOUS
  <2>1. CASE at[c] = "update"
    <3>1. PICK r \in present : lock[r] \in Callers \ {c}
      BY <2>1, <1>1 DEF CanGo, TypeOK
    <3>2. at[lock[r]] \in {"update", "commit"}
      BY <3>1, <1>1 DEF Holding, TypeOK
    <3>3. lock[found[c]] = c /\ found[c] \in present
      BY <2>1, <1>1 DEF Holding, RowPicked
    <3>4. at[lock[r]] # "update"
      BY <2>1, <3>1, <3>3 DEF CanGo, Deadlocked
    <3> QED
      BY <3>1, <3>2, <3>4 DEF CanGo
  <2>2. CASE at[c] = "lock"
    <3>1. found[c] \in present /\ lock[found[c]] \in Callers \ {c}
      BY <2>2, <1>1 DEF CanGo, RowPicked, TypeOK
    <3> DEFINE d == lock[found[c]]
    <3>2. at[d] \in {"update", "commit"}
      BY <3>1, <1>1 DEF Holding, TypeOK
    <3>3. CASE CanGo(d)
      BY <3>1, <3>3
    <3>4. CASE ~CanGo(d)
      <4>1. at[d] = "update"
        BY <3>2, <3>4 DEF CanGo
      <4>2. PICK r \in present : lock[r] \in Callers \ {d}
        BY <4>1, <3>4, <1>1 DEF CanGo, TypeOK
      <4>3. at[lock[r]] \in {"update", "commit"}
        BY <4>2, <1>1 DEF Holding, TypeOK
      <4>4. at[lock[r]] # "update"
        BY <4>1, <4>2, <3>1, <3>4 DEF CanGo, Deadlocked
      <4> QED
        BY <4>2, <4>3, <4>4 DEF CanGo
    <3> QED
      BY <3>3, <3>4
  <2> QED
    BY <2>1, <2>2 DEF InTransaction, CanGo
<1>2. IInv /\ Holding => GoesOn
  BY <1>1 DEF IInv
<1> QED
  BY <1>2, Invariance, AlwaysHolding, PTL

(* Once the row is there it is the only lock: a call that has it never     *)
(* waits again, and PostgreSQL finds no deadlock to break                  *)
(* (ratelimit-1.sql:22-63).                                                *)
THEOREM OneRowOneWait ==
  Spec => [](Seeded => \A c \in Callers : /\ ~Deadlocked(c)
                                          /\ lock[Seed] = c => CanGo(c))
<1>1. IInv => (Seeded => \A c \in Callers : /\ ~Deadlocked(c)
                                            /\ lock[Seed] = c => CanGo(c))
  BY DEF IInv, RowInv, OneRow, LockedByWriter, Deadlocked, CanGo
<1> QED
  BY <1>1, Invariance, PTL
=============================================================================
