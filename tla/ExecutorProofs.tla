--------------------------- MODULE ExecutorProofs ---------------------------
(***************************************************************************)
(* Proofs about Executor, for any finite set of workers and any set of     *)
(* jobs.                                                                   *)
(***************************************************************************)
EXTENDS Executor, FiniteSetTheorems, TLAPS

-----------------------------------------------------------------------------
(* The type invariant: every variable of the executor keeps its type.      *)
LEMMA InitTypeOK == Init => TypeOK
<1> SUFFICES ASSUME Init PROVE TypeOK
  OBVIOUS
<1>1. queue \in Seq(Jobs)
  BY DEF Init
<1>2. job \in [Jobs -> JobState] /\ pc \in [Workers -> WorkerState]
  <2>1. PICK pool \in SUBSET Workers :
          pc = [w \in Workers |-> IF w \in pool THEN "acquire" ELSE "none"]
    BY DEF Init
  <2> QED
    BY <2>1 DEF Init, JobState, WorkerState
<1>3. held \in [Workers -> Jobs \cup {NoJob}]
  BY DEF Init
<1>4. done \in BOOLEAN /\ halter \in HalterState
  BY DEF Init, HalterState
<1> QED
  BY <1>1, <1>2, <1>3, <1>4 DEF TypeOK

LEMMA NextTypeOK == TypeOK /\ [Next]_vars => TypeOK'
<1> SUFFICES ASSUME TypeOK, [Next]_vars PROVE TypeOK'
  OBVIOUS
<1> USE DEF TypeOK, JobState, WorkerState, HalterState
<1>1. ASSUME NEW j \in Jobs, AddTest(j) PROVE TypeOK'
  BY <1>1 DEF AddTest
<1>2. ASSUME NEW j \in Jobs, AddPush(j) PROVE TypeOK'
  BY <1>2 DEF AddPush, NotifyOne, Waiting
<1>3. ASSUME NEW j \in Jobs, InlineReturn(j) PROVE TypeOK'
  BY <1>3 DEF InlineReturn
<1>4. ASSUME NEW w \in Workers, WorkerExit(w) PROVE TypeOK'
  BY <1>4 DEF WorkerExit
<1>5. ASSUME NEW w \in Workers, WorkerTake(w) PROVE TypeOK'
  BY <1>5 DEF WorkerTake
<1>6. ASSUME NEW w \in Workers, WorkerSleep(w) PROVE TypeOK'
  BY <1>6 DEF WorkerSleep
<1>7. ASSUME NEW w \in Workers, WorkerReturn(w) PROVE TypeOK'
  BY <1>7 DEF WorkerReturn
<1>8. ASSUME NEW w \in Workers, WorkerTest(w) PROVE TypeOK'
  BY <1>8 DEF WorkerTest
<1>9. ASSUME NEW w \in Workers, SpuriousWakeup(w) \/ WorkerCall(w) PROVE TypeOK'
  BY <1>9 DEF SpuriousWakeup, WorkerCall
<1>10. CASE HaltTest
  BY <1>10 DEF HaltTest
<1>11. CASE HaltClear
  BY <1>11 DEF HaltClear, NotifyAll
<1>12. CASE HaltJoined
  BY <1>12 DEF HaltJoined
<1>13. CASE UNCHANGED vars
  BY <1>13 DEF vars
<1> QED
  BY <1>1, <1>2, <1>3, <1>4, <1>5, <1>6, <1>7, <1>8, <1>9, <1>10, <1>11, <1>12, <1>13
     DEF Next, AddSteps, Worker, HaltSteps

(* Every variable keeps its type in every state of every execution.        *)
THEOREM TypeCorrect == Spec => []TypeOK
  BY InitTypeOK, NextTypeOK, PTL DEF Spec

-----------------------------------------------------------------------------
(* OneOwner is inductive relative to the type invariant.                   *)
LEMMA InitOneOwner == Init => OneOwner
<1> SUFFICES ASSUME Init PROVE OneOwner
  OBVIOUS
<1>1. \A w \in Workers : pc[w] \notin {"holding", "running"} /\ held[w] = NoJob
  BY DEF Init
<1> QED
  BY <1>1 DEF Init, OneOwner, QueuedOnce, RunByOne, WithWorker

LEMMA NextOneOwner == TypeOK /\ OneOwner /\ [Next]_vars => OneOwner'
<1> SUFFICES ASSUME TypeOK, OneOwner, [Next]_vars PROVE OneOwner'
  OBVIOUS
<1> USE NoJobIsNoJob DEF OneOwner, TypeOK, WithWorker
<1>1. ASSUME NEW j \in Jobs, AddTest(j) PROVE OneOwner'
  BY <1>1 DEF AddTest, QueuedOnce, RunByOne
<1>2. ASSUME NEW j \in Jobs, AddPush(j) PROVE OneOwner'
  <2>1. QueuedOnce'
    <3>1. \A i \in 1..Len(queue') : queue'[i] = IF i <= Len(queue) THEN queue[i] ELSE j
      BY <1>2 DEF AddPush
    <3>2. Len(queue') = Len(queue) + 1 /\ Len(queue) \in Nat
      BY <1>2 DEF AddPush
    <3>3. \A i \in 1..Len(queue) : queue[i] # j
      BY <1>2 DEF AddPush, QueuedOnce
    <3>4. ASSUME NEW k \in Jobs
          PROVE  job'[k] = "queued" <=> \E i \in 1..Len(queue') : queue'[i] = k
      <4>1. CASE k = j
        BY <1>2, <3>1, <3>2, <4>1 DEF AddPush
      <4>2. CASE k # j
        <5>1. job'[k] = job[k]
          BY <1>2, <4>2 DEF AddPush
        <5>2. (\E i \in 1..Len(queue') : queue'[i] = k) <=> \E i \in 1..Len(queue) : queue[i] = k
          BY <3>1, <3>2, <4>2
        <5> QED
          BY <5>1, <5>2 DEF QueuedOnce
      <4> QED
        BY <4>1, <4>2
    <3>5. \A i, k \in 1..Len(queue') : queue'[i] = queue'[k] => i = k
      BY <3>1, <3>2, <3>3 DEF QueuedOnce
    <3> QED
      BY <3>4, <3>5 DEF QueuedOnce
  <2>2. RunByOne'
    BY <1>2 DEF AddPush, NotifyOne, Waiting, RunByOne, WorkerState
  <2> QED
    BY <2>1, <2>2
<1>3. ASSUME NEW j \in Jobs, InlineReturn(j) PROVE OneOwner'
  BY <1>3 DEF InlineReturn, QueuedOnce, RunByOne
<1>4. ASSUME NEW w \in Workers, WorkerExit(w) PROVE OneOwner'
  BY <1>4 DEF WorkerExit, QueuedOnce, RunByOne
<1>5. ASSUME NEW w \in Workers, WorkerTake(w) PROVE OneOwner'
  <2> DEFINE h == Head(queue)
  <2>1. /\ Len(queue) \in Nat \ {0} /\ Len(queue') = Len(queue) - 1
        /\ h = queue[1] /\ h \in Jobs
        /\ \A i \in 1..Len(queue') : queue'[i] = queue[i + 1]
    BY <1>5 DEF WorkerTake
  <2>2. /\ job' = [job EXCEPT ![h] = "taken"]
        /\ job[h] = "queued"
        /\ held' = [held EXCEPT ![w] = h]
        /\ pc' = [pc EXCEPT ![w] = "holding"]
        /\ pc[w] = "acquire"
    BY <1>5, <2>1 DEF WorkerTake, QueuedOnce
  <2> HIDE DEF h
  <2>3. QueuedOnce'
    <3>1. ASSUME NEW k \in Jobs
          PROVE  job'[k] = "queued" <=> \E i \in 1..Len(queue') : queue'[i] = k
      <4>1. CASE k = h
        <5>1. \A i \in 1..Len(queue') : queue'[i] # h
          BY <2>1 DEF QueuedOnce
        <5> QED
          BY <2>2, <4>1, <5>1
      <4>2. CASE k # h
        <5>1. job'[k] = job[k]
          BY <2>2, <4>2
        <5>2. ASSUME NEW i \in 1..Len(queue), queue[i] = k
              PROVE  i - 1 \in 1..Len(queue') /\ queue'[i - 1] = k
          BY <2>1, <4>2, <5>2
        <5>3. ASSUME NEW i \in 1..Len(queue'), queue'[i] = k
              PROVE  i + 1 \in 1..Len(queue) /\ queue[i + 1] = k
          BY <2>1, <5>3
        <5> QED
          BY <5>1, <5>2, <5>3 DEF QueuedOnce
      <4> QED
        BY <4>1, <4>2
    <3>2. ASSUME NEW i \in 1..Len(queue'), NEW k \in 1..Len(queue'), queue'[i] = queue'[k]
          PROVE  i = k
      <4>1. i + 1 \in 1..Len(queue) /\ k + 1 \in 1..Len(queue) /\ queue[i + 1] = queue[k + 1]
        BY <2>1, <3>2
      <4> QED
        BY <4>1 DEF QueuedOnce
    <3> QED
      BY <3>1, <3>2 DEF QueuedOnce
  <2>4. \A v \in Workers : held[v] # h
    BY <2>1, <2>2 DEF RunByOne
  <2>5. RunByOne'
    BY <2>1, <2>2, <2>4 DEF RunByOne
  <2> QED
    BY <2>3, <2>5
<1>6. ASSUME NEW w \in Workers, WorkerSleep(w) PROVE OneOwner'
  BY <1>6 DEF WorkerSleep, QueuedOnce, RunByOne
<1>7. ASSUME NEW w \in Workers, WorkerReturn(w) PROVE OneOwner'
  <2>1. held[w] \in Jobs /\ job[held[w]] = "running"
    BY <1>7 DEF WorkerReturn, RunByOne
  <2>2. QueuedOnce'
    BY <1>7, <2>1 DEF WorkerReturn, QueuedOnce
  <2>3. RunByOne'
    BY <1>7, <2>1 DEF WorkerReturn, RunByOne
  <2> QED
    BY <2>2, <2>3
<1>14. ASSUME NEW w \in Workers, WorkerCall(w) PROVE OneOwner'
  <2>1. held[w] \in Jobs /\ job[held[w]] = "taken"
    BY <1>14 DEF WorkerCall, RunByOne
  <2>2. QueuedOnce'
    BY <1>14, <2>1 DEF WorkerCall, QueuedOnce
  <2>3. RunByOne'
    BY <1>14, <2>1 DEF WorkerCall, RunByOne
  <2> QED
    BY <2>2, <2>3
<1>8. ASSUME NEW w \in Workers, WorkerTest(w) PROVE OneOwner'
  BY <1>8 DEF WorkerTest, QueuedOnce, RunByOne
<1>9. ASSUME NEW w \in Workers, SpuriousWakeup(w) PROVE OneOwner'
  BY <1>9 DEF SpuriousWakeup, QueuedOnce, RunByOne
<1>10. CASE HaltTest
  BY <1>10 DEF HaltTest, QueuedOnce, RunByOne
<1>11. CASE HaltClear
  <2>1. QueuedOnce'
    BY <1>11 DEF HaltClear, QueuedOnce
  <2>2. RunByOne'
    BY <1>11 DEF HaltClear, NotifyAll, RunByOne
  <2> QED
    BY <2>1, <2>2
<1>12. CASE HaltJoined
  BY <1>12 DEF HaltJoined, QueuedOnce, RunByOne
<1>13. CASE UNCHANGED vars
  BY <1>13 DEF vars, QueuedOnce, RunByOne
<1> QED
  BY <1>1, <1>2, <1>3, <1>4, <1>5, <1>6, <1>7, <1>8, <1>9, <1>10, <1>11, <1>12, <1>13, <1>14
     DEF Next, AddSteps, Worker, HaltSteps

(* No job is ever lost from the queue, duplicated or run by two workers.   *)
THEOREM JobsHaveOneOwner == Spec => []OneOwner
<1>1. TypeOK /\ OneOwner /\ [Next]_vars => (TypeOK /\ OneOwner)'
  BY NextTypeOK, NextOneOwner
<1> QED
  BY InitTypeOK, InitOneOwner, <1>1, PTL DEF Spec

-----------------------------------------------------------------------------
(* How shutdown proceeds: done is set by halt() alone, no worker leaves    *)
(* its loop before, and halt() returns when all have.                      *)
Shutdown == /\ done <=> halter \in {"joining", "halted"}
            /\ \A w \in Workers : pc[w] = "exited" => done
            /\ halter = "halted" => \A w \in Started : pc[w] = "exited"

LEMMA InitShutdown == Init => Shutdown
  BY DEF Init, Shutdown, Started

LEMMA NextShutdown == TypeOK /\ Shutdown /\ [Next]_vars => Shutdown'
<1> SUFFICES ASSUME TypeOK, Shutdown, [Next]_vars PROVE Shutdown'
  OBVIOUS
<1> USE DEF TypeOK, Shutdown, Started
<1>1. ASSUME NEW j \in Jobs, AddTest(j) PROVE Shutdown'
  BY <1>1 DEF AddTest
<1>2. ASSUME NEW j \in Jobs, AddPush(j) PROVE Shutdown'
  BY <1>2 DEF AddPush, NotifyOne, Waiting
<1>3. ASSUME NEW j \in Jobs, InlineReturn(j) PROVE Shutdown'
  BY <1>3 DEF InlineReturn
<1>4. ASSUME NEW w \in Workers, WorkerExit(w) PROVE Shutdown'
  BY <1>4 DEF WorkerExit
<1>5. ASSUME NEW w \in Workers, WorkerTake(w) PROVE Shutdown'
  BY <1>5 DEF WorkerTake
<1>6. ASSUME NEW w \in Workers, WorkerSleep(w) PROVE Shutdown'
  BY <1>6 DEF WorkerSleep
<1>7. ASSUME NEW w \in Workers, WorkerReturn(w) PROVE Shutdown'
  BY <1>7 DEF WorkerReturn
<1>8. ASSUME NEW w \in Workers, WorkerTest(w) PROVE Shutdown'
  BY <1>8 DEF WorkerTest
<1>9. ASSUME NEW w \in Workers, SpuriousWakeup(w) \/ WorkerCall(w) PROVE Shutdown'
  BY <1>9 DEF SpuriousWakeup, WorkerCall
<1>10. CASE HaltTest
  BY <1>10 DEF HaltTest
<1>11. CASE HaltClear
  BY <1>11 DEF HaltClear, NotifyAll
<1>12. CASE HaltJoined
  BY <1>12 DEF HaltJoined
<1>13. CASE UNCHANGED vars
  BY <1>13 DEF vars
<1> QED
  BY <1>1, <1>2, <1>3, <1>4, <1>5, <1>6, <1>7, <1>8, <1>9, <1>10, <1>11, <1>12, <1>13
     DEF Next, AddSteps, Worker, HaltSteps

(* The inductive invariant the theorems below rest on.                     *)
IInv == TypeOK /\ OneOwner /\ Shutdown

LEMMA Invariance == Spec => []IInv
<1>1. Init => IInv
  BY InitTypeOK, InitOneOwner, InitShutdown DEF IInv
<1>2. IInv /\ [Next]_vars => IInv'
  BY NextTypeOK, NextOneOwner, NextShutdown DEF IInv
<1> QED
  BY <1>1, <1>2, PTL DEF Spec

(* The number of threads never changes, so that an executor without any    *)
(* never queues a job.                                                     *)
LEMMA StartedStays == TypeOK /\ [Next]_vars => Started' = Started
<1> SUFFICES ASSUME TypeOK, [Next]_vars PROVE Started' = Started
  OBVIOUS
<1> USE DEF TypeOK, Started
<1>1. ASSUME NEW j \in Jobs, AddTest(j) \/ AddSteps(j) PROVE Started' = Started
  BY <1>1 DEF AddTest, AddSteps, AddPush, InlineReturn, NotifyOne, Waiting
<1>2. ASSUME NEW w \in Workers, Worker(w) \/ SpuriousWakeup(w) PROVE Started' = Started
  BY <1>2 DEF Worker, WorkerExit, WorkerTake, WorkerSleep, WorkerCall, WorkerReturn, WorkerTest,
              SpuriousWakeup
<1>3. CASE HaltTest \/ HaltSteps
  BY <1>3 DEF HaltTest, HaltSteps, HaltClear, HaltJoined, NotifyAll
<1>4. CASE UNCHANGED vars
  BY <1>4 DEF vars
<1> QED
  BY <1>1, <1>2, <1>3, <1>4 DEF Next

(* Without threads nothing waits in a queue that nobody serves             *)
(* (executor.hh:99-102).                                                   *)
InlineStrandsNothing == Started = {} => /\ queue = <<>>
                                        /\ \A j \in Jobs : job[j] \notin {"queued", "checked"}

LEMMA InlineLeavesNothing == Spec => []InlineStrandsNothing
<1>1. Init => InlineStrandsNothing
  BY DEF Init, InlineStrandsNothing
<1>2. TypeOK /\ InlineStrandsNothing /\ [Next]_vars => InlineStrandsNothing'
  <2> SUFFICES ASSUME TypeOK, InlineStrandsNothing, [Next]_vars, Started' = {}
               PROVE  queue' = <<>> /\ \A j \in Jobs : job'[j] \notin {"queued", "checked"}
    BY DEF InlineStrandsNothing
  <2>1. Started = {} /\ queue = <<>> /\ \A j \in Jobs : job[j] \notin {"queued", "checked"}
    BY StartedStays DEF InlineStrandsNothing
  <2> USE DEF TypeOK
  <2>2. ASSUME NEW j \in Jobs, AddTest(j) \/ InlineReturn(j) \/ AddPush(j)
        PROVE  queue' = <<>> /\ \A k \in Jobs : job'[k] \notin {"queued", "checked"}
    BY <2>1, <2>2 DEF AddTest, InlineReturn, AddPush
  <2>3. ASSUME NEW w \in Workers, Worker(w) \/ SpuriousWakeup(w) PROVE FALSE
    BY <2>1, <2>3 DEF Started, Worker, WorkerExit, WorkerTake, WorkerSleep, WorkerCall, WorkerReturn,
                      WorkerTest, SpuriousWakeup
  <2>4. CASE HaltTest \/ HaltSteps \/ UNCHANGED vars
    BY <2>1, <2>4 DEF HaltTest, HaltSteps, HaltClear, HaltJoined, vars
  <2> QED
    BY <2>2, <2>3, <2>4 DEF Next, AddSteps
<1> QED
  BY <1>1, <1>2, TypeCorrect, PTL DEF Spec

(* Once halt() has returned no pool thread has a job in its hands, not     *)
(* even one that was taken before halt() set done and called after it.     *)
THEOREM HaltWaits == Spec => []HaltedIsQuiet
<1>1. IInv => HaltedIsQuiet
  <2> SUFFICES ASSUME IInv, halter = "halted", NEW j \in WithWorker PROVE FALSE
    BY DEF HaltedIsQuiet
  <2>1. \A w \in Started : pc[w] = "exited"
    BY DEF IInv, Shutdown
  <2>2. \A w \in Workers : held[w] = NoJob
    BY <2>1 DEF Started, IInv, OneOwner, RunByOne
  <2> QED
    BY <2>2, NoJobIsNoJob DEF IInv, OneOwner, RunByOne, WithWorker
<1> QED
  BY <1>1, Invariance, PTL

-----------------------------------------------------------------------------
(* Cardinality of the two wait sets when one worker moves between them.    *)
LEMMA AwakeFinite == IsFiniteSet(Awake) /\ Cardinality(Awake) \in Nat
<1>1. Awake \subseteq Workers
  BY DEF Awake
<1> QED
  BY <1>1, WorkersFinite, FS_Subset, FS_CardinalityType

LEMMA AwakeGrows ==
  ASSUME TypeOK, NEW w \in Waiting, pc' = [pc EXCEPT ![w] = "acquire"]
  PROVE  Cardinality(Awake') = Cardinality(Awake) + 1
<1>1. Awake' = Awake \cup {w} /\ w \notin Awake
  BY DEF Awake, Waiting, TypeOK
<1> QED
  BY <1>1, AwakeFinite, FS_AddElement

LEMMA AwakeShrinks ==
  ASSUME TypeOK, NEW w \in Awake, NEW s, s # "acquire", pc' = [pc EXCEPT ![w] = s]
  PROVE  Cardinality(Awake') = Cardinality(Awake) - 1
<1>1. Awake' = Awake \ {w}
  BY DEF Awake, TypeOK
<1> QED
  BY <1>1, AwakeFinite, FS_RemoveElement

LEMMA NextNoLostWakeup == IInv /\ NoLostWakeup /\ [Next]_vars => NoLostWakeup'
<1> SUFFICES ASSUME IInv, NoLostWakeup, [Next]_vars PROVE NoLostWakeup'
  OBVIOUS
<1>0. TypeOK /\ Shutdown /\ Len(queue) \in Nat /\ Cardinality(Awake) \in Nat
  BY AwakeFinite DEF IInv, TypeOK
<1>1. CASE UNCHANGED <<queue, done, pc>>
  BY <1>1 DEF NoLostWakeup, Waiting, Awake
<1>2. ASSUME NEW j \in Jobs, AddPush(j) PROVE NoLostWakeup'
  <2>1. Len(queue') = Len(queue) + 1 /\ done' = done
    BY <1>0, <1>2 DEF AddPush, TypeOK
  <2>2. CASE Waiting = {}
    <3>1. Waiting' = {}
      BY <1>2, <2>2 DEF AddPush, NotifyOne, Waiting
    <3> QED
      BY <3>1 DEF NoLostWakeup
  <2>3. CASE Waiting # {}
    <3>1. PICK w \in Waiting : pc' = [pc EXCEPT ![w] = "acquire"]
      BY <1>2, <2>3 DEF AddPush, NotifyOne
    <3>2. Cardinality(Awake') = Cardinality(Awake) + 1
      BY <1>0, <3>1, AwakeGrows
    <3>3. ~done'
      BY <2>1, <2>3 DEF NoLostWakeup
    <3> QED
      BY <1>0, <2>1, <2>3, <3>2, <3>3 DEF NoLostWakeup
  <2> QED
    BY <2>2, <2>3
<1>3. ASSUME NEW w \in Workers, WorkerExit(w) PROVE NoLostWakeup'
  <2>1. Waiting' = {} /\ done'
    BY <1>0, <1>3 DEF WorkerExit, NoLostWakeup, Waiting, TypeOK
  <2> QED
    BY <2>1 DEF NoLostWakeup
<1>4. ASSUME NEW w \in Workers, WorkerTake(w) PROVE NoLostWakeup'
  <2>1. Len(queue') = Len(queue) - 1 /\ ~done'
    BY <1>0, <1>4 DEF WorkerTake, TypeOK
  <2>2. Cardinality(Awake') = Cardinality(Awake) - 1
    BY <1>0, <1>4, AwakeShrinks DEF WorkerTake, Awake
  <2>3. Waiting' = Waiting
    BY <1>0, <1>4 DEF WorkerTake, Waiting, TypeOK
  <2> QED
    BY <1>0, <2>1, <2>2, <2>3 DEF NoLostWakeup
<1>5. ASSUME NEW w \in Workers, WorkerSleep(w) PROVE NoLostWakeup'
  <2>1. Len(queue') = 0 /\ ~done'
    BY <1>5 DEF WorkerSleep
  <2>2. Cardinality(Awake') = Cardinality(Awake) - 1
    BY <1>0, <1>5, AwakeShrinks DEF WorkerSleep, Awake
  <2>3. Cardinality(Awake) # 0
    BY <1>5, AwakeFinite, FS_EmptySet DEF WorkerSleep, Awake
  <2> QED
    BY <1>0, <2>1, <2>2, <2>3 DEF NoLostWakeup
<1>6. ASSUME NEW w \in Workers, SpuriousWakeup(w) PROVE NoLostWakeup'
  <2>1. w \in Waiting
    BY <1>6 DEF SpuriousWakeup, Waiting
  <2>2. ~done /\ Len(queue) <= Cardinality(Awake)
    BY <2>1 DEF NoLostWakeup
  <2>3. Cardinality(Awake') = Cardinality(Awake) + 1
    BY <1>0, <1>6, <2>1, AwakeGrows DEF SpuriousWakeup
  <2>4. queue' = queue /\ done' = done
    BY <1>6 DEF SpuriousWakeup
  <2> QED
    BY <1>0, <2>2, <2>3, <2>4 DEF NoLostWakeup
<1>7. ASSUME NEW w \in Workers, WorkerCall(w) \/ WorkerReturn(w) \/ WorkerTest(w)
      PROVE  NoLostWakeup'
  <2>1. queue' = queue /\ done' = done /\ Waiting' = Waiting
    BY <1>0, <1>7 DEF WorkerCall, WorkerReturn, WorkerTest, Waiting, TypeOK
  <2>2. Awake' = Awake \/ (w \in Workers \ Awake /\ Awake' = Awake \cup {w})
    BY <1>0, <1>7 DEF WorkerCall, WorkerReturn, WorkerTest, Awake, TypeOK
  <2>3. Cardinality(Awake') \in {Cardinality(Awake), Cardinality(Awake) + 1}
    BY <2>2, AwakeFinite, FS_AddElement
  <2> QED
    BY <1>0, <2>1, <2>3 DEF NoLostWakeup
<1>8. CASE HaltClear
  <2>1. Waiting' = {}
    BY <1>0, <1>8 DEF HaltClear, NotifyAll, Waiting, TypeOK
  <2> QED
    BY <2>1 DEF NoLostWakeup
<1> QED
  BY <1>1, <1>2, <1>3, <1>4, <1>5, <1>6, <1>7, <1>8
     DEF Next, AddSteps, Worker, HaltSteps, AddTest, InlineReturn, HaltTest, HaltJoined, vars

(* No wake-up is lost: while a worker sleeps, enough others are awake for  *)
(* every job in the queue, and none sleeps through the shutdown.           *)
THEOREM WakeupsReachWorkers == Spec => []NoLostWakeup
<1>1. Init => NoLostWakeup
  <2> SUFFICES ASSUME Init PROVE NoLostWakeup
    OBVIOUS
  <2>1. Waiting = {} /\ ~done
    BY DEF Init, Waiting
  <2> QED
    BY <2>1 DEF NoLostWakeup
<1> QED
  BY <1>1, NextNoLostWakeup, Invariance, PTL DEF Spec

(* The safety half of AcceptedJobRuns and HaltReturns: while a job is in   *)
(* the queue of a running pool some thread is on its way to the queue, or  *)
(* has a job it comes back from; and while halt() waits, each thread it    *)
(* waits for is (executor.hh:40-60, 69-82).                                *)
Serves(w) == pc[w] \in {"acquire", "holding", "running", "test"}

THEOREM NobodyIsStranded ==
  Spec => [](/\ queue # <<>> /\ ~done => \E w \in Workers : Serves(w)
             /\ halter = "joining" => \A w \in Started : Serves(w) \/ pc[w] = "exited")
<1>1. ASSUME IInv, NoLostWakeup, InlineStrandsNothing, queue # <<>>, ~done
      PROVE  \E w \in Workers : Serves(w)
  <2>1. PICK w \in Workers : pc[w] # "none"
    BY <1>1 DEF InlineStrandsNothing, Started
  <2>2. CASE Waiting = {}
    <3>1. pc[w] # "waiting" /\ pc[w] # "exited" /\ pc[w] \in WorkerState
      BY <1>1, <2>2 DEF Waiting, IInv, Shutdown, TypeOK
    <3> QED
      BY <2>1, <3>1 DEF WorkerState, Serves
  <2>3. CASE Waiting # {}
    <3>1. Len(queue) \in Nat /\ Len(queue) > 0
      BY <1>1 DEF IInv, TypeOK
    <3>2. Cardinality(Awake) # 0
      BY <1>1, <2>3, <3>1 DEF NoLostWakeup
    <3>3. Awake # {}
      BY <3>2, FS_EmptySet
    <3> QED
      BY <3>3 DEF Awake, Serves
  <2> QED
    BY <2>2, <2>3
<1>2. ASSUME IInv, NoLostWakeup, halter = "joining", NEW w \in Started
      PROVE  Serves(w) \/ pc[w] = "exited"
  BY <1>2 DEF IInv, Shutdown, NoLostWakeup, Waiting, Started, TypeOK, WorkerState, Serves
<1>3. IInv /\ NoLostWakeup /\ InlineStrandsNothing
        => /\ queue # <<>> /\ ~done => \E w \in Workers : Serves(w)
           /\ halter = "joining" => \A w \in Started : Serves(w) \/ pc[w] = "exited"
  BY <1>1, <1>2
<1> QED
  BY <1>3, Invariance, WakeupsReachWorkers, InlineLeavesNothing, PTL

-----------------------------------------------------------------------------
(* The executor implements TaskPool.                                       *)
LEMMA StatusValues ==
  ASSUME NEW closed \in BOOLEAN
  PROVE  /\ StatusOf("new", closed) = "new" /\ StatusOf("checked", closed) = "new"
         /\ StatusOf("queued", TRUE) = "dropped" /\ StatusOf("queued", FALSE) = "pending"
         /\ StatusOf("refused", closed) = "dropped" /\ StatusOf("cleared", closed) = "dropped"
         /\ StatusOf("taken", closed) = "taken" /\ StatusOf("running", closed) = "taken"
         /\ StatusOf("inline", closed) = "called"
         /\ StatusOf("ran", closed) = "finished"
  BY DEF StatusOf

(* A step of one job changes the status of that job only.                  *)
LEMMA StatusStep ==
  ASSUME TypeOK, NEW j \in Jobs, NEW s,
         job' = [job EXCEPT ![j] = s], done' = done
  PROVE  /\ PoolStatus[j] = StatusOf(job[j], done)
         /\ PoolStatus' = [PoolStatus EXCEPT ![j] = StatusOf(s, done)]
<1>1. PoolStatus' = [k \in Jobs |-> StatusOf(job'[k], done)]
  BY DEF PoolStatus
<1>2. \A k \in Jobs : job'[k] = IF k = j THEN s ELSE job[k]
  BY DEF TypeOK
<1>3. PoolStatus' = [k \in Jobs |-> IF k = j THEN StatusOf(s, done) ELSE StatusOf(job[k], done)]
  BY <1>1, <1>2
<1> QED
  BY <1>3 DEF PoolStatus

LEMMA InitPool == Init => Pool!Init
<1> SUFFICES ASSUME Init PROVE Pool!Init
  OBVIOUS
<1>1. PoolStatus = [j \in Jobs |-> StatusOf("new", FALSE)]
  BY DEF Init, PoolStatus
<1>2. PoolStatus = [j \in Jobs |-> "new"]
  BY <1>1, StatusValues
<1> QED
  BY <1>2 DEF Init, Pool!Init

LEMMA StepPool == IInv /\ [Next]_vars => [Pool!Next]_(Pool!vars)
<1> SUFFICES ASSUME IInv, [Next]_vars PROVE [Pool!Next]_(Pool!vars)
  OBVIOUS
<1>0. TypeOK /\ OneOwner /\ Shutdown /\ done \in BOOLEAN
  BY DEF IInv, TypeOK
<1>1. ASSUME NEW j \in Jobs, AddTest(j) PROVE [Pool!Next]_(Pool!vars)
  <2> DEFINE s == IF done THEN "refused" ELSE IF Started = {} THEN "inline" ELSE "checked"
  <2>1. job[j] = "new" /\ job' = [job EXCEPT ![j] = s] /\ UNCHANGED <<done, halter>>
    BY <1>1 DEF AddTest
  <2>2. StatusOf(job[j], done) = "new"
    BY <1>0, <2>1, StatusValues
  <2>3. CASE done
    <3>1. StatusOf(s, done) = "dropped"
      BY <1>0, <2>3, StatusValues
    <3>2. PoolStatus[j] = "new" /\ PoolStatus' = [PoolStatus EXCEPT ![j] = "dropped"]
      BY <1>0, <2>1, <2>2, <3>1, StatusStep
    <3>3. Pool!Drop(j)
      BY <2>1, <2>3, <3>2 DEF Pool!Drop
    <3> QED
      BY <3>3 DEF Pool!Next
  <2>4. CASE ~done /\ Started = {}
    <3>1. StatusOf(s, done) = "called"
      BY <1>0, <2>4, StatusValues
    <3>2. PoolStatus[j] = "new" /\ PoolStatus' = [PoolStatus EXCEPT ![j] = "called"]
      BY <1>0, <2>1, <2>2, <3>1, StatusStep
    <3>3. Pool!Call(j)
      BY <2>1, <3>2 DEF Pool!Call
    <3> QED
      BY <3>3 DEF Pool!Next
  <2>5. CASE ~done /\ Started # {}
    <3>1. StatusOf(s, done) = "new"
      BY <1>0, <2>5, StatusValues
    <3>2. PoolStatus[j] = "new" /\ PoolStatus' = [PoolStatus EXCEPT ![j] = "new"]
      BY <1>0, <2>1, <2>2, <3>1, StatusStep
    <3>3. PoolStatus' = PoolStatus
      BY <3>2 DEF PoolStatus
    <3> QED
      BY <2>1, <3>3 DEF Pool!vars
  <2> QED
    BY <2>3, <2>4, <2>5
<1>2. ASSUME NEW j \in Jobs, AddPush(j) PROVE [Pool!Next]_(Pool!vars)
  <2>1. job[j] = "checked" /\ job' = [job EXCEPT ![j] = "queued"] /\ UNCHANGED <<done, halter>>
    BY <1>2 DEF AddPush
  <2>2. StatusOf(job[j], done) = "new"
    BY <1>0, <2>1, StatusValues
  <2>3. CASE done
    <3>1. StatusOf("queued", done) = "dropped"
      BY <1>0, <2>3, StatusValues
    <3>2. PoolStatus[j] = "new" /\ PoolStatus' = [PoolStatus EXCEPT ![j] = "dropped"]
      BY <1>0, <2>1, <2>2, <3>1, StatusStep
    <3>3. Pool!Drop(j)
      BY <2>1, <2>3, <3>2 DEF Pool!Drop
    <3> QED
      BY <3>3 DEF Pool!Next
  <2>4. CASE ~done
    <3>1. StatusOf("queued", done) = "pending"
      BY <1>0, <2>4, StatusValues
    <3>2. PoolStatus[j] = "new" /\ PoolStatus' = [PoolStatus EXCEPT ![j] = "pending"]
      BY <1>0, <2>1, <2>2, <3>1, StatusStep
    <3>3. Pool!Accept(j)
      BY <2>1, <2>4, <3>2 DEF Pool!Accept
    <3> QED
      BY <3>3 DEF Pool!Next
  <2> QED
    BY <2>3, <2>4
<1>3. ASSUME NEW j \in Jobs, job[j] \in {"running", "inline"},
             job' = [job EXCEPT ![j] = "ran"], UNCHANGED <<done, halter>>
      PROVE  Pool!Finish(j)
  <2>1. /\ StatusOf(job[j], done) \in {"taken", "called"}
        /\ StatusOf("ran", done) = "finished"
    BY <1>0, <1>3, StatusValues
  <2>2. PoolStatus[j] \in {"taken", "called"} /\ PoolStatus' = [PoolStatus EXCEPT ![j] = "finished"]
    BY <1>0, <1>3, <2>1, StatusStep
  <2> QED
    BY <1>3, <2>2 DEF Pool!Finish
<1>4. ASSUME NEW w \in Workers, WorkerTake(w) PROVE [Pool!Next]_(Pool!vars)
  <2> DEFINE h == Head(queue)
  <2>1. h \in Jobs /\ job[h] = "queued"
    <3>1. 1 \in 1..Len(queue) /\ h = queue[1] /\ h \in Jobs
      BY <1>0, <1>4 DEF WorkerTake, TypeOK
    <3> QED
      BY <1>0, <3>1 DEF OneOwner, QueuedOnce
  <2>2. job' = [job EXCEPT ![h] = "taken"] /\ UNCHANGED <<done, halter>> /\ ~done
    BY <1>4 DEF WorkerTake
  <2> HIDE DEF h
  <2>3. StatusOf(job[h], done) = "pending" /\ StatusOf("taken", done) = "taken"
    BY <1>0, <2>1, <2>2, StatusValues
  <2>4. PoolStatus[h] = "pending" /\ PoolStatus' = [PoolStatus EXCEPT ![h] = "taken"]
    BY <1>0, <2>1, <2>2, <2>3, StatusStep
  <2>5. Pool!Take(h)
    BY <2>2, <2>4 DEF Pool!Take
  <2> QED
    BY <2>1, <2>5 DEF Pool!Next
<1>5. ASSUME NEW w \in Workers, WorkerReturn(w) PROVE [Pool!Next]_(Pool!vars)
  <2>1. held[w] \in Jobs /\ job[held[w]] = "running"
    BY <1>0, <1>5 DEF WorkerReturn, OneOwner, RunByOne
  <2>2. job' = [job EXCEPT ![held[w]] = "ran"] /\ UNCHANGED <<done, halter>>
    BY <1>5 DEF WorkerReturn
  <2>3. Pool!Finish(held[w])
    BY <1>3, <2>1, <2>2
  <2> QED
    BY <2>1, <2>3 DEF Pool!Next
<1>6. ASSUME NEW j \in Jobs, InlineReturn(j) PROVE [Pool!Next]_(Pool!vars)
  <2>1. Pool!Finish(j)
    BY <1>3, <1>6 DEF InlineReturn
  <2> QED
    BY <2>1 DEF Pool!Next
<1>7. CASE UNCHANGED <<job, done>> /\ (halter' = "halted" <=> halter = "halted")
  BY <1>7 DEF Pool!vars, PoolStatus
<1>8. CASE HaltClear
  <2>1. ~done /\ halter # "halted" /\ halter' # "halted" /\ done'
    BY <1>0, <1>8 DEF HaltClear, Shutdown
  <2>2. \A j \in Jobs : StatusOf(job'[j], TRUE) =
            IF StatusOf(job[j], FALSE) = "pending" THEN "dropped" ELSE StatusOf(job[j], FALSE)
    <3> SUFFICES ASSUME NEW j \in Jobs
                 PROVE  StatusOf(job'[j], TRUE) =
                          IF StatusOf(job[j], FALSE) = "pending" THEN "dropped"
                          ELSE StatusOf(job[j], FALSE)
      OBVIOUS
    <3>1. job'[j] = IF job[j] = "queued" THEN "cleared" ELSE job[j]
      BY <1>8 DEF HaltClear
    <3>2. job[j] \in JobState
      BY <1>0 DEF TypeOK
    <3>3. CASE job[j] = "queued"
      BY <3>1, <3>3, StatusValues
    <3>4. CASE job[j] # "queued"
      BY <3>1, <3>2, <3>4, StatusValues DEF JobState
    <3> QED
      BY <3>3, <3>4
  <2>3. /\ PoolStatus = [j \in Jobs |-> StatusOf(job[j], FALSE)]
        /\ PoolStatus' = [j \in Jobs |-> StatusOf(job'[j], TRUE)]
    BY <1>0, <2>1 DEF PoolStatus, HaltClear
  <2>4. PoolStatus' = [j \in Jobs |-> IF PoolStatus[j] = "pending" THEN "dropped" ELSE PoolStatus[j]]
    BY <2>2, <2>3
  <2>5. Pool!Close
    BY <2>1, <2>4 DEF Pool!Close
  <2> QED
    BY <2>5 DEF Pool!Next
<1>9. CASE HaltJoined
  <2>1. \A j \in Jobs : job[j] # "running" /\ job[j] # "taken"
    BY <1>0, <1>9, NoJobIsNoJob DEF HaltJoined, Started, OneOwner, RunByOne, WithWorker
  <2>2. \A j \in Jobs : StatusOf(job[j], done) # "taken"
    BY <1>0, <2>1, StatusValues DEF TypeOK, JobState
  <2>3. \A j \in Jobs : PoolStatus[j] # "taken"
    BY <2>2 DEF PoolStatus
  <2>4. PoolStatus' = PoolStatus /\ done /\ done' = done /\ halter = "joining" /\ halter' = "halted"
    BY <1>0, <1>9 DEF HaltJoined, PoolStatus, Shutdown
  <2>5. Pool!Stop
    BY <2>3, <2>4 DEF Pool!Stop
  <2> QED
    BY <2>5 DEF Pool!Next
<1>13. ASSUME NEW w \in Workers, WorkerCall(w) PROVE [Pool!Next]_(Pool!vars)
  <2>1. held[w] \in Jobs /\ job[held[w]] = "taken"
    BY <1>0, <1>13 DEF WorkerCall, OneOwner, RunByOne
  <2>2. job' = [job EXCEPT ![held[w]] = "running"] /\ UNCHANGED <<done, halter>>
    BY <1>13 DEF WorkerCall
  <2>3. StatusOf(job[held[w]], done) = "taken" /\ StatusOf("running", done) = "taken"
    BY <1>0, <2>1, StatusValues
  <2>4. /\ PoolStatus[held[w]] = "taken"
        /\ PoolStatus' = [PoolStatus EXCEPT ![held[w]] = "taken"]
    BY <1>0, <2>1, <2>2, <2>3, StatusStep
  <2>5. PoolStatus' = PoolStatus
    BY <2>4 DEF PoolStatus
  <2> QED
    BY <2>2, <2>5 DEF Pool!vars
<1>10. ASSUME NEW w \in Workers,
              WorkerExit(w) \/ WorkerSleep(w) \/ WorkerTest(w) \/ SpuriousWakeup(w)
       PROVE  UNCHANGED <<job, done, halter>>
  BY <1>10 DEF WorkerExit, WorkerSleep, WorkerTest, SpuriousWakeup
<1>11. CASE HaltTest
  BY <1>7, <1>11 DEF HaltTest
<1>12. CASE UNCHANGED vars
  BY <1>7, <1>12 DEF vars
<1> QED
  BY <1>1, <1>2, <1>4, <1>5, <1>6, <1>7, <1>8, <1>9, <1>10, <1>11, <1>12, <1>13
     DEF Next, AddSteps, Worker, HaltSteps

(* Every behaviour of the threads is one of TaskPool.                      *)
THEOREM ExecutorImplementsTaskPool == Spec => ImplementsTaskPool
  BY InitPool, StepPool, Invariance, PTL DEF Spec, ImplementsTaskPool, Pool!Spec
=============================================================================
