------------------------------ MODULE Executor ------------------------------
(***************************************************************************)
(* async::Executor, the thread pool that runs the request handlers         *)
(* (src/include/executor.hh).  Workers take jobs from a queue under a      *)
(* mutex and sleep on a condition variable; any thread may call add(); one *)
(* thread calls halt() (Tokenization::run does, once, at shutdown).        *)
(*                                                                         *)
(* A block guarded by the mutex is one step.  The reads of `done` outside  *)
(* the mutex (add(), halt(), the loop condition of a worker) and the call  *)
(* of a job after the mutex is released are steps of their own, so that    *)
(* everything may happen between such a test, or the pop, and what the     *)
(* code does next.                                                         *)
(***************************************************************************)
EXTENDS Naturals, Sequences, FiniteSets

CONSTANTS Workers,  \* the threads an executor may be given: any number of them
          Jobs,     \* the calls of add(), each with its callable
          NoJob     \* "no job": what a worker holds outside runnable()

ASSUME WorkersFinite == IsFiniteSet(Workers)
ASSUME NoJobIsNoJob  == NoJob \notin Jobs

VARIABLES queue,    \* Executor::queue
          done,     \* Executor::done
          job,      \* job[j]: how far the add() of j, and then j itself, got
          pc,       \* pc[w]: where worker w is in its loop
          held,     \* held[w]: the local `runnable` of worker w
          halter    \* the thread that calls halt()

vars == <<queue, done, job, pc, held, halter>>

JobState == {"new",      \* add() not called yet
             "checked",  \* add() saw running(), has not got the mutex yet
             "refused",  \* add() saw done and returned
             "queued",
             "taken",    \* popped by a worker, which has yet to call it
             "running",  \* called by a worker
             "inline",   \* called by add() itself
             "ran",
             "cleared"}  \* removed from the queue by halt()

WorkerState == {"acquire",  \* about to take the mutex and test the predicate
                "waiting",  \* asleep in cond.wait
                "holding",  \* popped a job and released the mutex
                "running",  \* in runnable()
                "test",     \* at while( running( ) )
                "exited",
                "none"}     \* no such thread: the constructor was asked for fewer

HalterState == {"idle", "clearing", "joining", "halted"}

Waiting == {w \in Workers : pc[w] = "waiting"}
Awake   == {w \in Workers : pc[w] = "acquire"}

(* Executor::pool: what the constructor started.  When it is empty add()   *)
(* runs the job itself.                                                    *)
Started == {w \in Workers : pc[w] # "none"}

Init == /\ queue = <<>>
        /\ done = FALSE
        /\ job = [j \in Jobs |-> "new"]
        /\ \E pool \in SUBSET Workers :
              pc = [w \in Workers |-> IF w \in pool THEN "acquire" ELSE "none"]
        /\ held = [w \in Workers |-> NoJob]
        /\ halter = "idle"

-----------------------------------------------------------------------------
(* Mutant: add() pushes and forgets to notify.                             *)
NotifyNobody == UNCHANGED pc

(* notify_one: one sleeping worker, if there is one, goes for the mutex.   *)
NotifyOne == IF Waiting = {}
             THEN UNCHANGED pc
             ELSE \E w \in Waiting : pc' = [pc EXCEPT ![w] = "acquire"]

(* notify_all *)
NotifyAll == pc' = [w \in Workers |-> IF pc[w] = "waiting" THEN "acquire" ELSE pc[w]]

(* add(): the unlocked test of running(), then of pool.empty().            *)
AddTest(j) ==
    /\ job[j] = "new"
    /\ job' = [job EXCEPT ![j] = IF done THEN "refused"
                                 ELSE IF Started = {} THEN "inline" ELSE "checked"]
    /\ UNCHANGED <<queue, done, pc, held, halter>>

(* add(): the locked part.  Nothing tests running() again.                 *)
AddPush(j) ==
    /\ job[j] = "checked"
    /\ queue' = Append(queue, j)
    /\ job' = [job EXCEPT ![j] = "queued"]
    /\ NotifyOne
    /\ UNCHANGED <<done, held, halter>>

(* add() without threads: the callable returns.                            *)
InlineReturn(j) ==
    /\ job[j] = "inline"
    /\ job' = [job EXCEPT ![j] = "ran"]
    /\ UNCHANGED <<queue, done, pc, held, halter>>

-----------------------------------------------------------------------------
(* The locked part of the worker loop, from taking the mutex (first, or    *)
(* again inside cond.wait) to leaving it: exit, take a job, or sleep.      *)
WorkerExit(w) ==
    /\ pc[w] = "acquire" /\ done
    /\ pc' = [pc EXCEPT ![w] = "exited"]
    /\ UNCHANGED <<queue, done, job, held, halter>>

(* Mutants: the wait has no predicate, so that front() may be called on an *)
(* empty queue; front() without pop(); the queue is served before          *)
(* running() is tested.                                                    *)
WorkerTakeBlindly(w) ==
    /\ pc[w] = "acquire" /\ ~done
    /\ LET front == IF queue = <<>> THEN "garbage" ELSE Head(queue)
       IN  /\ held' = [held EXCEPT ![w] = front]
           /\ job' = [j \in Jobs |-> IF j = front THEN "taken" ELSE job[j]]
    /\ queue' = IF queue = <<>> THEN queue ELSE Tail(queue)
    /\ pc' = [pc EXCEPT ![w] = "holding"]
    /\ UNCHANGED <<done, halter>>

WorkerTakeNoPop(w) ==
    /\ pc[w] = "acquire" /\ ~done /\ queue # <<>>
    /\ held' = [held EXCEPT ![w] = Head(queue)]
    /\ job' = [job EXCEPT ![Head(queue)] = "taken"]
    /\ pc' = [pc EXCEPT ![w] = "holding"]
    /\ UNCHANGED <<queue, done, halter>>

WorkerTakeWhenDone(w) ==
    /\ pc[w] = "acquire" /\ queue # <<>>
    /\ held' = [held EXCEPT ![w] = Head(queue)]
    /\ job' = [job EXCEPT ![Head(queue)] = "taken"]
    /\ queue' = Tail(queue)
    /\ pc' = [pc EXCEPT ![w] = "holding"]
    /\ UNCHANGED <<done, halter>>

WorkerTake(w) ==
    /\ pc[w] = "acquire" /\ ~done /\ queue # <<>>
    /\ held' = [held EXCEPT ![w] = Head(queue)]
    /\ job' = [job EXCEPT ![Head(queue)] = "taken"]
    /\ queue' = Tail(queue)
    /\ pc' = [pc EXCEPT ![w] = "holding"]
    /\ UNCHANGED <<done, halter>>

WorkerSleep(w) ==
    /\ pc[w] = "acquire" /\ ~done /\ queue = <<>>
    /\ pc' = [pc EXCEPT ![w] = "waiting"]
    /\ UNCHANGED <<queue, done, job, held, halter>>

(* cond.wait may also return without a notification.                       *)
SpuriousWakeup(w) ==
    /\ pc[w] = "waiting"
    /\ pc' = [pc EXCEPT ![w] = "acquire"]
    /\ UNCHANGED <<queue, done, job, held, halter>>

(* The mutex is released and the job is called: nothing tests running()    *)
(* in between, so that a job may be called after halt() has set done.      *)
WorkerCall(w) ==
    /\ pc[w] = "holding"
    /\ job' = [job EXCEPT ![held[w]] = "running"]
    /\ pc' = [pc EXCEPT ![w] = "running"]
    /\ UNCHANGED <<queue, done, held, halter>>

(* runnable() returns.                                                     *)
WorkerReturn(w) ==
    /\ pc[w] = "running"
    /\ job' = [job EXCEPT ![held[w]] = "ran"]
    /\ held' = [held EXCEPT ![w] = NoJob]
    /\ pc' = [pc EXCEPT ![w] = "test"]
    /\ UNCHANGED <<queue, done, halter>>

(* Mutant: while( !running( ) ).                                           *)
WorkerTestInverted(w) ==
    /\ pc[w] = "test"
    /\ pc' = [pc EXCEPT ![w] = IF done THEN "acquire" ELSE "exited"]
    /\ UNCHANGED <<queue, done, job, held, halter>>

(* while( running( ) ), read without the mutex.                            *)
WorkerTest(w) ==
    /\ pc[w] = "test"
    /\ pc' = [pc EXCEPT ![w] = IF done THEN "exited" ELSE "acquire"]
    /\ UNCHANGED <<queue, done, job, held, halter>>

-----------------------------------------------------------------------------
(* halt(): the unlocked test of running().                                 *)
HaltTest == /\ halter = "idle"
            /\ halter' = IF done THEN "joining" ELSE "clearing"
            /\ UNCHANGED <<queue, done, job, pc, held>>

(* halt(): the locked part.                                                *)
HaltClear == /\ halter = "clearing"
             /\ queue' = <<>>
             /\ job' = [j \in Jobs |-> IF job[j] = "queued" THEN "cleared" ELSE job[j]]
             /\ done' = TRUE
             /\ NotifyAll
             /\ halter' = "joining"
             /\ UNCHANGED held

(* Mutant: halt() joins one thread.                                        *)
HaltJoinedOne == /\ halter = "joining"
                 /\ Started # {} => \E w \in Started : pc[w] = "exited"
                 /\ halter' = "halted"
                 /\ UNCHANGED <<queue, done, job, pc, held>>

(* halt(): every join() has returned.                                      *)
HaltJoined == /\ halter = "joining"
              /\ \A w \in Started : pc[w] = "exited"
              /\ halter' = "halted"
              /\ UNCHANGED <<queue, done, job, pc, held>>

-----------------------------------------------------------------------------
Worker(w) == \/ WorkerExit(w) \/ WorkerTake(w) \/ WorkerSleep(w)
             \/ WorkerCall(w) \/ WorkerReturn(w) \/ WorkerTest(w)

AddSteps(j) == AddPush(j) \/ InlineReturn(j)

HaltSteps == HaltClear \/ HaltJoined

Next == \/ \E j \in Jobs : AddTest(j) \/ AddSteps(j)
        \/ \E w \in Workers : Worker(w) \/ SpuriousWakeup(w)
        \/ HaltTest \/ HaltSteps

(* A thread inside add(), halt() or the worker loop is scheduled again and *)
(* gets the mutex, and callables return.  Nobody has to call add() or      *)
(* halt(), and spurious wake-ups may or may not come.                      *)
Fairness == /\ \A w \in Workers : WF_vars(Worker(w))
            /\ \A j \in Jobs : WF_vars(AddSteps(j))
            /\ WF_vars(HaltSteps)

Spec == Init /\ [][Next]_vars
FairSpec == Spec /\ Fairness

-----------------------------------------------------------------------------
TypeOK == /\ queue \in Seq(Jobs)
          /\ done \in BOOLEAN
          /\ job \in [Jobs -> JobState]
          /\ pc \in [Workers -> WorkerState]
          /\ held \in [Workers -> Jobs \cup {NoJob}]
          /\ halter \in HalterState

QueuedOnce == /\ \A j \in Jobs : job[j] = "queued" <=> \E i \in 1..Len(queue) : queue[i] = j
              /\ \A i, k \in 1..Len(queue) : queue[i] = queue[k] => i = k

(* The jobs some worker has its hands on. *)
WithWorker == {j \in Jobs : job[j] \in {"taken", "running"}}

RunByOne == /\ \A w \in Workers :
                  \/ pc[w] = "holding" /\ held[w] \in Jobs /\ job[held[w]] = "taken"
                  \/ pc[w] = "running" /\ held[w] \in Jobs /\ job[held[w]] = "running"
                  \/ pc[w] \notin {"holding", "running"} /\ held[w] = NoJob
            /\ \A j \in WithWorker : \E w \in Workers : held[w] = j
            /\ \A v, w \in Workers : held[v] = held[w] /\ held[v] # NoJob => v = w

(* A job has one owner: it is in the queue once, or with one worker, or    *)
(* with neither; queue.front()/pop() and push() never lose or copy one,    *)
(* whatever the order of adds, workers and halt (executor.hh:52-53, 105).  *)
OneOwner == QueuedOnce /\ RunByOne

(* No lost wake-up, in its strong form: if a worker sleeps, then at least  *)
(* as many workers are on their way to the mutex as there are jobs in the  *)
(* queue, and after halt's notify_all none sleeps (executor.hh:46,76,106). *)
NoLostWakeup == /\ Waiting # {} => Len(queue) <= Cardinality(Awake)
                /\ done => Waiting = {}

(* When halt() has returned no job is in the hands of a pool thread,       *)
(* called or about to be called, although one taken before may be called   *)
(* while halt() joins (executor.hh:54-57, 79-81).                          *)
HaltedIsQuiet == halter = "halted" => WithWorker = {}

(* A job that got past the test of running() is run, unless the pool is    *)
(* halted; this needs every wake-up to reach a worker (executor.hh:40-60). *)
AcceptedJobRuns == \A j \in Jobs : job[j] \in {"checked", "queued", "inline"} ~> (job[j] = "ran" \/ done)

(* halt() returns: every sleeping worker is woken and every worker leaves  *)
(* (executor.hh:69-82).                                                    *)
HaltReturns == halter = "clearing" ~> halter = "halted"

-----------------------------------------------------------------------------
(* The executor implements the abstract pool.  A job that reaches the      *)
(* queue of a halted executor is as good as dropped: nobody will take it.  *)
StatusOf(s, closed) == CASE s \in {"new", "checked"} -> "new"
                         [] s = "queued"  -> IF closed THEN "dropped" ELSE "pending"
                         [] s \in {"refused", "cleared"} -> "dropped"
                         [] s \in {"taken", "running"} -> "taken"
                         [] s = "inline"  -> "called"
                         [] s = "ran"     -> "finished"

PoolStatus == [j \in Jobs |-> StatusOf(job[j], done)]

Pool == INSTANCE TaskPool WITH status <- PoolStatus, open <- ~done, stopped <- halter = "halted"

(* Every step of the threads is a step of TaskPool or changes nothing of   *)
(* it: in particular none is taken once closed, and stopping waits for     *)
(* each that was.                                                          *)
ImplementsTaskPool == Pool!Spec
=============================================================================
