------------------------------ MODULE TaskPool ------------------------------
(***************************************************************************)
(* What a user of async::Executor (src/include/executor.hh) may rely on,   *)
(* without threads, queue, mutex or condition variable.  A task is one     *)
(* call of add().  While the pool is open a task is accepted, taken by a   *)
(* thread of the pool and finished, each once.  Closing the pool drops     *)
(* every task that was not taken, and from then on none is; a task that    *)
(* was taken is run, be it after the closing.  The pool is stopped when it *)
(* is closed and every task it took is finished.  A pool without threads   *)
(* lets the caller itself run the task.                                    *)
(***************************************************************************)
CONSTANT Jobs       \* the calls of add()

VARIABLES status,   \* status[j]: how far the pool is with task j
          open,     \* the pool still takes tasks
          stopped   \* closed, and every task taken has finished

vars == <<status, open, stopped>>

Init == /\ status = [j \in Jobs |-> "new"]
        /\ open = TRUE
        /\ stopped = FALSE

Accept(j) == /\ status[j] = "new" /\ open
             /\ status' = [status EXCEPT ![j] = "pending"]
             /\ UNCHANGED <<open, stopped>>

(* A task offered to a closed pool is dropped without a word to its owner. *)
Drop(j) == /\ status[j] = "new" /\ ~open
           /\ status' = [status EXCEPT ![j] = "dropped"]
           /\ UNCHANGED <<open, stopped>>

Take(j) == /\ status[j] = "pending" /\ open
           /\ status' = [status EXCEPT ![j] = "taken"]
           /\ UNCHANGED <<open, stopped>>

Finish(j) == /\ status[j] \in {"taken", "called"}
             /\ status' = [status EXCEPT ![j] = "finished"]
             /\ UNCHANGED <<open, stopped>>

(* The caller's own thread runs the task; stopping does not wait for it.   *)
Call(j) == /\ status[j] = "new"
           /\ status' = [status EXCEPT ![j] = "called"]
           /\ UNCHANGED <<open, stopped>>

Close == /\ open
         /\ open' = FALSE
         /\ status' = [j \in Jobs |-> IF status[j] = "pending" THEN "dropped" ELSE status[j]]
         /\ UNCHANGED stopped

Stop == /\ ~open /\ ~stopped
        /\ \A j \in Jobs : status[j] # "taken"
        /\ stopped' = TRUE
        /\ UNCHANGED <<status, open>>

Next == \/ \E j \in Jobs : Accept(j) \/ Drop(j) \/ Take(j) \/ Finish(j) \/ Call(j)
        \/ Close
        \/ Stop

Spec == Init /\ [][Next]_vars
=============================================================================
