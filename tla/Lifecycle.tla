----------------------------- MODULE Lifecycle -----------------------------
(***************************************************************************)
(* How servers come and go: --start with its fork, --stop with its ps and  *)
(* kill (tokenization.hh), and the service a server runs in between: its   *)
(* listener, its flag running and its threads (service.hh).                *)
(*                                                                         *)
(* The operating system is external: pids are used again, a default action *)
(* of SIGTERM ends a process at once, ps without -e lists the processes of *)
(* its own terminal in the order of their pids, and blocks when the pipe   *)
(* to its reader is full; an exception that nobody catches on a thread     *)
(* terminates the process.                                                 *)
(***************************************************************************)
EXTENDS Integers, FiniteSets

CONSTANTS Pids,         \* process ids
          Terminals,    \* controlling terminals
          NoTerminal,   \* that of a daemon
          Threads,      \* threads of the service (restPoolSize)
          Rooms,        \* how many lines of ps may fit into the pipe
          MaxLaunches   \* bound of the number of launched commands

ASSUME PidsAssumption == Pids \subseteq Nat \ {0}
ASSUME RoomsAssumption == Rooms \subseteq Nat

Nobody == 0

VARIABLES proc,       \* proc[p]: the process with pid p
          port,       \* the pid of the server that listens, or Nobody
          running,    \* its service's running
          thread,     \* thread[t]: "none", "new", "run" or "exit"
          waiting,    \* a connection waits for an accept
          spared,     \* history: what ps listed as this program and has not died since
          launches

service == <<port, running, thread, waiting>>
vars == <<proc, service, spared, launches>>

Process(is, at, tty) == [is |-> is, at |-> at, tty |-> tty,
                         lines |-> {}, piped |-> 0, room |-> 0, num |-> 0]
None == Process("none", "none", NoTerminal)

Alive(p) == proc[p].is # "none"
Unused == {p \in Pids : ~Alive(p)}
At(p, is, at) == proc[p].is = is /\ proc[p].at = at
Goto(p, at) == proc' = [proc EXCEPT ![p].at = at]

NoThreads == [t \in Threads |-> "none"]

Init == /\ proc = [p \in Pids |-> None]
        /\ port = Nobody /\ running = FALSE /\ thread = NoThreads /\ waiting = FALSE
        /\ spared = [p \in Pids |-> {}]
        /\ launches = 0

(* Dead processes, whose connections and listeners end with them.          *)
Die(dead) ==
    /\ proc' = [p \in Pids |-> IF p \in dead THEN None ELSE proc[p]]
    /\ spared' = [p \in Pids |-> IF p \in dead THEN {} ELSE spared[p] \ dead]
    /\ IF port \in dead
       THEN port' = Nobody /\ running' = FALSE /\ thread' = NoThreads /\ waiting' = FALSE
       ELSE UNCHANGED service

-----------------------------------------------------------------------------
(* Somebody runs --start, --start --foreground, --stop or another program. *)
Launch(p) ==
    /\ launches < MaxLaunches /\ p \in Unused
    /\ launches' = launches + 1
    /\ \E tty \in Terminals, command \in {<<"server", "fork">>, <<"server", "bind">>,
                                          <<"stop", "spawn">>, <<"other", "run">>} :
          proc' = [proc EXCEPT ![p] = Process(command[1], command[2], tty)]
    /\ UNCHANGED <<service, spared>>

(* setsid() is called before fork() and fails for the leader of a process  *)
(* group, as a command of an interactive shell is: then the child keeps    *)
(* the terminal.  The parent reports success and exits.                    *)
Fork(p) ==
    /\ At(p, "server", "fork")
    /\ \E child \in Unused, tty \in {proc[p].tty, NoTerminal} :
          /\ proc' = [proc EXCEPT ![p] = None, ![child] = Process("server", "bind", tty)]
          /\ spared' = [q \in Pids |-> IF q = p THEN {} ELSE spared[q] \ {p}]
    /\ UNCHANGED <<service, launches>>

ForkFails(p) == At(p, "server", "fork") /\ Die({p}) /\ UNCHANGED launches

(* addListener: the acceptor is opened, bound and listens.                 *)
Bind(p) ==
    /\ At(p, "server", "bind") /\ port = Nobody
    /\ port' = p /\ Goto(p, "start")
    /\ UNCHANGED <<running, thread, waiting, spared, launches>>

(* The address is in use: the exception leaves main().                     *)
BindFails(p) ==
    /\ At(p, "server", "bind") /\ port # Nobody
    /\ Die({p}) /\ UNCHANGED launches

(* start(): running is set, then the threads are started, each one maybe   *)
(* long after the one before.                                              *)
SetRunning(p) ==
    /\ At(p, "server", "start")
    /\ running' = TRUE /\ Goto(p, "join")
    /\ UNCHANGED <<port, thread, waiting, spared, launches>>

(* Mutant: the threads are started first.                                  *)
SpawnsEarly(p) == At(p, "server", "start") \/ At(p, "server", "join")

Spawns(p) == At(p, "server", "join")

Spawn(t) ==
    /\ port # Nobody /\ Spawns(port) /\ thread[t] = "none"
    /\ thread' = [thread EXCEPT ![t] = "new"]
    /\ UNCHANGED <<proc, port, running, waiting, spared, launches>>

(* thread_main tests running; in run() it stays, since every accept starts *)
(* the next one, until a signal or an exception ends the process.  So      *)
(* join() does not return, nor does run(), and executor->halt() is not     *)
(* reached.                                                                *)
Enter(t) ==
    /\ thread[t] = "new"
    /\ thread' = [thread EXCEPT ![t] = IF running THEN "run" ELSE "exit"]
    /\ UNCHANGED <<proc, port, running, waiting, spared, launches>>

Connect ==
    /\ port # Nobody /\ ~waiting
    /\ waiting' = TRUE
    /\ UNCHANGED <<proc, port, running, thread, spared, launches>>

Accept ==
    /\ waiting /\ \E t \in Threads : thread[t] = "run"
    /\ waiting' = FALSE
    /\ UNCHANGED <<proc, port, running, thread, spared, launches>>

(* The peer reset the connection before the session asks who it is:        *)
(* remote_endpoint() throws, and neither the session nor thread_main, from *)
(* within ioc.run(), catches it.  (Sessions and Detection have the other   *)
(* exceptions that take this way out.)                                     *)
AcceptThrows ==
    /\ waiting /\ \E t \in Threads : thread[t] = "run"
    /\ Die({port}) /\ UNCHANGED launches

-----------------------------------------------------------------------------
(* Processes that ps shows to the stop command p, this program's marked.   *)
Shown(p) == {q \in Pids : Alive(q) /\ proc[q].tty = proc[p].tty}
Lines(p) == {[pid |-> q, ours |-> proc[q].is # "other"] : q \in Shown(p)}

Ps(p) ==
    /\ At(p, "stop", "spawn")
    /\ \E room \in Rooms :
          proc' = [proc EXCEPT ![p].lines = Lines(p), ![p].room = room, ![p].at = "ps"]
    /\ spared' = [spared EXCEPT ![p] = {q \in Shown(p) \ {p} : proc[q].is # "other"}]
    /\ UNCHANGED <<service, launches>>

(* ps writes its next line, unless the pipe is full: while( ps.running( )  *)
(* || getline( ... ) ) reads nothing as long as ps runs.                   *)
PsWrites(p) ==
    /\ At(p, "stop", "ps")
    /\ proc[p].piped < Cardinality(proc[p].lines) /\ proc[p].room > 0
    /\ proc' = [proc EXCEPT ![p].piped = @ + 1, ![p].room = @ - 1]
    /\ UNCHANGED <<service, spared, launches>>

(* ps has written everything and exits: the lines are read.                *)
PsEnds(p) ==
    /\ At(p, "stop", "ps") /\ proc[p].piped = Cardinality(proc[p].lines)
    /\ Goto(p, "read")
    /\ UNCHANGED <<service, spared, launches>>

(* ps writes in the order of pids.                                         *)
Line(p) == CHOOSE l \in proc[p].lines : \A m \in proc[p].lines : l.pid <= m.pid
HasLine(p) == At(p, "stop", "read") /\ proc[p].lines # {}
Wanted(p) == Line(p).pid # p /\ Line(p).ours
NextLine(p) == [proc[p] EXCEPT !.lines = @ \ {Line(p)}, !.num = 0]

(* Mutant: the own line is tested again and again.                         *)
SkipOthers(p) ==
    /\ HasLine(p) /\ ~Wanted(p) /\ Line(p).pid # p
    /\ proc' = [proc EXCEPT ![p] = NextLine(p)]
    /\ UNCHANGED <<service, spared, launches>>

(* Another program, or this process.                                       *)
Skip(p) ==
    /\ HasLine(p) /\ ~Wanted(p)
    /\ proc' = [proc EXCEPT ![p] = NextLine(p)]
    /\ UNCHANGED <<service, spared, launches>>

(* kill() reaches whatever has the pid by now; the first success ends the  *)
(* command.                                                                *)
Kill(p) ==
    /\ HasLine(p) /\ Wanted(p) /\ Alive(Line(p).pid)
    /\ Die({p, Line(p).pid}) /\ UNCHANGED launches

(* Mutant: a first failure ends the command.                               *)
KillFailsOnce(p) ==
    /\ HasLine(p) /\ Wanted(p) /\ ~Alive(Line(p).pid)
    /\ proc' = [proc EXCEPT ![p].lines = {}]
    /\ UNCHANGED <<service, spared, launches>>

(* SIGTERM twice, then SIGKILL.                                            *)
KillFails(p) ==
    /\ HasLine(p) /\ Wanted(p) /\ ~Alive(Line(p).pid)
    /\ proc' = [proc EXCEPT ![p] = IF proc[p].num < 2 THEN [proc[p] EXCEPT !.num = @ + 1]
                                       ELSE NextLine(p)]
    /\ UNCHANGED <<service, spared, launches>>

NoLine(p) ==
    /\ At(p, "stop", "read") /\ proc[p].lines = {}
    /\ Die({p}) /\ UNCHANGED launches

(* Another program ends.                                                   *)
OtherExit(p) == At(p, "other", "run") /\ Die({p}) /\ UNCHANGED launches

Start(p) == Fork(p) \/ ForkFails(p) \/ Bind(p) \/ BindFails(p) \/ SetRunning(p)
Stop(p)  == Ps(p) \/ PsWrites(p) \/ PsEnds(p) \/ Skip(p) \/ Kill(p) \/ KillFails(p) \/ NoLine(p)

Next == \/ Connect \/ Accept \/ AcceptThrows
        \/ \E t \in Threads : Spawn(t) \/ Enter(t)
        \/ \E p \in Pids : Launch(p) \/ Start(p) \/ Stop(p) \/ OtherExit(p)

(* Processes and threads are scheduled.                                    *)
Fairness == /\ WF_vars(Accept)
            /\ \A t \in Threads : WF_vars(Spawn(t) \/ Enter(t))
            /\ \A p \in Pids : WF_vars(Start(p)) /\ WF_vars(Stop(p))

Spec == Init /\ [][Next]_vars /\ Fairness

-----------------------------------------------------------------------------
TypeOK ==
    /\ \A p \in Pids : /\ proc[p].is \in {"none", "server", "stop", "other"}
                       /\ proc[p].tty \in Terminals \cup {NoTerminal}
                       /\ proc[p].num \in 0..2 /\ proc[p].piped \in Nat /\ proc[p].room \in Nat
                       /\ spared[p] \subseteq Pids
    /\ port \in Pids \cup {Nobody}
    /\ running \in BOOLEAN
    /\ thread \in [Threads -> {"none", "new", "run", "exit"}]
    /\ waiting \in BOOLEAN

(* A --stop that has read every line and signalled nobody missed nobody:   *)
(* each process of this program that its ps had listed has died since.     *)
NobodyIsMissed == \A p \in Pids : At(p, "stop", "read") =>
                     \A q \in spared[p] : \E l \in proc[p].lines : l.pid = q

(* --stop ends if and only if the output of ps fits into the pipe: with    *)
(* more lines ps waits for the loop to read and the loop for ps to end     *)
(* (tokenization.hh:164); otherwise every line is dealt with and the       *)
(* command ends, however many kills fail.                                  *)
TooMuch(p) == At(p, "stop", "ps") /\ Cardinality(proc[p].lines) > proc[p].piped + proc[p].room
StopEnds == /\ \A p \in Pids : proc[p].is = "stop" ~> proc[p].is # "stop" \/ TooMuch(p)
            /\ [][\A p \in Pids : TooMuch(p) => TooMuch(p)' \/ proc'[p] = None]_vars

(* A connection to a listening server is accepted, also one that came      *)
(* before the threads were started, as long as the server lives.           *)
ConnectionsAccepted == waiting ~> ~waiting
=============================================================================
