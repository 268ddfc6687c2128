-------------------------- MODULE LifecycleProofs --------------------------
(***************************************************************************)
(* Which processes --start and --stop leave, for any pids, terminals,      *)
(* threads and number of commands.  The invariant relates the port to the  *)
(* process that holds it, the threads to the flag running, and the lines   *)
(* that a --stop has not read yet to the processes they showed.            *)
(***************************************************************************)
EXTENDS Lifecycle, WellFoundedInduction, TLAPS

Processes == [is    : {"none", "server", "stop", "other"},
              at    : {"none", "fork", "bind", "start", "join", "spawn", "ps", "read", "run"},
              tty   : Terminals \cup {NoTerminal},
              lines : SUBSET [pid : Pids, ours : BOOLEAN],
              piped : Nat, room : Nat,
              num   : 0..2]

Types == /\ proc \in [Pids -> Processes]
         /\ port \in Pids \cup {Nobody}
         /\ running \in BOOLEAN
         /\ thread \in [Threads -> {"none", "new", "run", "exit"}]
         /\ waiting \in BOOLEAN
         /\ spared \in [Pids -> SUBSET Pids]

(* The port belongs to the one server that has bound it, and threads start *)
(* and stay while running is set.                                          *)
Bound(p) == proc[p].is = "server" /\ proc[p].at \in {"start", "join"}

Holder == \A p \in Pids : Bound(p) <=> p = port

Serving ==
    /\ running => port # Nobody
    /\ port # Nobody => (proc[port].at = "join" <=> running)
    /\ ~running => \A t \in Threads : thread[t] = "none"
    /\ \A t \in Threads : thread[t] # "exit"

(* Whoever was listed and did not die is alive and has a line left.        *)
Reading(p) == At(p, "stop", "ps") \/ At(p, "stop", "read")

Listed ==
    \A p \in Pids : Reading(p) =>
       \A q \in spared[p] : Alive(q) /\ q # p /\ \E l \in proc[p].lines : l.pid = q /\ l.ours

Inv == Types /\ Holder /\ Serving /\ Listed

(* The new commands are processes like the old ones.                       *)
LEMMA ProcessType ==
    ASSUME NEW is \in {"none", "server", "stop", "other"}, NEW tty \in Terminals \cup {NoTerminal},
           NEW at \in {"none", "fork", "bind", "start", "join", "spawn", "ps", "read", "run"}
    PROVE  /\ Process(is, at, tty) \in Processes
           /\ Process(is, at, tty).is = is /\ Process(is, at, tty).at = at
           /\ None \in Processes /\ None.is = "none" /\ None.at = "none"
  BY DEF Process, None, Processes

(* There are no processes at first.                                        *)
LEMMA InitInv == Init => Inv
<1> SUFFICES ASSUME Init PROVE Inv
  OBVIOUS
<1>1. None \in Processes /\ None.is = "none"
  BY ProcessType
<1>2. Types
  BY <1>1 DEF Init, Types, NoThreads
<1>3. Holder
  BY <1>1, PidsAssumption DEF Init, Holder, Bound, Nobody
<1>4. Serving /\ Listed
  BY DEF Init, Serving, NoThreads, Listed
<1>5. QED
  BY <1>2, <1>3, <1>4 DEF Inv

(* The parts that relate processes, when some of them end and others are   *)
(* not touched: their lists lose the dead and their lines show the living. *)
LEMMA ListsStay ==
    ASSUME Inv, NEW dead,
           \A p \in Pids : Reading(p)' /\ spared'[p] # {} =>
              /\ Reading(p) /\ proc'[p].lines = proc[p].lines
              /\ spared'[p] \subseteq spared[p] \ dead,
           \A q \in Pids \ dead : Alive(q) => Alive(q)'
    PROVE  Listed'
<1> SUFFICES ASSUME NEW p \in Pids, Reading(p)', NEW q \in spared'[p]
             PROVE  Alive(q)' /\ q # p /\ \E l \in proc'[p].lines : l.pid = q /\ l.ours
  BY DEF Listed
<1>1. /\ Reading(p) /\ proc'[p].lines = proc[p].lines
      /\ q \in spared[p] /\ q \in Pids \ dead
  BY DEF Inv, Types
<1>2. Alive(q) /\ q # p /\ \E l \in proc[p].lines : l.pid = q /\ l.ours
  BY <1>1 DEF Inv, Listed
<1>3. QED
  BY <1>1, <1>2

(* The dead take their connections with them and are missed by nobody.     *)
LEMMA DeathKeepsInv ==
    ASSUME Inv, NEW dead, Die(dead)
    PROVE  Inv'
<1>1. None \in Processes /\ None.is = "none"
  BY ProcessType
<1>2. \A p \in Pids : /\ p \in dead => proc'[p] = None /\ spared'[p] = {}
                      /\ p \notin dead => proc'[p] = proc[p] /\ spared'[p] = spared[p] \ dead
  BY DEF Die
<1>3. Types'
  <2>1. proc' \in [Pids -> Processes] /\ spared' \in [Pids -> SUBSET Pids]
    BY <1>1 DEF Inv, Types, Die
  <2>2. /\ port' \in Pids \cup {Nobody} /\ running' \in BOOLEAN
        /\ thread' \in [Threads -> {"none", "new", "run", "exit"}] /\ waiting' \in BOOLEAN
    <3>1. CASE port \in dead
      BY <3>1 DEF Die, NoThreads
    <3>2. CASE port \notin dead
      BY <3>2 DEF Die, service, Inv, Types
    <3>3. QED
      BY <3>1, <3>2
  <2>3. QED
    BY <2>1, <2>2 DEF Types
<1>4. Holder' /\ Serving'
  <2>1. CASE port \in dead
    <3>1. /\ port' = Nobody /\ ~running' /\ \A t \in Threads : thread'[t] = "none"
          /\ \A p \in Pids : p # Nobody
      BY <2>1, PidsAssumption DEF Die, NoThreads, Nobody
    <3>2. \A p \in Pids : ~Bound(p)'
      BY <1>1, <1>2, <2>1 DEF Bound, Inv, Holder
    <3>3. QED
      BY <3>1, <3>2 DEF Holder, Serving
  <2>2. CASE port \notin dead
    <3>1. UNCHANGED service
      BY <2>2 DEF Die
    <3>2. port # Nobody => proc'[port] = proc[port]
      BY <1>2, <2>2 DEF Inv, Types
    <3>3. \A p \in Pids : Bound(p)' <=> Bound(p) /\ p \notin dead
      BY <1>1, <1>2 DEF Bound
    <3>4. Holder'
      BY <2>2, <3>1, <3>3 DEF Inv, Holder, service
    <3>5. QED
      BY <3>1, <3>2, <3>4 DEF Inv, Serving, service
  <2>3. QED
    BY <2>1, <2>2
<1>5. Listed'
  <2>1. \A q \in Pids \ dead : Alive(q) => Alive(q)'
    BY <1>2 DEF Alive
  <2>2. \A p \in Pids : Reading(p)' /\ spared'[p] # {} =>
              /\ Reading(p) /\ proc'[p].lines = proc[p].lines
              /\ spared'[p] \subseteq spared[p] \ dead
    BY <1>2 DEF Reading, At
  <2>3. QED
    BY <2>1, <2>2, ListsStay
<1>6. QED
  BY <1>3, <1>4, <1>5 DEF Inv

(* The same, when one process p takes a step that is none of a --stop, and *)
(* does not bind: new is what it becomes.                                  *)
LEMMA OneKeepsInv ==
    ASSUME Inv, NEW p \in Pids, NEW new \in Processes, proc' = [proc EXCEPT ![p] = new],
           UNCHANGED <<service, spared>>,
           new.is # "none", ~(new.is = "stop" /\ new.at \in {"ps", "read"}),
           ~(new.is = "server" /\ new.at \in {"start", "join"}), ~Bound(p)
    PROVE  Inv'
<1>1. proc'[p] = new /\ \A q \in Pids \ {p} : proc'[q] = proc[q]
  BY DEF Inv, Types
<1>2. Types'
  BY DEF Inv, Types, service
<1>3. \A q \in Pids : Bound(q)' <=> Bound(q)
  BY <1>1 DEF Bound
<1>4. Holder'
  BY <1>3 DEF Inv, Holder, service
<1>5. port # Nobody => proc'[port] = proc[port]
  <2>1. port # Nobody => port \in Pids /\ port # p
    BY DEF Inv, Types, Holder
  <2>2. QED
    BY <1>1, <2>1
<1>6. Serving'
  BY <1>5 DEF Inv, Serving, service
<1>7. Listed'
  <2>1. \A q \in Pids \ {} : Alive(q) => Alive(q)'
    BY <1>1 DEF Alive
  <2>2. \A q \in Pids : Reading(q)' /\ spared'[q] # {} =>
              /\ Reading(q) /\ proc'[q].lines = proc[q].lines
              /\ spared'[q] \subseteq spared[q] \ {}
    BY <1>1 DEF Reading, At
  <2>3. QED
    BY <2>1, <2>2, ListsStay
<1>8. QED
  BY <1>2, <1>4, <1>6, <1>7 DEF Inv

(* A new process has an unused pid.                                        *)
LEMMA LaunchKeepsInv ==
    ASSUME Inv, NEW p \in Pids, Launch(p)
    PROVE  Inv'
<1>1. PICK tty \in Terminals, command \in {<<"server", "fork">>, <<"server", "bind">>,
                                           <<"stop", "spawn">>, <<"other", "run">>} :
         proc' = [proc EXCEPT ![p] = Process(command[1], command[2], tty)]
  BY DEF Launch
<1> DEFINE new == Process(command[1], command[2], tty)
<1>2. /\ command[1] \in {"server", "stop", "other"} /\ command[2] \in {"fork", "bind", "spawn", "run"}
      /\ tty \in Terminals \cup {NoTerminal}
  OBVIOUS
<1>3. new \in Processes /\ new.is = command[1] /\ new.at = command[2]
  BY <1>2, ProcessType
<1> HIDE DEF new
<1>4. proc' = [proc EXCEPT ![p] = new]
  BY <1>1 DEF new
<1>5. ~Bound(p) /\ UNCHANGED <<service, spared>>
  BY DEF Launch, Unused, Alive, Bound
<1>6. QED
  BY <1>2, <1>3, <1>4, <1>5, OneKeepsInv

(* The parent goes, the child comes.                                       *)
LEMMA ForkKeepsInv ==
    ASSUME Inv, NEW p \in Pids, Fork(p)
    PROVE  Inv'
<1>1. PICK child \in Unused, tty \in {proc[p].tty, NoTerminal} :
         /\ proc' = [proc EXCEPT ![p] = None, ![child] = Process("server", "bind", tty)]
         /\ spared' = [q \in Pids |-> IF q = p THEN {} ELSE spared[q] \ {p}]
  BY DEF Fork
<1> DEFINE new == Process("server", "bind", tty)
<1>2. tty \in Terminals \cup {NoTerminal}
  BY DEF Inv, Types, Processes
<1>3. new \in Processes /\ new.is = "server" /\ new.at = "bind" /\ None \in Processes /\ None.is = "none"
  BY <1>2, ProcessType
<1> HIDE DEF new
<1>4. child \in Pids /\ ~Alive(child) /\ At(p, "server", "fork") /\ UNCHANGED service
  BY DEF Fork, Unused
<1>5. child # p
  BY <1>4 DEF Alive, At
<1>6. /\ proc'[p] = None /\ proc'[child] = new
      /\ \A q \in Pids \ {p, child} : proc'[q] = proc[q]
  BY <1>1, <1>4, <1>5 DEF Inv, Types, new
<1>7. Types'
  BY <1>1, <1>3, <1>4 DEF Inv, Types, service, new
<1>8. ~Bound(p) /\ ~Bound(child) /\ \A q \in Pids : Bound(q)' <=> Bound(q)
  BY <1>3, <1>4, <1>6 DEF Bound, At, Alive
<1>9. Holder'
  BY <1>4, <1>8 DEF Inv, Holder, service
<1>10. port # Nobody => proc'[port] = proc[port]
  <2>1. port # Nobody => port \in Pids \ {p, child}
    BY <1>8 DEF Inv, Types, Holder
  <2>2. QED
    BY <1>6, <2>1
<1>11. Serving'
  BY <1>4, <1>10 DEF Inv, Serving, service
<1>12. Listed'
  <2>1. \A q \in Pids \ {p} : Alive(q) => Alive(q)'
    BY <1>4, <1>6 DEF Alive
  <2>2. \A q \in Pids : Reading(q)' /\ spared'[q] # {} =>
              /\ Reading(q) /\ proc'[q].lines = proc[q].lines
              /\ spared'[q] \subseteq spared[q] \ {p}
    BY <1>1, <1>3, <1>6 DEF Reading, At
  <2>3. QED
    BY <2>1, <2>2, ListsStay
<1>13. QED
  BY <1>7, <1>9, <1>11, <1>12 DEF Inv

(* What a server does leaves the lists of the others alone.                *)
LEMMA ServerKeepsInv ==
    ASSUME Inv, NEW p \in Pids, Bind(p) \/ SetRunning(p)
    PROVE  Inv'
<1>1. PICK at \in {"start", "join"} : proc' = [proc EXCEPT ![p].at = at]
  BY DEF Bind, SetRunning, Goto
<1>2. /\ proc'[p].is = proc[p].is /\ proc'[p].at = at
      /\ \A q \in Pids \ {p} : proc'[q] = proc[q]
  BY <1>1 DEF Inv, Types, Processes
<1>3. proc[p].is = "server" /\ spared' = spared
  BY DEF Bind, SetRunning, At
<1>4. Types'
  <2> DEFINE new == [proc[p] EXCEPT !.at = at]
  <2>1. proc[p] \in Processes /\ proc' = [proc EXCEPT ![p] = new]
    BY <1>1 DEF Inv, Types
  <2>2. new \in Processes
    BY <2>1 DEF Processes
  <2> HIDE DEF new
  <2>3. proc' \in [Pids -> Processes]
    BY <2>1, <2>2 DEF Inv, Types
  <2>4. QED
    BY <1>3, <2>3 DEF Inv, Types, Bind, SetRunning, service
<1>5. Holder' /\ Serving'
  <2>1. CASE Bind(p)
    <3>1. /\ proc'[p].at = "start" /\ p # Nobody /\ port = Nobody /\ port' = p
          /\ running' = running /\ thread' = thread
      BY <2>1, PidsAssumption DEF Bind, Goto, Inv, Types, Processes, Nobody
    <3>2. \A q \in Pids : Bound(q)' <=> q = p
      <4>1. \A q \in Pids : ~Bound(q)
        BY <3>1, PidsAssumption DEF Inv, Holder, Nobody
      <4>2. QED
        BY <1>2, <1>3, <3>1, <4>1 DEF Bound
    <3>3. Holder'
      BY <3>1, <3>2 DEF Holder
    <3>4. Serving'
      BY <3>1 DEF Inv, Serving
    <3>5. QED
      BY <3>3, <3>4
  <2>2. CASE SetRunning(p)
    <3>1. /\ proc[p].at = "start" /\ proc'[p].at = "join" /\ port' = port
          /\ running' = TRUE /\ thread' = thread
      BY <2>2 DEF SetRunning, Goto, At, Inv, Types, Processes
    <3>2. \A q \in Pids : Bound(q)' <=> Bound(q)
      BY <1>2, <1>3, <3>1 DEF Bound
    <3>3. port = p
      BY <1>3, <3>1 DEF Inv, Holder, Bound
    <3>4. Holder'
      BY <3>1, <3>2 DEF Inv, Holder
    <3>5. p # Nobody
      BY PidsAssumption DEF Nobody
    <3>6. Serving'
      BY <3>1, <3>3, <3>5 DEF Inv, Serving
    <3>7. QED
      BY <3>4, <3>6
  <2>3. QED
    BY <2>1, <2>2
<1>6. Listed'
  <2>1. \A q \in Pids \ {} : Alive(q) => Alive(q)'
    BY <1>2 DEF Alive
  <2>2. \A q \in Pids : Reading(q)' /\ spared'[q] # {} =>
              /\ Reading(q) /\ proc'[q].lines = proc[q].lines
              /\ spared'[q] \subseteq spared[q] \ {}
    BY <1>2, <1>3 DEF Reading, At
  <2>3. QED
    BY <2>1, <2>2, ListsStay
<1>7. QED
  BY <1>4, <1>5, <1>6 DEF Inv

(* Threads find running set, since they are started after it is.           *)
LEMMA ThreadsKeepInv ==
    ASSUME Inv, UNCHANGED <<proc, port, running, spared>>,
           waiting' \in BOOLEAN,
           \/ thread' = thread
           \/ \E t \in Threads : Spawn(t) \/ Enter(t)
    PROVE  Inv'
<1>1. Types'
  BY DEF Inv, Types, Spawn, Enter
<1>2. Holder' /\ Listed'
  BY DEF Inv, Holder, Bound, Listed, Reading, At, Alive
<1>3. Serving'
  <2>1. CASE thread' = thread
    BY <2>1 DEF Inv, Serving
  <2>2. ASSUME NEW t \in Threads, Spawn(t) PROVE Serving'
    <3>1. running
      BY <2>2 DEF Spawn, Spawns, At, Inv, Serving
    <3>2. QED
      BY <2>2, <3>1 DEF Spawn, Inv, Serving, Types
  <2>3. ASSUME NEW t \in Threads, Enter(t) PROVE Serving'
    <3>1. running
      BY <2>3 DEF Enter, Inv, Serving
    <3>2. QED
      BY <2>3, <3>1 DEF Enter, Inv, Serving, Types
  <2>4. QED
    BY <2>1, <2>2, <2>3
<1>4. QED
  BY <1>1, <1>2, <1>3 DEF Inv

(* What a --stop does but for killing changes its own process alone, and   *)
(* the lines and list of its own.                                          *)
LEMMA StopFrame ==
    ASSUME Inv, NEW p \in Pids, NEW new \in Processes, proc' = [proc EXCEPT ![p] = new],
           proc[p].is = "stop", new.is = "stop", UNCHANGED service,
           spared' \in [Pids -> SUBSET Pids], \A q \in Pids \ {p} : spared'[q] = spared[q],
           Reading(p)' => \A q \in spared'[p] :
              Alive(q) /\ q # p /\ \E l \in new.lines : l.pid = q /\ l.ours
    PROVE  Inv'
<1>1. proc'[p] = new /\ \A q \in Pids \ {p} : proc'[q] = proc[q]
  BY DEF Inv, Types
<1>2. Types'
  BY DEF Inv, Types, service
<1>3. ~Bound(p) /\ \A q \in Pids : Bound(q)' <=> Bound(q)
  BY <1>1 DEF Bound
<1>4. Holder'
  BY <1>3 DEF Inv, Holder, service
<1>5. port # Nobody => proc'[port] = proc[port]
  <2>1. port # Nobody => port \in Pids /\ port # p
    BY <1>3 DEF Inv, Types, Holder
  <2>2. QED
    BY <1>1, <2>1
<1>6. Serving'
  BY <1>5 DEF Inv, Serving, service
<1>7. Listed'
  <2>1. \A q \in Pids : Alive(q)' <=> Alive(q)
    BY <1>1 DEF Alive
  <2> SUFFICES ASSUME NEW s \in Pids, Reading(s)', NEW q \in spared'[s]
               PROVE  Alive(q)' /\ q # s /\ \E l \in proc'[s].lines : l.pid = q /\ l.ours
    BY DEF Listed
  <2>2. q \in Pids
    OBVIOUS
  <2>3. CASE s = p
    BY <1>1, <2>1, <2>2, <2>3
  <2>4. CASE s # p
    <3>1. Reading(s) /\ q \in spared[s] /\ proc'[s] = proc[s]
      BY <1>1, <2>4 DEF Reading, At
    <3>2. QED
      BY <2>1, <2>2, <3>1 DEF Inv, Listed
  <2>5. QED
    BY <2>3, <2>4
<1>8. QED
  BY <1>2, <1>4, <1>6, <1>7 DEF Inv

(* ps lists the living.                                                    *)
LEMMA PsKeepsInv ==
    ASSUME Inv, NEW p \in Pids, Ps(p)
    PROVE  Inv'
<1>1. PICK room \in Rooms :
         proc' = [proc EXCEPT ![p].lines = Lines(p), ![p].room = room, ![p].at = "ps"]
  BY DEF Ps
<1> DEFINE new == [proc[p] EXCEPT !.lines = Lines(p), !.room = room, !.at = "ps"]
<1>2. Lines(p) \subseteq [pid : Pids, ours : BOOLEAN]
  <2>1. \A q \in Shown(p) : [pid |-> q, ours |-> proc[q].is # "other"] \in [pid : Pids, ours : BOOLEAN]
    BY DEF Shown
  <2>2. QED
    BY <2>1 DEF Lines
<1>3. proc[p] \in Processes /\ proc[p].is = "stop" /\ UNCHANGED service
  BY DEF Inv, Types, Ps, At
<1>4. new \in Processes /\ new.is = "stop" /\ new.lines = Lines(p)
  BY <1>2, <1>3, RoomsAssumption DEF Processes
<1>5. proc' = [proc EXCEPT ![p] = new]
  BY <1>1 DEF Inv, Types
<1> HIDE DEF new
<1>6. /\ spared' = [spared EXCEPT ![p] = {q \in Shown(p) \ {p} : proc[q].is # "other"}]
      /\ Shown(p) \subseteq Pids
  BY DEF Ps, Shown
<1>7. \A q \in spared'[p] : Alive(q) /\ q # p /\ \E l \in new.lines : l.pid = q /\ l.ours
  <2> SUFFICES ASSUME NEW q \in spared'[p]
               PROVE  Alive(q) /\ q # p /\ \E l \in Lines(p) : l.pid = q /\ l.ours
    BY <1>4
  <2>1. q \in Shown(p) \ {p} /\ proc[q].is # "other"
    BY <1>6 DEF Inv, Types
  <2>2. [pid |-> q, ours |-> proc[q].is # "other"] \in Lines(p)
    BY <2>1 DEF Lines
  <2>3. QED
    BY <2>1, <2>2 DEF Shown
<1>8. spared' \in [Pids -> SUBSET Pids] /\ \A q \in Pids \ {p} : spared'[q] = spared[q]
  BY <1>6 DEF Inv, Types
<1>9. QED
  BY <1>3, <1>4, <1>5, <1>7, <1>8, StopFrame

(* What ps has listed does not change while it writes and ends.            *)
LEMMA PipeKeepsInv ==
    ASSUME Inv, NEW p \in Pids, PsWrites(p) \/ PsEnds(p)
    PROVE  Inv'
<1>1. /\ At(p, "stop", "ps") /\ UNCHANGED <<service, spared>>
      /\ proc[p] \in Processes /\ proc[p].is = "stop"
  BY DEF PsWrites, PsEnds, At, Inv, Types
<1>2. PICK new \in Processes : /\ proc' = [proc EXCEPT ![p] = new]
                               /\ new.is = "stop" /\ new.lines = proc[p].lines
  <2>1. CASE PsWrites(p)
    <3> DEFINE new == [proc[p] EXCEPT !.piped = @ + 1, !.room = @ - 1]
    <3>1. new \in Processes /\ new.is = "stop" /\ new.lines = proc[p].lines
      <4>1. proc[p].room > 0 /\ proc[p].room \in Nat
        BY <1>1, <2>1 DEF Processes, PsWrites
      <4>2. proc[p].piped + 1 \in Nat /\ proc[p].room - 1 \in Nat
        BY <1>1, <4>1 DEF Processes
      <4>3. QED
        BY <1>1, <4>2 DEF Processes
    <3>2. proc' = [proc EXCEPT ![p] = new]
      BY <2>1 DEF PsWrites
    <3>3. QED
      BY <3>1, <3>2
  <2>2. CASE PsEnds(p)
    <3> DEFINE new == [proc[p] EXCEPT !.at = "read"]
    <3>1. new \in Processes /\ new.is = "stop" /\ new.lines = proc[p].lines
      BY <1>1 DEF Processes
    <3>2. proc' = [proc EXCEPT ![p] = new]
      BY <2>2 DEF PsEnds, Goto
    <3>3. QED
      BY <3>1, <3>2
  <2>3. QED
    BY <2>1, <2>2
<1>3. \A q \in spared[p] : Alive(q) /\ q # p /\ \E l \in new.lines : l.pid = q /\ l.ours
  BY <1>1, <1>2 DEF Inv, Listed, Reading
<1>4. QED
  BY <1>1, <1>2, <1>3, StopFrame DEF Inv, Types

(* A line is dropped when it is not one of this program, or when kill()    *)
(* has failed, for the process is dead: no living one loses its line.      *)
LEMMA ReadKeepsInv ==
    ASSUME Inv, NEW p \in Pids, Skip(p) \/ KillFails(p)
    PROVE  Inv'
<1>1. /\ At(p, "stop", "read") /\ UNCHANGED <<service, spared>>
      /\ ~Wanted(p) \/ ~Alive(Line(p).pid)
  BY DEF Skip, KillFails, HasLine
<1>2. proc[p] \in Processes /\ proc[p].is = "stop"
  BY <1>1 DEF Inv, Types, At
<1>3. PICK new \in Processes : /\ proc' = [proc EXCEPT ![p] = new]
                               /\ new.is = "stop"
                               /\ new.lines \in {proc[p].lines, proc[p].lines \ {Line(p)}}
  <2>1. CASE proc' = [proc EXCEPT ![p] = NextLine(p)]
    <3>1. /\ NextLine(p) \in Processes /\ NextLine(p).is = "stop"
          /\ NextLine(p).lines = proc[p].lines \ {Line(p)}
      <4>1. proc[p].lines \ {Line(p)} \subseteq [pid : Pids, ours : BOOLEAN] /\ 0 \in 0..2
        BY <1>2 DEF Processes
      <4>2. QED
        BY <1>2, <4>1 DEF NextLine, Processes
    <3>2. QED
      BY <2>1, <3>1
  <2>2. CASE KillFails(p) /\ proc[p].num < 2
    <3> DEFINE new == [proc[p] EXCEPT !.num = @ + 1]
    <3>1. new \in Processes /\ new.is = "stop" /\ new.lines = proc[p].lines
      BY <1>2, <2>2 DEF Processes
    <3>2. proc' = [proc EXCEPT ![p] = IF proc[p].num < 2 THEN new ELSE NextLine(p)]
      BY <2>2 DEF KillFails
    <3>3. proc' = [proc EXCEPT ![p] = new]
      BY <2>2, <3>2
    <3>4. QED
      BY <3>1, <3>3
  <2>3. QED
    BY <2>1, <2>2 DEF Skip, KillFails, Inv, Types
<1>4. \A q \in spared[p] : Alive(q) /\ q # p /\ \E l \in new.lines : l.pid = q /\ l.ours
  <2> SUFFICES ASSUME NEW q \in spared[p]
               PROVE  Alive(q) /\ q # p /\ \E l \in new.lines : l.pid = q /\ l.ours
    OBVIOUS
  <2>1. Alive(q) /\ q # p
    BY <1>1 DEF Inv, Listed, Reading
  <2>2. PICK l \in proc[p].lines : l.pid = q /\ l.ours
    BY <1>1 DEF Inv, Listed, Reading
  <2>3. l # Line(p)
    BY <1>1, <2>1, <2>2 DEF Wanted
  <2>4. QED
    BY <1>3, <2>1, <2>2, <2>3
<1>5. QED
  BY <1>1, <1>2, <1>3, <1>4, StopFrame DEF Inv, Types

(* Every step keeps the invariant.                                         *)
LEMMA NextKeepsInv == Inv /\ [Next]_vars => Inv'
<1> SUFFICES ASSUME Inv, [Next]_vars PROVE Inv'
  OBVIOUS
<1>1. CASE UNCHANGED vars
  BY <1>1 DEF vars, service, Inv, Types, Holder, Bound, Serving, Listed, Reading, At, Alive
<1>2. CASE Connect \/ Accept \/ \E t \in Threads : Spawn(t) \/ Enter(t)
  BY <1>2, ThreadsKeepInv DEF Connect, Accept, Spawn, Enter, Inv, Types
<1>3. ASSUME NEW p \in Pids, Start(p) \/ Stop(p) \/ OtherExit(p) PROVE Inv'
  <2>1. CASE ForkFails(p) \/ BindFails(p) \/ Kill(p) \/ NoLine(p) \/ OtherExit(p)
    BY <2>1, DeathKeepsInv DEF ForkFails, BindFails, Kill, NoLine, OtherExit
  <2>2. QED
    BY <1>3, <2>1, ForkKeepsInv, ServerKeepsInv, PsKeepsInv, PipeKeepsInv, ReadKeepsInv DEF Start, Stop
<1>4. CASE AcceptThrows
  BY <1>4, DeathKeepsInv DEF AcceptThrows
<1>5. QED
  BY <1>1, <1>2, <1>3, <1>4, LaunchKeepsInv DEF Next

(* The inductive invariant: the port belongs to one server, threads run    *)
(* while its flag running is set, and lists show the living.               *)
THEOREM Invariant == Spec => []Inv
  BY InitInv, NextKeepsInv, PTL DEF Spec

-----------------------------------------------------------------------------
(* However many commands run at the same time and however pids are used    *)
(* again: a --stop that has read its list to the end without success has   *)
(* missed nobody (processStopCmd, tokenization.hh).                        *)
THEOREM NobodyMissed == Spec => []NobodyIsMissed
<1>1. Inv => NobodyIsMissed
  BY DEF Inv, Listed, Reading, NobodyIsMissed
<1>2. QED
  BY <1>1, Invariant, PTL

(* No thread of the service finds running unset and leaves: start() sets   *)
(* it before it starts them (service.hh).                                  *)
THEOREM ThreadsStay == Spec => [](\A t \in Threads : thread[t] # "exit")
<1>1. Inv => \A t \in Threads : thread[t] # "exit"
  BY DEF Inv, Serving
<1>2. QED
  BY <1>1, Invariant, PTL

(* The half of StopEnds about the pipe that is too small: once ps has more *)
(* to write than fits, the command stays where it is until it is killed,   *)
(* whatever else happens (tokenization.hh:164).                            *)
THEOREM FullPipeHoldsStop ==
  Spec => [][\A p \in Pids : TooMuch(p) => TooMuch(p)' \/ proc'[p] = None]_vars
<1> DEFINE Step == \A p \in Pids : TooMuch(p) => TooMuch(p)' \/ proc'[p] = None
<1>1. ASSUME Inv, Next PROVE Step
  <2> SUFFICES ASSUME NEW p \in Pids, TooMuch(p) PROVE TooMuch(p)' \/ proc'[p] = None
    OBVIOUS
  <2>1. proc \in [Pids -> Processes] /\ proc[p] \in Processes /\ At(p, "stop", "ps")
    BY <1>1 DEF Inv, Types, TooMuch
  <2>2. CASE proc'[p] = proc[p]
    BY <2>2 DEF TooMuch, At
  <2>3. ASSUME NEW dead, Die(dead) PROVE proc'[p] = proc[p] \/ proc'[p] = None
    BY <2>3 DEF Die
  <2>4. ASSUME NEW q \in Pids, Start(q) \/ Launch(q) PROVE proc'[p] = proc[p] \/ proc'[p] = None
    BY <2>1, <2>3, <2>4 DEF Start, Launch, Fork, ForkFails, Bind, BindFails, SetRunning, Goto, At,
                            Unused, Alive
  <2>5. CASE PsWrites(p)
    BY <2>1, <2>5 DEF PsWrites, TooMuch, At, Processes
  <2>6. ~PsEnds(p)
    <3>1. proc[p].piped \in Nat /\ proc[p].room \in Nat
      BY <2>1 DEF Processes
    <3>2. QED
      BY <3>1 DEF PsEnds, TooMuch
  <2>7. ASSUME NEW q \in Pids, Stop(q) \/ OtherExit(q), ~PsWrites(p)
        PROVE  proc'[p] = proc[p] \/ proc'[p] = None
    BY <2>1, <2>3, <2>6, <2>7 DEF Stop, OtherExit, Ps, PsWrites, PsEnds, Skip, Kill, KillFails, NoLine,
                                 HasLine, Goto, At
  <2>8. CASE Connect \/ Accept \/ AcceptThrows \/ \E t \in Threads : Spawn(t) \/ Enter(t)
    BY <2>2, <2>3, <2>8 DEF Connect, Accept, AcceptThrows, Spawn, Enter
  <2>9. QED
    BY <1>1, <2>2, <2>4, <2>5, <2>7, <2>8 DEF Next
<1>2. ASSUME UNCHANGED vars PROVE Step
  BY <1>2 DEF vars, TooMuch, At
<1>3. Inv /\ [Next]_vars => [Step]_vars
  BY <1>1, <1>2
<1>4. QED
  BY <1>3, Invariant, PTL DEF Spec

-----------------------------------------------------------------------------
(* ps writes the least pid of those it has left: there is a line to read   *)
(* while there are lines.                                                  *)
LEMMA LineIsOne ==
    ASSUME Inv, NEW p \in Pids, HasLine(p)
    PROVE  Line(p) \in proc[p].lines
<1> DEFINE T == {l.pid : l \in proc[p].lines}
<1>1. T \subseteq Nat /\ T # {} /\ \A l \in proc[p].lines : l.pid \in T
  <2>1. proc[p] \in Processes /\ proc[p].lines # {}
    BY DEF Inv, Types, HasLine
  <2>2. proc[p].lines \subseteq [pid : Pids, ours : BOOLEAN]
    BY <2>1 DEF Processes
  <2>3. \A l \in proc[p].lines : l.pid \in Nat
    BY <2>2, PidsAssumption
  <2>4. QED
    BY <2>1, <2>3
<1> HIDE DEF T
<1>2. PICK x \in T : \A y \in T : ~ (<<y, x>> \in OpToRel(<, Nat))
  BY <1>1, NatLessThanWellFounded, WFMin
<1>3. \A y \in T : x <= y
  <2>1. \A y \in T : ~(y < x)
    BY <1>1, <1>2 DEF OpToRel
  <2>2. QED
    BY <1>1, <2>1
<1>4. PICK l \in proc[p].lines : l.pid = x
  BY DEF T
<1>5. \A m \in proc[p].lines : l.pid <= m.pid
  BY <1>1, <1>3, <1>4
<1>6. QED
  BY <1>4, <1>5 DEF Line

(* The safety half of StopEnds: whatever else happens, each step of a      *)
(* --stop that reads either ends it, or leaves fewer lines than before, or *)
(* is one of at most two further tries for the same line; and nobody else  *)
(* changes it but by killing it (processStopCmd, tokenization.hh).         *)
MovesOn(p) == \/ proc'[p] = None
              \/ /\ At(p, "stop", "read")'
                 /\ \/ proc'[p].lines \subseteq proc[p].lines /\ proc'[p].lines # proc[p].lines
                    \/ proc'[p].lines = proc[p].lines /\ proc'[p].num = proc[p].num + 1
                 /\ proc'[p].num <= 2

THEOREM StopMovesOn ==
  Spec => [][\A p \in Pids : At(p, "stop", "read") /\ proc'[p] # proc[p] => MovesOn(p)]_vars
<1> DEFINE Step == \A p \in Pids : At(p, "stop", "read") /\ proc'[p] # proc[p] => MovesOn(p)
<1>1. ASSUME Inv, Next PROVE Step
  <2> SUFFICES ASSUME NEW p \in Pids, At(p, "stop", "read"), proc'[p] # proc[p] PROVE MovesOn(p)
    OBVIOUS
  <2>1. proc \in [Pids -> Processes] /\ proc[p] \in Processes
    BY <1>1 DEF Inv, Types
  <2>2. ASSUME NEW dead, Die(dead) PROVE proc'[p] = None
    BY <2>2 DEF Die
  <2>3. ASSUME NEW q \in Pids, Skip(q) \/ KillFails(q) PROVE MovesOn(p)
    <3>1. q = p
      BY <2>1, <2>3 DEF Skip, KillFails
    <3>2. HasLine(p) /\ Line(p) \in proc[p].lines
      BY <1>1, <2>3, <3>1, LineIsOne DEF Skip, KillFails
    <3>3. CASE proc' = [proc EXCEPT ![p] = NextLine(p)]
      <4>1. proc'[p].lines = proc[p].lines \ {Line(p)} /\ proc'[p].num = 0
            /\ proc'[p].is = "stop" /\ proc'[p].at = "read"
        BY <2>1, <3>3 DEF NextLine, Processes, At
      <4>2. QED
        BY <3>2, <4>1 DEF MovesOn, At
    <3>4. CASE KillFails(p) /\ proc[p].num < 2
      <4> DEFINE new == [proc[p] EXCEPT !.num = @ + 1]
      <4>1. proc' = [proc EXCEPT ![p] = IF proc[p].num < 2 THEN new ELSE NextLine(p)]
        BY <3>4 DEF KillFails
      <4>2. proc'[p] = new
        BY <2>1, <3>4, <4>1
      <4>3. proc'[p].lines = proc[p].lines /\ proc'[p].num = proc[p].num + 1
            /\ proc'[p].is = "stop" /\ proc'[p].at = "read" /\ proc[p].num \in 0..2
        BY <2>1, <4>2 DEF Processes, At
      <4>4. QED
        BY <3>4, <4>3 DEF MovesOn, At
    <3>5. QED
      BY <2>1, <2>3, <3>1, <3>3, <3>4 DEF Skip, KillFails, Processes
  <2>4. ASSUME NEW q \in Pids, Ps(q) \/ PsWrites(q) \/ PsEnds(q) \/ Bind(q) \/ SetRunning(q)
        PROVE  FALSE
    BY <2>1, <2>4 DEF Ps, PsWrites, PsEnds, Bind, SetRunning, Goto, At
  <2>5. ASSUME NEW q \in Pids, Launch(q) \/ Fork(q) PROVE FALSE
    <3>1. p \notin Unused /\ ~At(p, "server", "fork")
      BY DEF Unused, Alive, At
    <3>2. QED
      BY <2>1, <2>5, <3>1 DEF Launch, Fork
  <2>6. CASE Connect \/ Accept \/ \E t \in Threads : Spawn(t) \/ Enter(t)
    BY <2>6 DEF Connect, Accept, Spawn, Enter
  <2>7. QED
    BY <1>1, <2>2, <2>3, <2>4, <2>5, <2>6
       DEF Next, AcceptThrows, Start, Stop, ForkFails, BindFails, Kill, NoLine, OtherExit, MovesOn
<1>2. ASSUME UNCHANGED vars PROVE Step
  BY <1>2 DEF vars
<1>3. Inv /\ [Next]_vars => [Step]_vars
  BY <1>1, <1>2
<1>4. QED
  BY <1>3, Invariant, PTL DEF Spec
=============================================================================
