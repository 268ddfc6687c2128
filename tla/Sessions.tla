------------------------------ MODULE Sessions ------------------------------
(***************************************************************************)
(* The HTTP sessions of the service (src/include/api/http/session/         *)
(* basic.hh) together with the executor they hand their requests to.       *)
(*                                                                         *)
(* A session reads a request, adds a job that performs it to the executor, *)
(* the job's thread starts the write of the response, and when that is     *)
(* done the session reads again.  Completion handlers run on the threads   *)
(* of the io_context, in the strand of their session; the job runs on a    *)
(* thread of the executor, outside of it.  The executor is TaskPool, which *)
(* Executor is shown to implement; its jobs are the requests.              *)
(*                                                                         *)
(* Boost.Asio, the network and the clients are external: a client sends    *)
(* requests without waiting for the answers, closes its side, or breaks    *)
(* the connection, and an operation completes once it can.                 *)
(***************************************************************************)
EXTENDS Naturals, SequencesExt

CONSTANTS Clients,      \* connections, each with its session
          MaxRequests   \* bound of the requests of a client

ASSUME SessionAssumption == MaxRequests \in Nat

VARIABLES sent,     \* sent[c]: what the client sent so far
          peer,     \* peer[c]: "open", "closed" (FIN) or "reset"
          got,      \* got[c]: responses written to the connection: request and status
          op,       \* op[c]: the operation or handler the session has going
          reads,    \* reads[c]: requests read so far
          known,    \* known[c]: Session::local and remote are set
          answer,   \* answer[c]: status of the response being written
          shut,     \* shut[c]: the sending side was shut down
          alive,    \* no exception left ioc.run()
          threads,  \* the executor has threads; it never changes
          status, open, stopped   \* the executor

Jobs == Clients \X (1..MaxRequests)

Pool == INSTANCE TaskPool

pool == <<status, open, stopped>>
net  == <<sent, peer, threads>>
vars == <<sent, peer, got, op, reads, known, answer, shut, alive, threads, status, open, stopped>>

(* A request asks to keep the connection or to close it, or is no HTTP.    *)
Message == {"keep", "close", "bad"}

Op == {"accept", "reading", "read", "performing", "writing", "written", "unwritten", "ended"}

(* What perform() answers: the handler's response (a 404 for an unknown    *)
(* route is one too), or a 500 if the handler returned false or threw.     *)
Answers == {"handled", "500"}

Job(c) == <<c, reads[c]>>

Init == /\ sent = [c \in Clients |-> <<>>]
        /\ peer = [c \in Clients |-> "open"]
        /\ got = [c \in Clients |-> <<>>]
        /\ op = [c \in Clients |-> "accept"]
        /\ reads = [c \in Clients |-> 0]
        /\ known = [c \in Clients |-> FALSE]
        /\ answer = [c \in Clients |-> "none"]
        /\ shut = [c \in Clients |-> FALSE]
        /\ alive = TRUE
        /\ threads \in BOOLEAN
        /\ Pool!Init

-----------------------------------------------------------------------------
(* The clients.                                                            *)
Send(c) ==
    /\ peer[c] = "open" /\ Len(sent[c]) < MaxRequests
    /\ \E m \in Message : sent' = [sent EXCEPT ![c] = Append(@, m)]
    /\ UNCHANGED <<peer, threads, got, op, reads, known, answer, shut, alive, pool>>

Hangup(c) ==
    /\ peer[c] = "open"
    /\ \E how \in {"closed", "reset"} : peer' = [peer EXCEPT ![c] = how]
    /\ UNCHANGED <<sent, threads, got, op, reads, known, answer, shut, alive, pool>>

Break(c) ==
    /\ peer[c] = "closed"
    /\ peer' = [peer EXCEPT ![c] = "reset"]
    /\ UNCHANGED <<sent, threads, got, op, reads, known, answer, shut, alive, pool>>

-----------------------------------------------------------------------------
Becomes(c, o) == op' = [op EXCEPT ![c] = o]

(* The listener accepted the connection and calls start(): perform_read(). *)
Start(c) ==
    /\ alive /\ op[c] = "accept"
    /\ Becomes(c, "reading")
    /\ UNCHANGED <<net, got, reads, known, answer, shut, alive, pool>>

Arrived(c) == reads[c] < Len(sent[c])
NextMessage(c) == sent[c][reads[c] + 1]

(* async_read completes with a request; on_read is yet to run.  What was   *)
(* received before a reset may already be in the session's buffer.         *)
ReadDone(c) ==
    /\ alive /\ op[c] = "reading" /\ Arrived(c) /\ NextMessage(c) # "bad"
    /\ reads' = [reads EXCEPT ![c] = @ + 1]
    /\ Becomes(c, "read")
    /\ UNCHANGED <<net, got, known, answer, shut, alive, pool>>

(* A session that reads again at the end of the stream never ends.         *)
ReadEndRetries(c) ==
    /\ alive /\ op[c] = "reading" /\ ~Arrived(c) /\ peer[c] = "closed"
    /\ UNCHANGED vars

(* on_read with end_of_stream shuts the sending side down.                 *)
ReadEnd(c) ==
    /\ alive /\ op[c] = "reading" /\ ~Arrived(c) /\ peer[c] = "closed"
    /\ shut' = [shut EXCEPT ![c] = TRUE]
    /\ Becomes(c, "ended")
    /\ UNCHANGED <<net, got, reads, known, answer, alive, pool>>

(* on_read with any other error: the session is forgotten.                 *)
ReadError(c) ==
    /\ alive /\ op[c] = "reading"
    /\ peer[c] = "reset" \/ (Arrived(c) /\ NextMessage(c) = "bad")
    /\ Becomes(c, "ended")
    /\ UNCHANGED <<net, got, reads, known, answer, shut, alive, pool>>

(* on_read, do_connect(): remote_endpoint() of a connection that is reset  *)
(* by now throws, and nothing catches it: std::terminate().                *)
OnReadThrows(c) ==
    /\ alive /\ op[c] = "read" /\ ~known[c] /\ peer[c] = "reset"
    /\ alive' = FALSE
    /\ UNCHANGED <<net, got, op, reads, known, answer, shut, pool>>

(* A session that reads the next request before it answers this one.       *)
OnReadReadsAhead(c) ==
    /\ alive /\ op[c] = "read" /\ (known[c] \/ peer[c] # "reset")
    /\ known' = [known EXCEPT ![c] = TRUE]
    /\ \/ Pool!Accept(Job(c)) /\ Becomes(c, "reading")
       \/ Pool!Drop(Job(c)) /\ Becomes(c, "ended")
    /\ UNCHANGED <<net, got, reads, answer, shut, alive>>

(* on_read: executor->add().  A job the executor does not take is          *)
(* destroyed, and the session and its socket with it.                      *)
OnRead(c) ==
    /\ alive /\ op[c] = "read" /\ (known[c] \/ peer[c] # "reset")
    /\ known' = [known EXCEPT ![c] = TRUE]
    /\ \/ threads /\ Pool!Accept(Job(c)) /\ Becomes(c, "performing")
       \/ ~threads /\ open /\ Pool!Call(Job(c)) /\ Becomes(c, "performing")
       \/ Pool!Drop(Job(c)) /\ Becomes(c, "ended")
    /\ UNCHANGED <<net, got, reads, answer, shut, alive>>

(* A thread of the executor takes the job; it calls perform() some time    *)
(* after, be it that halt() comes in between.                              *)
Take(j) ==
    /\ alive /\ Pool!Take(j)
    /\ UNCHANGED <<net, got, op, reads, known, answer, shut, alive>>

(* A perform() without a response where the handler failed, and one that   *)
(* goes on to the next request instead.                                    *)
PerformUnanswered(c) ==
    /\ alive /\ op[c] = "performing" /\ status[Job(c)] \in {"taken", "called"}
    /\ Becomes(c, "writing")
    /\ UNCHANGED <<net, got, reads, known, answer, shut, alive, pool>>

PerformSkips(c) ==
    /\ alive /\ op[c] = "performing" /\ status[Job(c)] \in {"taken", "called"}
    /\ \E a \in Answers :
          /\ answer' = [answer EXCEPT ![c] = IF a = "500" THEN "none" ELSE a]
          /\ Becomes(c, IF a = "500" THEN "reading" ELSE "writing")
    /\ UNCHANGED <<net, got, reads, known, shut, alive, pool>>

(* perform(): the handler is over, perform_write() starts the write.       *)
Perform(c) ==
    /\ alive /\ op[c] = "performing" /\ status[Job(c)] \in {"taken", "called"}
    /\ \E a \in Answers : answer' = [answer EXCEPT ![c] = a]
    /\ Becomes(c, "writing")
    /\ UNCHANGED <<net, got, reads, known, shut, alive, pool>>

(* perform() returns, perhaps long after that.                             *)
PerformReturns(c, k) ==
    /\ alive /\ (k < reads[c] \/ op[c] # "performing")
    /\ Pool!Finish(<<c, k>>)
    /\ UNCHANGED <<net, got, op, reads, known, answer, shut, alive>>

(* async_write completes.                                                  *)
WriteDone(c) ==
    /\ alive /\ op[c] = "writing" /\ peer[c] # "reset"
    /\ got' = [got EXCEPT ![c] = Append(@, [request |-> reads[c], answer |-> answer[c]])]
    /\ answer' = [answer EXCEPT ![c] = "none"]
    /\ Becomes(c, "written")
    /\ UNCHANGED <<net, reads, known, shut, alive, pool>>

WriteError(c) ==
    /\ alive /\ op[c] = "writing" /\ peer[c] = "reset"
    /\ answer' = [answer EXCEPT ![c] = "none"]
    /\ Becomes(c, "unwritten")
    /\ UNCHANGED <<net, got, reads, known, shut, alive, pool>>

(* on_write: eof, the response told the client that the connection ends.   *)
LastWrite(c) == sent[c][reads[c]] = "close"

(* A job that on_read runs itself has the strand until it returns.         *)
StrandFree(c) == status[Job(c)] # "called"

OnWriteIgnoresEof(c) ==
    /\ alive /\ op[c] \in {"written", "unwritten"} /\ StrandFree(c)
    /\ Becomes(c, IF op[c] = "written" THEN "reading" ELSE "ended")
    /\ UNCHANGED <<net, got, reads, known, answer, shut, alive, pool>>

OnWrite(c) ==
    /\ alive /\ op[c] \in {"written", "unwritten"} /\ StrandFree(c)
    /\ shut' = [shut EXCEPT ![c] = LastWrite(c)]
    /\ Becomes(c, IF op[c] = "written" /\ ~LastWrite(c) THEN "reading" ELSE "ended")
    /\ UNCHANGED <<net, got, reads, known, answer, alive, pool>>

(* halt(): the jobs that wait are destroyed, and their sessions with them. *)
Close ==
    /\ alive /\ Pool!Close
    /\ op' = [c \in Clients |-> IF op[c] = "performing" /\ status[Job(c)] = "pending"
                                THEN "ended" ELSE op[c]]
    /\ UNCHANGED <<net, got, reads, known, answer, shut, alive>>

Stop == /\ alive /\ Pool!Stop
        /\ UNCHANGED <<net, got, op, reads, known, answer, shut, alive>>

-----------------------------------------------------------------------------
Client(c) == Send(c) \/ Hangup(c) \/ Break(c)

Network(c) == ReadDone(c) \/ ReadEnd(c) \/ ReadError(c) \/ WriteDone(c) \/ WriteError(c)

Session(c) == Start(c) \/ OnReadThrows(c) \/ OnRead(c) \/ Perform(c) \/ OnWrite(c)

Next == \/ \E c \in Clients : Client(c) \/ Network(c) \/ Session(c)
        \/ \E c \in Clients, k \in 1..MaxRequests : Take(<<c, k>>) \/ PerformReturns(c, k)
        \/ Close \/ Stop

(* Operations that can complete do, clients read what is sent to them,     *)
(* handlers are run, jobs are taken (Executor: AcceptedJobRuns) and come   *)
(* to their end.  No client has to send or to hang up.                     *)
Fairness == \A c \in Clients : /\ WF_vars(Network(c)) /\ WF_vars(Session(c))
                               /\ \A k \in 1..MaxRequests : /\ WF_vars(Take(<<c, k>>))
                                                            /\ WF_vars(PerformReturns(c, k))

Spec == Init /\ [][Next]_vars
FairSpec == Spec /\ Fairness

-----------------------------------------------------------------------------
TypeOK == /\ sent \in [Clients -> BoundedSeq(Message, MaxRequests)]
          /\ peer \in [Clients -> {"open", "closed", "reset"}]
          /\ \A c \in Clients : \A i \in DOMAIN got[c] :
                got[c][i] \in [request : 1..MaxRequests, answer : Answers]
          /\ op \in [Clients -> Op]
          /\ reads \in [Clients -> 0..MaxRequests]
          /\ known \in [Clients -> BOOLEAN] /\ shut \in [Clients -> BOOLEAN]
          /\ answer \in [Clients -> Answers \cup {"none"}]
          /\ alive \in BOOLEAN /\ threads \in BOOLEAN

(* Responses reach the client in the order of its requests, one for each,  *)
(* though jobs of many sessions run side by side and a client may send the *)
(* next request before it has the answer (basic.hh:128-284).               *)
ResponsesInOrder ==
    \A c \in Clients : /\ Len(got[c]) <= reads[c]
                       /\ \A i \in DOMAIN got[c] : got[c][i].request = i

(* A session's stream has one user at a time, though the strand does not   *)
(* protect it from the executor's threads: a job that has not yet started  *)
(* its write is the session's current one, and nothing is being read or    *)
(* written meanwhile (basic.hh:128-158, 224, 283).                         *)
StreamHasOneUser ==
    \A c \in Clients, k \in 1..MaxRequests :
        /\ status[<<c, k>>] = "pending" => k = reads[c] /\ op[c] = "performing"
        /\ op[c] = "performing" => status[Job(c)] \in {"pending", "taken", "called"}

(* After a request that asked to close the connection no other one of this *)
(* client is performed or answered (basic.hh:174-178, 254).                *)
NothingAfterClose ==
    \A c \in Clients : \A k \in DOMAIN sent[c] :
        sent[c][k] \in {"close", "bad"} => /\ Len(got[c]) <= k
                                           /\ \A m \in (k + 1)..MaxRequests : status[<<c, m>>] = "new"

(* A request that was read is answered, unless the connection breaks, the  *)
(* executor is halted or the process is gone (basic.hh:185-284).           *)
EveryRequestAnswered ==
    \A c \in Clients : \A k \in 1..MaxRequests :
        op[c] = "read" /\ reads[c] = k ~> \/ Len(got[c]) >= k
                                          \/ peer[c] = "reset" \/ ~open \/ ~alive

(* A session whose client is gone ends: no operation keeps it alive.       *)
(* (basic.hh:168-197)                                                      *)
SessionsEnd == \A c \in Clients : peer[c] # "open" ~> op[c] = "ended" \/ ~alive
=============================================================================
