----------------------------- MODULE Detection ------------------------------
(***************************************************************************)
(* How a connection to a listener with a TLS context becomes a session:    *)
(* the accept loop (src/include/api/http/listener.hh), the detection of    *)
(* TLS by the first bytes (session/detect.hh) and the TLS handshake        *)
(* (session/secure.hh).  Sessions goes on where a session is established.  *)
(*                                                                         *)
(* Bytes are counted, not spelt out: of what a client sends only the first *)
(* byte (is it 22, a handshake record?) and the length field of the record *)
(* matter.  Boost.Asio, OpenSSL and the clients are external.              *)
(***************************************************************************)
EXTENDS Naturals, FiniteSets

CONSTANTS Clients,    \* those who connect
          Lengths,    \* record lengths a TLS client may announce, 0 included
          MaxBytes    \* bound of the bytes a client sends

ASSUME BytesAssumption == 0 \in Lengths /\ Lengths \subseteq Nat /\ MaxBytes \in Nat

(* sizeof( ssl_record_type )                                               *)
Header == 5

VARIABLES first,      \* first[c]: "tls" if the first byte is 22, else "other"
          len,        \* len[c]: bytes 4 and 5, the length of the record
          sent,       \* sent[c]: bytes the client has sent
          gone,       \* gone[c]: no more bytes come, the connection ended
          stage,      \* stage[c]: the operation or handler under way
          received,   \* received[c]: bytes the current async_read has got
          buffer,     \* buffer[c]: bytes committed to Session::buffer
          target,     \* target[c]: DetectSession::target_length
          drained,    \* history: bytes taken from the socket
          accepting,  \* the client of the session of the current accept
          spins,      \* spins[c]: the read goes on at the end of the stream
          alive       \* no exception left ioc.run()

vars == <<first, len, sent, gone, stage, received, buffer, target, drained, accepting, spins, alive>>
net  == <<first, len, sent, gone>>

Stage == {"backlog", "reading", "data", "plain", "handshaking", "handshaken", "secure", "ended"}

Listening == "listening"
ASSUME ListeningAssumption == Listening \notin Clients

Init == /\ first \in [Clients -> {"tls", "other"}]
        /\ len \in [Clients -> Lengths]
        /\ \A c \in Clients : first[c] = "other" => len[c] = 0   \* never looked at
        /\ sent = [c \in Clients |-> 0]
        /\ gone = [c \in Clients |-> FALSE]
        /\ stage = [c \in Clients |-> "backlog"]
        /\ received = [c \in Clients |-> 0]
        /\ buffer = [c \in Clients |-> 0]
        /\ target = [c \in Clients |-> Header]
        /\ drained = [c \in Clients |-> 0]
        /\ accepting = Listening
        /\ spins = [c \in Clients |-> FALSE]
        /\ alive = TRUE

-----------------------------------------------------------------------------
SendByte(c) == /\ ~gone[c] /\ sent[c] < MaxBytes
               /\ sent' = [sent EXCEPT ![c] = @ + 1]
               /\ UNCHANGED <<first, len, gone, stage, received, buffer, target, drained, accepting, spins, alive>>

Hangup(c) == /\ ~gone[c]
             /\ gone' = [gone EXCEPT ![c] = TRUE]
             /\ UNCHANGED <<first, len, sent, stage, received, buffer, target, drained, accepting, spins, alive>>

-----------------------------------------------------------------------------
Becomes(c, s) == stage' = [stage EXCEPT ![c] = s]

(* async_accept completes with a connection, or with an error.             *)
Accept(c) == /\ alive /\ accepting = Listening /\ stage[c] = "backlog"
             /\ accepting' = c
             /\ UNCHANGED <<net, stage, received, buffer, target, drained, spins, alive>>

(* Mutants: the next async_accept is not started, or not after an error.   *)
OnAcceptOnce(c) == /\ accepting = c /\ stage[c] = "backlog"
                   /\ Becomes(c, "reading")
                   /\ UNCHANGED <<net, received, buffer, target, drained, accepting, spins, alive>>

OnAcceptGivesUp(c) == /\ accepting = c /\ stage[c] = "backlog"
                      /\ \/ Becomes(c, "reading") /\ accepting' = Listening
                         \/ gone[c] /\ Becomes(c, "ended") /\ UNCHANGED accepting
                      /\ UNCHANGED <<net, received, buffer, target, drained, spins, alive>>

(* on_accept_dual: start() of the session, and the next async_accept.  An  *)
(* aborted connection is logged and has no session.                        *)
OnAccept(c) == /\ accepting = c
               /\ \/ Becomes(c, "reading")
                  \/ gone[c] /\ Becomes(c, "ended")
               /\ accepting' = Listening
               /\ UNCHANGED <<net, received, buffer, target, drained, spins, alive>>

Unread(c) == sent[c] - drained[c]

(* read_completion: how many bytes async_read still wants.                 *)
BytesLeft(c) == IF target[c] < received[c] THEN 0 ELSE target[c] - received[c]

(* The composed read gets some bytes and asks read_completion again.       *)
ReadSome(c) ==
    /\ stage[c] = "reading" /\ Unread(c) > 0 /\ BytesLeft(c) > 0
    /\ \E n \in 1..BytesLeft(c) :
          /\ n <= Unread(c)
          /\ received' = [received EXCEPT ![c] = @ + n]
          /\ drained' = [drained EXCEPT ![c] = @ + n]
          /\ Becomes(c, IF n = BytesLeft(c) THEN "data" ELSE "reading")
    /\ UNCHANGED <<net, buffer, target, accepting, spins, alive>>

(* read_completion does not look at the error code: at the end of the      *)
(* stream it still wants bytes, and the read is repeated at once, for ever.*)
ReadSpins(c) == /\ stage[c] = "reading" /\ gone[c] /\ Unread(c) = 0 /\ BytesLeft(c) > 0
                /\ spins' = [spins EXCEPT ![c] = TRUE]
                /\ UNCHANGED <<net, stage, received, buffer, target, drained, accepting, alive>>

(* Mutants: a record whose header is there passes for the whole record;    *)
(* the target counts the header twice; the bytes are not committed.        *)
IsHandshakeByHeader(c, n) == CASE n < Header -> "unknown"
                               [] n >= Header /\ first[c] # "tls" -> "no"
                               [] n >= Header /\ first[c] = "tls" -> "yes"

WantedTwice(c) == IF buffer'[c] < Header THEN Header ELSE Header + len[c]

CommitsNothing(c) == buffer' = buffer

(* is_handshake of n bytes                                                 *)
IsHandshake(c, n) == CASE n < Header -> "unknown"
                       [] n >= Header /\ first[c] # "tls" -> "no"
                       [] n >= Header /\ first[c] = "tls" ->
                            IF len[c] + Header > n THEN "unknown" ELSE "yes"

(* is_handshake also sets the next target_length.                          *)
Wanted(c) == IF buffer'[c] < Header THEN Header ELSE len[c]

Commits(c) == buffer' = [buffer EXCEPT ![c] = @ + received[c]]

(* on_data without an error: commit, and read on or hand the socket and    *)
(* the buffer over to a session of the right kind.                         *)
OnData(c) ==
    /\ stage[c] = "data"
    /\ Commits(c)
    /\ received' = [received EXCEPT ![c] = 0]
    /\ LET ssl == IsHandshake(c, buffer'[c])
       IN  /\ Becomes(c, CASE ssl = "unknown" -> "reading"
                           [] ssl = "no" -> "plain"
                           [] ssl = "yes" -> "handshaking")
           /\ target' = [target EXCEPT ![c] = IF ssl = "unknown" THEN Wanted(c) ELSE @]
    /\ UNCHANGED <<net, drained, accepting, spins, alive>>

(* on_data, do_connect(), the first time: remote_endpoint() of a connection*)
(* that is reset by now throws, and nothing catches it: std::terminate().  *)
OnDataThrows(c) == /\ stage[c] = "data" /\ buffer[c] = 0 /\ gone[c]
                   /\ alive' = FALSE
                   /\ UNCHANGED <<net, stage, received, buffer, target, drained, accepting, spins>>

(* async_handshake consumed the record in the buffer and whatever OpenSSL  *)
(* read beyond it; or it failed, which it may for any reason, and without  *)
(* reading on for a first record that OpenSSL rejects.                     *)
HandshakeDone(c) == /\ stage[c] = "handshaking" /\ Unread(c) > 0
                    /\ drained' = [drained EXCEPT ![c] = sent[c]]
                    /\ Becomes(c, "handshaken")
                    /\ UNCHANGED <<net, received, buffer, target, accepting, spins, alive>>

HandshakeFails(c) == /\ stage[c] = "handshaking"
                     /\ Becomes(c, "ended")
                     /\ UNCHANGED <<net, received, buffer, target, drained, accepting, spins, alive>>

(* on_handshake: consume the used bytes, perform_read().                   *)
OnHandshake(c) == /\ stage[c] = "handshaken"
                  /\ buffer' = [buffer EXCEPT ![c] = 0]
                  /\ Becomes(c, "secure")
                  /\ UNCHANGED <<net, received, target, drained, accepting, spins, alive>>

-----------------------------------------------------------------------------
Handshake(c) == HandshakeDone(c) \/ HandshakeFails(c)

Progress(c) == /\ alive
               /\ \/ OnAccept(c) \/ ReadSome(c) \/ ReadSpins(c)
                  \/ OnData(c) \/ OnDataThrows(c) \/ Handshake(c) \/ OnHandshake(c)

Next == \E c \in Clients : SendByte(c) \/ Hangup(c) \/ Accept(c) \/ Progress(c)

(* Operations that can complete do, and their handlers run; a handshake may*)
(* wait for its client.                                                    *)
Awaited(c) == stage[c] = "handshaking" => Unread(c) > 0 \/ gone[c]

Fairness == \A c \in Clients : WF_vars(Accept(c)) /\ WF_vars(Awaited(c) /\ Progress(c))

Spec == Init /\ [][Next]_vars
FairSpec == Spec /\ Fairness

-----------------------------------------------------------------------------
TypeOK == /\ first \in [Clients -> {"tls", "other"}] /\ len \in [Clients -> Lengths]
          /\ sent \in [Clients -> 0..MaxBytes] /\ drained \in [Clients -> 0..MaxBytes]
          /\ alive \in BOOLEAN
          /\ gone \in [Clients -> BOOLEAN] /\ spins \in [Clients -> BOOLEAN]
          /\ stage \in [Clients -> Stage]
          /\ received \in [Clients -> 0..MaxBytes] /\ buffer \in [Clients -> 0..MaxBytes]
          /\ target \in [Clients -> Lengths \cup {Header}]
          /\ accepting \in Clients \cup {Listening}

(* No byte is lost, and none is read twice, between the socket, the read   *)
(* under way and the buffer, however the bytes trickle in: the session     *)
(* that takes over finds all the client sent (detect.hh:63-118).           *)
NoByteLost == \A c \in Clients :
    stage[c] \in {"reading", "data", "plain", "handshaking"} => buffer[c] + received[c] = drained[c]

(* The kind of session follows from the bytes, a plain session starts with *)
(* the first five of them, and TLS gets the whole first record and nothing *)
(* beyond it, "We want the whole handshake message" (detect.hh:153-187).   *)
RightSession == \A c \in Clients :
    /\ stage[c] = "plain" => first[c] = "other" /\ buffer[c] = Header
    /\ stage[c] \in {"handshaking", "handshaken"} => first[c] = "tls" /\ buffer[c] = Header + len[c]

(* A client that sent enough to be told apart gets its session: no bound   *)
(* on the bytes is waited for that a client need not send                  *)
(* (detect.hh:145-187, listener.hh:60-81).                                 *)
Enough(c) == sent[c] >= Header + (IF first[c] = "tls" THEN len[c] ELSE 0)

EnoughIsEnough == \A c \in Clients :
    Enough(c) ~> stage[c] \in {"plain", "handshaking", "handshaken", "secure", "ended"} \/ ~alive

(* What a client that left leaves behind is gone or handed over in the     *)
(* end, but for one thing: a read that read_completion keeps going at the  *)
(* end of the stream (detect.hh:145-147).                                  *)
LeaverStaysOnlyInRead == \A c \in Clients :
    gone[c] ~> stage[c] \notin {"backlog", "reading", "data", "handshaking"} \/ spins[c] \/ ~alive

(* That read is kept going for nobody who sent enough to be told apart:    *)
(* whoever hangs up after a whole first record is no burden to the server  *)
(* (detect.hh:145-182).                                                    *)
OnlyShortClientsSpin == \A c \in Clients : spins[c] => gone[c] /\ ~Enough(c)
=============================================================================
