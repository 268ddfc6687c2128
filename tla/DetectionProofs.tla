-------------------------- MODULE DetectionProofs --------------------------
(***************************************************************************)
(* The detection of TLS, for any number of clients, record lengths and     *)
(* bytes.  A connection is detected in at most two reads: one of the       *)
(* header, and one of the rest of the record if the header is that of TLS. *)
(* The invariant says in which of them it is, and where its bytes are.     *)
(***************************************************************************)
EXTENDS Detection, TLAPS

(* The first read wants the header, the second one the rest.               *)
Reads(c) == \/ buffer[c] = 0 /\ target[c] = Header
            \/ buffer[c] = Header /\ target[c] = len[c] /\ len[c] # 0 /\ first[c] = "tls"

Phase(c) ==
    /\ drained[c] <= sent[c]
    /\ accepting = c => stage[c] = "backlog"
    /\ stage[c] = "backlog" => /\ buffer[c] = 0 /\ received[c] = 0 /\ drained[c] = 0
                               /\ target[c] = Header
    /\ stage[c] \in {"reading", "data"} => Reads(c)
    /\ stage[c] = "reading" => received[c] < target[c]
    /\ stage[c] = "data" => received[c] = target[c]
    /\ stage[c] \in {"plain", "handshaking"} => received[c] = 0
    /\ stage[c] \in {"reading", "data", "plain", "handshaking"} => buffer[c] + received[c] = drained[c]
    /\ stage[c] = "plain" => first[c] = "other" /\ buffer[c] = Header
    /\ stage[c] \in {"handshaking", "handshaken"} => first[c] = "tls" /\ buffer[c] = Header + len[c]

Inv == TypeOK /\ \A c \in Clients : Phase(c)

(* What the actions need of the types of one client.                       *)
LEMMA Numbers ==
    ASSUME TypeOK, NEW c \in Clients
    PROVE  /\ len[c] \in Nat /\ sent[c] \in Nat /\ drained[c] \in Nat /\ received[c] \in Nat
           /\ buffer[c] \in Nat /\ target[c] \in Nat /\ MaxBytes \in Nat
           /\ sent[c] <= MaxBytes /\ drained[c] <= MaxBytes /\ received[c] <= MaxBytes
           /\ len[c] \in Lengths
<1>1. /\ len[c] \in Lengths /\ target[c] \in Lengths \cup {Header}
      /\ sent[c] \in 0..MaxBytes /\ drained[c] \in 0..MaxBytes
      /\ received[c] \in 0..MaxBytes /\ buffer[c] \in 0..MaxBytes
  BY DEF TypeOK
<1>2. MaxBytes \in Nat /\ Lengths \subseteq Nat /\ Header \in Nat
  BY BytesAssumption DEF Header
<1>3. \A n \in 0..MaxBytes : n \in Nat /\ n <= MaxBytes
  BY <1>2
<1>4. len[c] \in Nat /\ target[c] \in Nat
  BY <1>1, <1>2
<1>5. QED
  BY <1>1, <1>2, <1>3, <1>4

(* Nothing was read at first.                                              *)
LEMMA InitInv == Init => Inv
<1> SUFFICES ASSUME Init PROVE Inv
  OBVIOUS
<1>1. TypeOK
  BY BytesAssumption DEF Init, TypeOK, Stage, Header
<1>2. ASSUME NEW c \in Clients PROVE Phase(c)
  BY ListeningAssumption DEF Init, Phase, Reads
<1>3. QED
  BY <1>1, <1>2 DEF Inv

(* The clients and the network leave what was read alone.                  *)
LEMMA ClientKeepsInv ==
    ASSUME Inv, NEW c \in Clients, SendByte(c) \/ Hangup(c)
    PROVE  Inv'
<1>1. TypeOK'
  <2>1. CASE SendByte(c)
    <3>1. sent[c] + 1 \in 0..MaxBytes
      BY <2>1, Numbers DEF Inv, SendByte
    <3>2. QED
      BY <2>1, <3>1 DEF Inv, TypeOK, SendByte
  <2>2. CASE Hangup(c)
    BY <2>2 DEF Inv, TypeOK, Hangup
  <2>3. QED
    BY <2>1, <2>2
<1>2. \A d \in Clients : sent[d] <= sent'[d]
  BY Numbers DEF Inv, SendByte, Hangup, TypeOK
<1>3. ASSUME NEW d \in Clients PROVE Phase(d)'
  <2>1. drained[d] \in Nat /\ sent[d] \in Nat /\ sent'[d] \in Nat /\ drained[d] <= sent[d]
    BY <1>1, Numbers DEF Inv, TypeOK, Phase
  <2>2. drained[d] <= sent'[d]
    BY <1>2, <2>1
  <2>3. QED
    BY <2>2 DEF Inv, Phase, Reads, SendByte, Hangup
<1>4. QED
  BY <1>1, <1>3 DEF Inv

(* A step of one connection leaves the others alone.                       *)
Frame(c) ==
    \A d \in Clients \ {c} :
       /\ stage'[d] = stage[d] /\ received'[d] = received[d] /\ buffer'[d] = buffer[d]
       /\ target'[d] = target[d] /\ drained'[d] = drained[d]

LEMMA FrameKeepsOthers ==
    ASSUME Inv, NEW c \in Clients, Frame(c), UNCHANGED net,
           accepting' \in {accepting, c, Listening}, NEW d \in Clients, d # c
    PROVE  Phase(d)'
  BY ListeningAssumption DEF Inv, Frame, Phase, Reads, net

(* A connection is accepted, and its session starts to read.               *)
LEMMA AcceptKeepsInv ==
    ASSUME Inv, NEW c \in Clients, Accept(c) \/ OnAccept(c)
    PROVE  Inv'
<1>1. TypeOK'
  BY DEF Inv, TypeOK, Accept, OnAccept, Becomes, net, Stage
<1>2. Frame(c) /\ UNCHANGED net /\ accepting' \in {c, Listening}
  BY DEF Frame, Accept, OnAccept, Becomes, Inv, TypeOK
<1>3. Phase(c)'
  <2>1. CASE Accept(c)
    BY <2>1 DEF Accept, Inv, Phase, Reads, net
  <2>2. CASE OnAccept(c)
    <3>1. stage[c] = "backlog" /\ stage'[c] \in {"reading", "ended"}
      BY <2>2 DEF OnAccept, Becomes, Inv, TypeOK, Phase
    <3>2. accepting' # c
      BY <2>2, ListeningAssumption DEF OnAccept
    <3>3. QED
      BY <2>2, <3>1, <3>2 DEF OnAccept, Inv, Phase, Reads, net, Header
  <2>3. QED
    BY <2>1, <2>2
<1>4. QED
  BY <1>1, <1>2, <1>3, FrameKeepsOthers DEF Inv

(* Some of the bytes that are wanted come, or all.                         *)
LEMMA ReadKeepsInv ==
    ASSUME Inv, NEW c \in Clients, ReadSome(c)
    PROVE  Inv'
<1>1. PICK n \in 1..BytesLeft(c) :
         /\ n <= Unread(c)
         /\ received' = [received EXCEPT ![c] = @ + n]
         /\ drained' = [drained EXCEPT ![c] = @ + n]
         /\ stage' = [stage EXCEPT ![c] = IF n = BytesLeft(c) THEN "data" ELSE "reading"]
  BY DEF ReadSome, Becomes
<1>2. UNCHANGED <<net, buffer, target, accepting, spins, alive>> /\ stage[c] = "reading"
  BY DEF ReadSome
<1>3. /\ received[c] < target[c] /\ buffer[c] + received[c] = drained[c] /\ drained[c] <= sent[c]
      /\ Reads(c) /\ accepting # c
  BY <1>2 DEF Inv, Phase
<1>4. /\ BytesLeft(c) = target[c] - received[c] /\ Unread(c) = sent[c] - drained[c]
      /\ n \in Nat /\ n >= 1 /\ n <= BytesLeft(c)
  BY <1>1, <1>3, Numbers DEF Inv, BytesLeft, Unread
<1>5. /\ received[c] + n \in 0..MaxBytes /\ drained[c] + n \in 0..MaxBytes /\ drained[c] + n <= sent[c]
      /\ buffer[c] + (received[c] + n) = drained[c] + n
      /\ n = BytesLeft(c) => received[c] + n = target[c]
      /\ n # BytesLeft(c) => received[c] + n < target[c]
  BY <1>1, <1>3, <1>4, Numbers DEF Inv
<1>6. TypeOK'
  BY <1>1, <1>2, <1>5 DEF Inv, TypeOK, net, Stage
<1>7. Frame(c)
  BY <1>1, <1>2 DEF Frame, Inv, TypeOK
<1>8. Phase(c)'
  <2>1. /\ received'[c] = received[c] + n /\ drained'[c] = drained[c] + n
        /\ stage'[c] = IF n = BytesLeft(c) THEN "data" ELSE "reading"
    BY <1>1 DEF Inv, TypeOK
  <2>2. Reads(c)'
    BY <1>2, <1>3 DEF Reads, net
  <2>3. QED
    BY <1>2, <1>3, <1>5, <2>1, <2>2 DEF Phase, net
<1>9. QED
  BY <1>2, <1>6, <1>7, <1>8, FrameKeepsOthers DEF Inv

(* The header is not enough only if it is that of TLS and the record has   *)
(* more, and then the rest of it is all that is read.                      *)
LEMMA DataKeepsInv ==
    ASSUME Inv, NEW c \in Clients, OnData(c)
    PROVE  Inv'
<1> DEFINE n == buffer[c] + received[c]
           ssl == IsHandshake(c, n)
<1>1. /\ stage[c] = "data" /\ received[c] = target[c] /\ Reads(c) /\ n = drained[c]
      /\ accepting # c
  BY DEF OnData, Inv, Phase
<1>2. /\ buffer' = [buffer EXCEPT ![c] = n] /\ received' = [received EXCEPT ![c] = 0]
      /\ stage' = [stage EXCEPT ![c] = CASE ssl = "unknown" -> "reading"
                                         [] ssl = "no" -> "plain"
                                         [] ssl = "yes" -> "handshaking"]
      /\ target' = [target EXCEPT ![c] = IF ssl = "unknown" THEN IF n < Header THEN Header ELSE len[c]
                                         ELSE target[c]]
      /\ UNCHANGED <<net, drained, accepting, spins, alive>>
  <2>1. buffer' = [buffer EXCEPT ![c] = n]
    BY DEF OnData, Commits
  <2>2. buffer'[c] = n
    BY <2>1 DEF Inv, TypeOK
  <2>3. QED
    BY <2>1, <2>2 DEF OnData, Becomes, Wanted
<1>3. /\ n \in 0..MaxBytes /\ n \in Nat /\ len[c] \in Nat /\ len[c] \in Lengths
  BY <1>1, Numbers DEF Inv, TypeOK
<1>4. \/ ssl = "no" /\ first[c] = "other" /\ n = Header
      \/ ssl = "yes" /\ first[c] = "tls" /\ n = Header + len[c]
      \/ ssl = "unknown" /\ first[c] = "tls" /\ n = Header /\ len[c] # 0
  <2>1. first[c] \in {"tls", "other"}
    BY DEF Inv, TypeOK
  <2>2. CASE buffer[c] = 0 /\ target[c] = Header
    <3>1. n = Header
      BY <1>1, <2>2 DEF Header
    <3>2. QED
      BY <1>3, <2>1, <3>1 DEF IsHandshake, Header
  <2>3. CASE buffer[c] = Header /\ target[c] = len[c] /\ len[c] # 0 /\ first[c] = "tls"
    <3>1. n = Header + len[c]
      BY <1>1, <2>3
    <3>2. QED
      BY <1>3, <2>3, <3>1 DEF IsHandshake, Header
  <2>4. QED
    BY <1>1, <2>2, <2>3 DEF Reads
<1> HIDE DEF n, ssl
<1>5. /\ buffer'[c] = n /\ received'[c] = 0 /\ drained'[c] = drained[c] /\ sent'[c] = sent[c]
      /\ len'[c] = len[c] /\ first'[c] = first[c]
      /\ stage'[c] = CASE ssl = "unknown" -> "reading" [] ssl = "no" -> "plain" [] ssl = "yes" -> "handshaking"
      /\ target'[c] = IF ssl = "unknown" THEN IF n < Header THEN Header ELSE len[c] ELSE target[c]
  BY <1>2 DEF Inv, TypeOK, net
<1>6. TypeOK'
  <2>1. /\ buffer' \in [Clients -> 0..MaxBytes] /\ received' \in [Clients -> 0..MaxBytes]
        /\ target' \in [Clients -> Lengths \cup {Header}]
    BY <1>2, <1>3, BytesAssumption DEF Inv, TypeOK
  <2>2. stage' \in [Clients -> Stage]
    BY <1>2, <1>4 DEF Inv, TypeOK, Stage
  <2>3. QED
    BY <1>2, <2>1, <2>2 DEF Inv, TypeOK, net
<1>7. Frame(c)
  BY <1>2 DEF Frame, Inv, TypeOK
<1>8. Phase(c)'
  <2>1. n + 0 = drained'[c] /\ drained'[c] <= sent'[c]
    BY <1>1, <1>3, <1>5 DEF Inv, Phase
  <2>2. CASE ssl = "no" /\ first[c] = "other" /\ n = Header
    BY <1>1, <1>2, <1>5, <2>1, <2>2 DEF Phase
  <2>3. CASE ssl = "yes" /\ first[c] = "tls" /\ n = Header + len[c]
    BY <1>1, <1>2, <1>5, <2>1, <2>3 DEF Phase
  <2>4. CASE ssl = "unknown" /\ first[c] = "tls" /\ n = Header /\ len[c] # 0
    <3>1. stage'[c] = "reading" /\ target'[c] = len[c] /\ 0 < len[c] /\ Reads(c)'
      BY <1>3, <1>5, <2>4 DEF Reads, Header
    <3>2. QED
      BY <1>1, <1>2, <1>5, <2>1, <3>1 DEF Phase
  <2>5. QED
    BY <1>4, <2>2, <2>3, <2>4
<1>9. QED
  BY <1>2, <1>6, <1>7, <1>8, FrameKeepsOthers DEF Inv

(* The handshake takes what was sent.                                      *)
LEMMA HandshakeKeepsInv ==
    ASSUME Inv, NEW c \in Clients, Handshake(c) \/ OnHandshake(c)
    PROVE  Inv'
<1>1. /\ stage[c] \in {"handshaking", "handshaken"} /\ accepting # c /\ accepting' = accepting
      /\ UNCHANGED net
  BY DEF Handshake, HandshakeDone, HandshakeFails, OnHandshake, Inv, Phase
<1>2. TypeOK'
  <2>1. UNCHANGED <<net, received, target, accepting, spins, alive>>
    BY DEF Handshake, HandshakeDone, HandshakeFails, OnHandshake
  <2>2. stage' \in [Clients -> Stage] /\ drained' \in [Clients -> 0..MaxBytes]
    BY DEF Inv, TypeOK, Handshake, HandshakeDone, HandshakeFails, OnHandshake, Becomes, Stage
  <2>3. buffer' \in [Clients -> 0..MaxBytes]
    BY BytesAssumption DEF Inv, TypeOK, Handshake, HandshakeDone, HandshakeFails, OnHandshake
  <2>4. QED
    BY <2>1, <2>2, <2>3 DEF Inv, TypeOK, net
<1>3. Frame(c)
  BY DEF Frame, Handshake, HandshakeDone, HandshakeFails, OnHandshake, Becomes, Inv, TypeOK
<1>4. Phase(c)'
  <2>1. drained'[c] <= sent'[c]
    BY <1>1, Numbers DEF Handshake, HandshakeDone, HandshakeFails, OnHandshake, Inv, TypeOK, Phase, net
  <2>2. CASE HandshakeDone(c)
    <3>1. stage'[c] = "handshaken" /\ buffer' = buffer /\ stage[c] = "handshaking"
      BY <2>2 DEF HandshakeDone, Becomes, Inv, TypeOK
    <3>2. QED
      BY <1>1, <2>1, <3>1 DEF Inv, Phase, net
  <2>3. CASE HandshakeFails(c) \/ OnHandshake(c)
    <3>1. stage'[c] \in {"ended", "secure"}
      BY <2>3 DEF HandshakeFails, OnHandshake, Becomes, Inv, TypeOK
    <3>2. QED
      BY <1>1, <2>1, <3>1 DEF Phase
  <2>4. QED
    BY <2>2, <2>3 DEF Handshake
<1>5. QED
  BY <1>1, <1>2, <1>3, <1>4, FrameKeepsOthers DEF Inv

(* Every step keeps the invariant.                                         *)
LEMMA NextKeepsInv == Inv /\ [Next]_vars => Inv'
<1> SUFFICES ASSUME Inv, [Next]_vars PROVE Inv'
  OBVIOUS
<1>1. CASE UNCHANGED vars
  BY <1>1 DEF vars, Inv, TypeOK, Phase, Reads
<1>2. ASSUME NEW c \in Clients, ReadSpins(c) \/ OnDataThrows(c) PROVE Inv'
  <2>1. UNCHANGED <<net, stage, received, buffer, target, drained, accepting>>
    BY <1>2 DEF ReadSpins, OnDataThrows
  <2>2. spins' \in [Clients -> BOOLEAN] /\ alive' \in BOOLEAN
    BY <1>2 DEF ReadSpins, OnDataThrows, Inv, TypeOK
  <2>3. TypeOK'
    BY <2>1, <2>2 DEF Inv, TypeOK, net
  <2>4. \A d \in Clients : Phase(d)'
    BY <2>1 DEF Inv, Phase, Reads, net
  <2>5. QED
    BY <2>3, <2>4 DEF Inv
<1>3. ASSUME NEW c \in Clients, SendByte(c) \/ Hangup(c) \/ Accept(c) \/ Progress(c) PROVE Inv'
  <2>1. CASE SendByte(c) \/ Hangup(c) \/ Accept(c) \/ OnAccept(c)
    BY <2>1, ClientKeepsInv, AcceptKeepsInv
  <2>2. CASE ReadSome(c) \/ OnData(c) \/ Handshake(c) \/ OnHandshake(c)
    BY <2>2, ReadKeepsInv, DataKeepsInv, HandshakeKeepsInv
  <2>3. QED
    BY <1>2, <1>3, <2>1, <2>2 DEF Progress
<1>4. QED
  BY <1>1, <1>3 DEF Next

(* The inductive invariant, for any clients, lengths and bound of bytes.   *)
THEOREM Invariant == Spec => []Inv
  BY InitInv, NextKeepsInv, PTL DEF Spec

(* The types of the listener's, the detection's and the handshake's state. *)
THEOREM Types == Spec => []TypeOK
<1>1. Inv => TypeOK
  BY DEF Inv
<1>2. QED
  BY <1>1, Invariant, PTL

(* However the bytes trickle in, none is lost or read twice on the way     *)
(* into the session's buffer (on_data, detect.hh).                         *)
THEOREM NoneLost == Spec => []NoByteLost
<1>1. Inv => NoByteLost
  BY DEF Inv, Phase, NoByteLost
<1>2. QED
  BY <1>1, Invariant, PTL

(* For every record length: the detection hands over to the right session, *)
(* a TLS one with its whole first record and nothing beyond (is_handshake, *)
(* detect.hh).                                                             *)
THEOREM Detects == Spec => []RightSession
<1>1. Inv => RightSession
  BY DEF Inv, Phase, RightSession
<1>2. QED
  BY <1>1, Invariant, PTL

(* What a read still wants of a client that sent enough was sent.          *)
LEMMA EnoughWasSent ==
  ASSUME Inv, NEW c \in Clients, stage[c] = "reading", Enough(c)
  PROVE  BytesLeft(c) > 0 /\ BytesLeft(c) <= Unread(c)
<1>1. /\ len[c] \in Nat /\ sent[c] \in Nat /\ drained[c] \in Nat /\ received[c] \in Nat
      /\ target[c] \in Nat
  BY Numbers DEF Inv
<1>2. Reads(c) /\ received[c] < target[c] /\ buffer[c] + received[c] = drained[c]
  BY DEF Inv, Phase
<1>3. BytesLeft(c) = target[c] - received[c]
  BY <1>1, <1>2 DEF BytesLeft
<1>4. buffer[c] + target[c] <= sent[c]
  BY <1>1, <1>2 DEF Reads, Enough, Header
<1>5. QED
  BY <1>1, <1>2, <1>3, <1>4 DEF Unread, Reads, Header

(* The safety half of EnoughIsEnough: whatever a read that is under way    *)
(* still wants of a client that sent enough, it wants something, and all   *)
(* of it was sent: no read waits for a byte that a client need not send    *)
(* (read_completion, is_handshake, detect.hh:145-187).                     *)
THEOREM NothingElseAwaited ==
  Spec => [](\A c \in Clients : stage[c] = "reading" /\ Enough(c) =>
                BytesLeft(c) > 0 /\ BytesLeft(c) <= Unread(c))
<1>1. Inv => \A c \in Clients : stage[c] = "reading" /\ Enough(c) =>
                BytesLeft(c) > 0 /\ BytesLeft(c) <= Unread(c)
  BY EnoughWasSent
<1>2. QED
  BY <1>1, Invariant, PTL

(* The endless read of read_completion is kept going only for clients that *)
(* hung up before they had sent a whole header, or the record it announces *)
(* (detect.hh:145-182).                                                    *)
THEOREM SpinsOnlyForShort == Spec => []OnlyShortClientsSpin
<1>1. Init => OnlyShortClientsSpin
  BY DEF Init, OnlyShortClientsSpin
<1>2. Inv /\ OnlyShortClientsSpin /\ [Next]_vars => OnlyShortClientsSpin'
  <2> SUFFICES ASSUME Inv, OnlyShortClientsSpin, [Next]_vars, NEW d \in Clients, spins'[d]
               PROVE  gone'[d] /\ ~Enough(d)'
    BY DEF OnlyShortClientsSpin
  <2>1. CASE spins[d]
    <3>1. gone[d] /\ ~Enough(d)
      BY <2>1 DEF OnlyShortClientsSpin
    <3>2. gone'[d] /\ sent'[d] = sent[d] /\ UNCHANGED <<first, len>>
      BY <3>1 DEF Inv, TypeOK, Next, vars, net, SendByte, Hangup, Accept, Progress, OnAccept,
                  ReadSome, ReadSpins, OnData, OnDataThrows, Handshake, HandshakeDone,
                  HandshakeFails, OnHandshake
    <3>3. QED
      BY <3>1, <3>2 DEF Enough
  <2>2. CASE ~spins[d]
    <3>1. ReadSpins(d)
      BY <2>2 DEF Inv, TypeOK, Next, vars, SendByte, Hangup, Accept, Progress, OnAccept,
                  ReadSome, ReadSpins, OnData, OnDataThrows, Handshake, HandshakeDone,
                  HandshakeFails, OnHandshake
    <3>2. /\ stage[d] = "reading" /\ gone[d] /\ Unread(d) = 0 /\ BytesLeft(d) > 0
          /\ UNCHANGED <<first, len, sent, gone>>
      BY <3>1 DEF ReadSpins, net
    <3>3. ~Enough(d)
      <4>1. BytesLeft(d) \in Nat
        BY Numbers DEF Inv, BytesLeft
      <4>2. QED
        BY <3>2, <4>1, EnoughWasSent
    <3>4. QED
      BY <3>2, <3>3 DEF Enough
  <2>3. QED
    BY <2>1, <2>2
<1>3. QED
  BY <1>1, <1>2, Invariant, PTL DEF Spec
=============================================================================
