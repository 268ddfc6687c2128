--------------------------- MODULE SessionsProofs ---------------------------
(***************************************************************************)
(* The sessions, for any number of connections and requests.  The          *)
(* invariant counts: which requests a session has read, which of them are  *)
(* answered, and which job of the executor may still use its stream.       *)
(***************************************************************************)
EXTENDS Sessions, SequenceTheorems, TLAPS

Result == [request : Nat, answer : Answers \cup {"none"}]

Types == /\ sent \in [Clients -> Seq(Message)]
         /\ got \in [Clients -> Seq(Result)]
         /\ op \in [Clients -> Op]
         /\ reads \in [Clients -> Nat]
         /\ answer \in [Clients -> Answers \cup {"none"}]
         /\ status \in [Jobs -> {"new", "pending", "taken", "called", "finished", "dropped"}]

(* What was read: nothing that is no HTTP, and nothing after a request     *)
(* that asked to close the connection.                                     *)
Heard(c) == /\ Len(sent[c]) <= MaxRequests /\ reads[c] <= Len(sent[c])
            /\ op[c] = "accept" => reads[c] = 0
            /\ \A k \in 1..reads[c] :
                  /\ sent[c][k] # "bad"
                  /\ k < reads[c] \/ op[c] = "reading" => sent[c][k] = "keep"

(* What was answered: all that was read, or all but the last one.          *)
Answered(c) == /\ \A i \in DOMAIN got[c] : got[c][i].request = i
               /\ Len(got[c]) <= reads[c]
               /\ op[c] \in {"accept", "reading", "written"} => Len(got[c]) = reads[c]
               /\ op[c] \in {"read", "performing", "writing", "unwritten"} => Len(got[c]) + 1 = reads[c]

(* Whose the stream is: the job's that performs the last request.          *)
Stream(c) == /\ \A k \in 1..MaxRequests :
                   /\ k > reads[c] => status[<<c, k>>] = "new"
                   /\ status[<<c, k>>] = "pending" => k = reads[c] /\ op[c] = "performing"
             /\ op[c] = "performing" => status[Job(c)] \in {"pending", "taken", "called"}
             /\ op[c] = "read" => status[Job(c)] = "new"

Own(c) == Heard(c) /\ Answered(c) /\ Stream(c)

Inv == Types /\ \A c \in Clients : Own(c)

-----------------------------------------------------------------------------
(* The last request that was read has a job.                               *)
LEMMA LastHasJob ==
    ASSUME Inv, NEW c \in Clients, op[c] \notin {"accept", "reading", "written", "ended"}
    PROVE  reads[c] \in 1..MaxRequests /\ Job(c) \in Jobs /\ reads[c] \in Nat
<1>1. reads[c] \in Nat /\ Len(got[c]) \in Nat /\ Len(sent[c]) \in Nat /\ op[c] \in Op
  BY LenProperties DEF Inv, Types
<1>2. Len(got[c]) + 1 = reads[c] /\ reads[c] <= Len(sent[c]) /\ Len(sent[c]) <= MaxRequests
  BY <1>1 DEF Inv, Own, Heard, Answered, Op
<1>3. QED
  BY <1>1, <1>2, SessionAssumption DEF Job, Jobs

(* A connection nothing of which has changed.                              *)
LEMMA OthersKeepOwn ==
    ASSUME Inv, NEW d \in Clients,
           /\ sent'[d] = sent[d] /\ got'[d] = got[d] /\ op'[d] = op[d] /\ reads'[d] = reads[d],
           \A k \in 1..MaxRequests : status'[<<d, k>>] = status[<<d, k>>]
    PROVE  Own(d)'
<1>1. Heard(d)' /\ Answered(d)'
  BY DEF Inv, Own, Heard, Answered
<1>2. Stream(d)'
  <2>1. op[d] \in {"performing", "read"} => reads[d] \in 1..MaxRequests
    BY LastHasJob
  <2>2. QED
    BY <2>1 DEF Inv, Own, Stream, Job
<1>3. QED
  BY <1>1, <1>2 DEF Own

(* Nothing was sent at first.                                              *)
LEMMA InitInv == Init => Inv
<1> SUFFICES ASSUME Init PROVE Inv
  OBVIOUS
<1>1. \A c \in Clients : /\ sent[c] = <<>> /\ got[c] = <<>> /\ op[c] = "accept" /\ reads[c] = 0
  BY DEF Init
<1>2. \A j \in Jobs : status[j] = "new"
  BY DEF Init, Pool!Init
<1>3. Types
  <2>1. <<>> \in Seq(Message) /\ <<>> \in Seq(Result)
    OBVIOUS
  <2>2. QED
    BY <2>1 DEF Init, Pool!Init, Types, Op
<1>4. ASSUME NEW c \in Clients PROVE Own(c)
  <2>1. Heard(c) /\ Answered(c)
    BY <1>1, SessionAssumption DEF Heard, Answered
  <2>2. Stream(c)
    BY <1>1, <1>2 DEF Stream, Jobs
  <2>3. QED
    BY <2>1, <2>2 DEF Own
<1>5. QED
  BY <1>3, <1>4 DEF Inv

(* A client sends one message more.                                        *)
LEMMA SendKeepsInv ==
    ASSUME Inv, NEW c \in Clients, Send(c)
    PROVE  Inv'
<1>1. PICK m \in Message : sent' = [sent EXCEPT ![c] = Append(@, m)]
  BY DEF Send
<1>2. /\ UNCHANGED <<got, op, reads, answer, status>> /\ Len(sent[c]) < MaxRequests
  BY DEF Send, pool
<1>3. sent[c] \in Seq(Message) /\ reads[c] \in Nat /\ Len(sent[c]) \in Nat
  BY LenProperties DEF Inv, Types
<1>4. /\ Append(sent[c], m) \in Seq(Message) /\ Len(Append(sent[c], m)) = Len(sent[c]) + 1
      /\ \A k \in 1..Len(sent[c]) : Append(sent[c], m)[k] = sent[c][k]
  BY <1>3, AppendProperties
<1>5. Types'
  BY <1>1, <1>2, <1>4 DEF Inv, Types
<1>6. Own(c)'
  <2>1. sent'[c] = Append(sent[c], m)
    BY <1>1 DEF Inv, Types
  <2>2. Heard(c)
    BY DEF Inv, Own
  <2>3. Len(sent'[c]) <= MaxRequests /\ reads'[c] <= Len(sent'[c])
    BY <1>2, <1>3, <1>4, <2>1, <2>2, SessionAssumption DEF Heard
  <2>4. \A k \in 1..reads[c] : k \in 1..Len(sent[c]) /\ sent'[c][k] = sent[c][k]
    BY <1>3, <1>4, <2>1, <2>2 DEF Heard
  <2>5. Heard(c)'
    BY <1>2, <2>2, <2>3, <2>4 DEF Heard
  <2>6. Answered(c)' /\ Stream(c)'
    BY <1>2 DEF Inv, Own, Answered, Stream, Job
  <2>7. QED
    BY <2>5, <2>6 DEF Own
<1>7. ASSUME NEW d \in Clients, d # c PROVE Own(d)'
  <2>1. sent'[d] = sent[d]
    BY <1>1, <1>7 DEF Inv, Types
  <2>2. QED
    BY <1>2, <2>1, OthersKeepOwn
<1>8. QED
  BY <1>5, <1>6, <1>7 DEF Inv

(* The steps that only move a session on, to o.                            *)
LEMMA MoveKeepsInv ==
    ASSUME Inv, NEW c \in Clients, NEW o \in Op, op' = [op EXCEPT ![c] = o],
           UNCHANGED <<sent, got, reads, status>>,
           answer' \in [Clients -> Answers \cup {"none"}],
           \/ o = "ended" /\ op[c] # "performing"
           \/ o = "reading" /\ op[c] = "accept"
           \/ o = "reading" /\ op[c] = "written" /\ sent[c][reads[c]] # "close"
           \/ o = "writing" /\ op[c] = "performing" /\ status[Job(c)] # "pending"
           \/ o = "unwritten" /\ op[c] = "writing"
    PROVE  Inv'
<1>1. Types'
  BY DEF Inv, Types
<1>2. op'[c] = o
  BY DEF Inv, Types
<1>3. sent[c] \in Seq(Message) /\ reads[c] \in Nat /\ Len(sent[c]) \in Nat /\ Len(got[c]) \in Nat
  BY LenProperties DEF Inv, Types
<1>4. Heard(c)'
  <2>1. Heard(c)
    BY DEF Inv, Own
  <2>2. CASE o # "reading"
    BY <1>2, <2>1, <2>2 DEF Heard, Op
  <2>3. CASE op[c] = "accept"
    <3>1. reads[c] = 0
      BY <2>1, <2>3 DEF Heard
    <3>2. 1..reads[c] = {}
      BY <3>1
    <3>3. QED
      BY <1>2, <2>1, <3>1, <3>2 DEF Heard
  <2>4. CASE o = "reading" /\ op[c] = "written" /\ sent[c][reads[c]] # "close"
    <3>1. \A k \in 1..reads[c] : sent[c][k] \in Message
      BY <1>3, <2>1, ElementOfSeq DEF Heard
    <3>2. \A k \in 1..reads[c] : sent[c][k] = "keep"
      BY <1>3, <2>1, <2>4, <3>1 DEF Heard, Message
    <3>3. QED
      BY <1>2, <2>1, <2>4, <3>2 DEF Heard
  <2>5. QED
    BY <2>2, <2>3, <2>4
<1>5. Answered(c)'
  BY <1>2, <1>3 DEF Inv, Own, Answered
<1>6. Stream(c)'
  <2>1. \A k \in 1..MaxRequests : status[<<c, k>>] # "pending"
    BY DEF Inv, Own, Stream, Job
  <2>2. QED
    BY <1>2, <2>1 DEF Inv, Own, Stream, Job
<1>7. ASSUME NEW d \in Clients, d # c PROVE Own(d)'
  <2>1. op'[d] = op[d]
    BY <1>7 DEF Inv, Types
  <2>2. QED
    BY <2>1, OthersKeepOwn
<1>8. QED
  BY <1>1, <1>4, <1>5, <1>6, <1>7 DEF Inv, Own

(* A request is read when all before it are answered.                      *)
LEMMA ReadKeepsInv ==
    ASSUME Inv, NEW c \in Clients, ReadDone(c)
    PROVE  Inv'
<1>1. /\ op[c] = "reading" /\ reads[c] < Len(sent[c]) /\ sent[c][reads[c] + 1] # "bad"
      /\ reads' = [reads EXCEPT ![c] = @ + 1] /\ op' = [op EXCEPT ![c] = "read"]
      /\ UNCHANGED <<sent, got, answer, status>>
  BY DEF ReadDone, Arrived, NextMessage, Becomes, net, pool
<1>2. /\ sent[c] \in Seq(Message) /\ reads[c] \in Nat /\ Len(sent[c]) \in Nat /\ Len(got[c]) \in Nat
      /\ reads'[c] = reads[c] + 1 /\ op'[c] = "read"
  BY <1>1, LenProperties DEF Inv, Types
<1>3. Types'
  BY <1>1, <1>2 DEF Inv, Types, Op
<1>4. Own(c)
  BY DEF Inv
<1>5. Heard(c)'
  BY <1>1, <1>2, <1>4 DEF Own, Heard
<1>6. Answered(c)'
  BY <1>1, <1>2, <1>4 DEF Own, Answered
<1>7. Stream(c)'
  <2>1. \A k \in 1..MaxRequests : status[<<c, k>>] # "pending"
    BY <1>1, <1>4 DEF Own, Stream
  <2>2. reads[c] + 1 \in 1..MaxRequests
    BY <1>1, <1>2, <1>4, SessionAssumption DEF Own, Heard
  <2>3. status[<<c, reads[c] + 1>>] = "new"
    BY <1>2, <1>4, <2>2 DEF Own, Stream
  <2>4. QED
    BY <1>1, <1>2, <1>4, <2>1, <2>3, SessionAssumption DEF Own, Stream, Job
<1>8. ASSUME NEW d \in Clients, d # c PROVE Own(d)'
  <2>1. op'[d] = op[d] /\ reads'[d] = reads[d]
    BY <1>1, <1>8 DEF Inv, Types
  <2>2. QED
    BY <1>1, <2>1, OthersKeepOwn
<1>9. QED
  BY <1>3, <1>5, <1>6, <1>7, <1>8 DEF Inv, Own

(* The executor is asked to perform the request that was read.             *)
LEMMA OnReadKeepsInv ==
    ASSUME Inv, NEW c \in Clients, OnRead(c)
    PROVE  Inv'
<1>1. PICK s \in {"pending", "called", "dropped"} :
         /\ status' = [status EXCEPT ![Job(c)] = s]
         /\ op' = [op EXCEPT ![c] = IF s = "dropped" THEN "ended" ELSE "performing"]
  BY DEF OnRead, Becomes, Pool!Accept, Pool!Call, Pool!Drop
<1>2. op[c] = "read" /\ UNCHANGED <<sent, got, reads, answer>>
  BY DEF OnRead, net
<1>3. Job(c) \in Jobs /\ reads[c] \in 1..MaxRequests /\ reads[c] \in Nat
  BY <1>2, LastHasJob
<1>4. Types'
  BY <1>1, <1>2 DEF Inv, Types, Op
<1>5. /\ op'[c] = IF s = "dropped" THEN "ended" ELSE "performing"
      /\ status'[Job(c)] = s
      /\ \A j \in Jobs : j # Job(c) => status'[j] = status[j]
  BY <1>1, <1>3 DEF Inv, Types
<1>6. Own(c)
  BY DEF Inv
<1>7. Heard(c)' /\ Answered(c)'
  <2>1. Len(got[c]) \in Nat
    BY LenProperties DEF Inv, Types
  <2>2. QED
    BY <1>2, <1>3, <1>5, <1>6, <2>1 DEF Own, Heard, Answered
<1>8. Stream(c)'
  <2>1. ASSUME NEW k \in 1..MaxRequests, k # reads[c] PROVE status'[<<c, k>>] = status[<<c, k>>]
    BY <1>5, <2>1 DEF Job, Jobs
  <2>2. \A k \in 1..MaxRequests : k # reads[c] => status[<<c, k>>] # "pending"
    BY <1>6 DEF Own, Stream
  <2>3. QED
    BY <1>2, <1>3, <1>5, <1>6, <2>1, <2>2 DEF Own, Stream, Job
<1>9. ASSUME NEW d \in Clients, d # c PROVE Own(d)'
  <2>1. op'[d] = op[d] /\ \A k \in 1..MaxRequests : status'[<<d, k>>] = status[<<d, k>>]
    BY <1>1, <1>5, <1>9 DEF Inv, Types, Job, Jobs
  <2>2. QED
    BY <1>2, <2>1, OthersKeepOwn
<1>10. QED
  BY <1>4, <1>7, <1>8, <1>9 DEF Inv, Own

(* A job starts, or returns after it has started the write.                *)
LEMMA JobKeepsInv ==
    ASSUME Inv, NEW c \in Clients, NEW k \in 1..MaxRequests, Take(<<c, k>>) \/ PerformReturns(c, k)
    PROVE  Inv'
<1>1. PICK s \in {"taken", "finished"} :
         /\ status' = [status EXCEPT ![<<c, k>>] = s]
         /\ status[<<c, k>>] \in {"pending", "taken", "called"}
         /\ s = "finished" => k < reads[c] \/ op[c] # "performing"
  BY DEF Take, PerformReturns, Pool!Take, Pool!Finish
<1>2. UNCHANGED <<sent, got, op, reads, answer>>
  BY DEF Take, PerformReturns, net
<1>3. <<c, k>> \in Jobs
  BY DEF Jobs
<1>4. Types'
  BY <1>1, <1>2 DEF Inv, Types
<1>5. /\ status'[<<c, k>>] = s
      /\ \A j \in Jobs : j # <<c, k>> => status'[j] = status[j]
  BY <1>1, <1>3 DEF Inv, Types
<1>6. Own(c)'
  <2>1. Own(c) /\ reads[c] \in Nat
    BY DEF Inv, Types
  <2>2. k <= reads[c]
    BY <1>1, <2>1 DEF Own, Stream
  <2>3. \A m \in 1..MaxRequests : m # k => status'[<<c, m>>] = status[<<c, m>>]
    BY <1>5 DEF Jobs
  <2>4. op[c] = "read" => k # reads[c]
    BY <1>1, <2>1 DEF Own, Stream, Job
  <2>5. op[c] \in {"read", "performing"} => reads[c] \in 1..MaxRequests
    BY LastHasJob
  <2>6. Stream(c)'
    <3>1. \A m \in 1..MaxRequests : m > reads[c] => status'[<<c, m>>] = "new"
      BY <2>1, <2>2, <2>3 DEF Own, Stream
    <3>2. \A m \in 1..MaxRequests : status'[<<c, m>>] = "pending" => m = reads[c] /\ op[c] = "performing"
      BY <1>5, <2>1, <2>3 DEF Own, Stream
    <3>3. op[c] = "performing" => status'[Job(c)] \in {"pending", "taken", "called"}
      BY <1>1, <1>5, <2>1, <2>3, <2>5 DEF Own, Stream, Job
    <3>4. op[c] = "read" => status'[Job(c)] = "new"
      BY <2>1, <2>3, <2>4, <2>5 DEF Own, Stream, Job
    <3>5. QED
      BY <1>2, <3>1, <3>2, <3>3, <3>4 DEF Stream, Job
  <2>7. QED
    BY <1>2, <2>1, <2>6 DEF Own, Heard, Answered
<1>7. ASSUME NEW d \in Clients, d # c PROVE Own(d)'
  <2>1. \A m \in 1..MaxRequests : status'[<<d, m>>] = status[<<d, m>>]
    BY <1>5, <1>7 DEF Jobs
  <2>2. QED
    BY <1>2, <2>1, OthersKeepOwn
<1>8. QED
  BY <1>4, <1>6, <1>7 DEF Inv

(* The response that is written is the one to the last request.            *)
LEMMA WriteKeepsInv ==
    ASSUME Inv, NEW c \in Clients, WriteDone(c)
    PROVE  Inv'
<1> DEFINE new == [request |-> reads[c], answer |-> answer[c]]
<1>1. /\ op[c] = "writing" /\ got' = [got EXCEPT ![c] = Append(@, new)]
      /\ answer' = [answer EXCEPT ![c] = "none"] /\ op' = [op EXCEPT ![c] = "written"]
      /\ UNCHANGED <<sent, reads, status>>
  BY DEF WriteDone, Becomes, net, pool
<1>2. new \in Result /\ got[c] \in Seq(Result) /\ reads[c] \in Nat /\ new.request = reads[c]
  BY DEF Inv, Types, Result
<1> HIDE DEF new
<1>3. /\ Append(got[c], new) \in Seq(Result) /\ Len(Append(got[c], new)) = Len(got[c]) + 1
      /\ \A i \in 1..Len(got[c]) : Append(got[c], new)[i] = got[c][i]
      /\ Append(got[c], new)[Len(got[c]) + 1] = new
      /\ Len(got[c]) \in Nat
  BY <1>2, AppendProperties, LenProperties
<1>4. Types'
  BY <1>1, <1>3 DEF Inv, Types, Op
<1>5. got'[c] = Append(got[c], new) /\ op'[c] = "written" /\ Own(c)
  BY <1>1 DEF Inv, Types
<1>6. Heard(c)' /\ Stream(c)'
  BY <1>1, <1>5 DEF Own, Heard, Stream, Job
<1>7. Answered(c)'
  <2>1. Len(got'[c]) = reads'[c] /\ Len(got[c]) + 1 = reads[c]
    BY <1>1, <1>3, <1>5 DEF Own, Answered
  <2>2. DOMAIN got'[c] = 1..(Len(got[c]) + 1) /\ DOMAIN got[c] = 1..Len(got[c])
    BY <1>2, <1>3, <1>5, LenProperties
  <2>3. \A i \in DOMAIN got'[c] : got'[c][i].request = i
    BY <1>2, <1>3, <1>5, <2>1, <2>2 DEF Own, Answered
  <2>4. QED
    BY <1>1, <1>2, <1>3, <1>5, <2>1, <2>3 DEF Answered
<1>8. ASSUME NEW d \in Clients, d # c PROVE Own(d)'
  <2>1. op'[d] = op[d] /\ got'[d] = got[d]
    BY <1>1, <1>8 DEF Inv, Types
  <2>2. QED
    BY <1>1, <2>1, OthersKeepOwn
<1>9. QED
  BY <1>4, <1>6, <1>7, <1>8 DEF Inv, Own

(* Closing the executor ends the sessions whose job waits.                 *)
LEMMA CloseKeepsInv ==
    ASSUME Inv, Close
    PROVE  Inv'
<1>1. /\ op' = [c \in Clients |-> IF op[c] = "performing" /\ status[Job(c)] = "pending"
                                  THEN "ended" ELSE op[c]]
      /\ status' = [j \in Jobs |-> IF status[j] = "pending" THEN "dropped" ELSE status[j]]
      /\ UNCHANGED <<sent, got, reads, answer>>
  BY DEF Close, Pool!Close, net
<1>2. Types'
  BY <1>1 DEF Inv, Types, Op
<1>3. ASSUME NEW c \in Clients PROVE Own(c)'
  <2>1. Own(c) /\ reads[c] \in Nat /\ Len(got[c]) \in Nat
    BY LenProperties DEF Inv, Types
  <2>2. Heard(c)' /\ Answered(c)'
    BY <1>1, <2>1 DEF Own, Heard, Answered
  <2>3. \A k \in 1..MaxRequests :
           status'[<<c, k>>] = IF status[<<c, k>>] = "pending" THEN "dropped" ELSE status[<<c, k>>]
    BY <1>1 DEF Jobs
  <2>4. op[c] \in {"read", "performing"} => reads[c] \in 1..MaxRequests
    BY LastHasJob
  <2>5. Stream(c)'
    BY <1>1, <2>1, <2>3, <2>4 DEF Own, Stream, Job
  <2>6. QED
    BY <2>2, <2>5 DEF Own
<1>4. QED
  BY <1>2, <1>3 DEF Inv

(* Every step keeps the invariant.                                         *)
LEMMA NextKeepsInv == Inv /\ [Next]_vars => Inv'
<1> SUFFICES ASSUME Inv, [Next]_vars PROVE Inv'
  OBVIOUS
<1>1. CASE UNCHANGED <<sent, got, op, reads, answer, status>>
  <2>1. Types'
    BY <1>1 DEF Inv, Types
  <2>2. QED
    BY <1>1, <2>1, OthersKeepOwn DEF Inv
<1>2. ASSUME NEW c \in Clients, Client(c) PROVE Inv'
  <2>1. CASE Send(c)
    BY <2>1, SendKeepsInv
  <2>2. CASE Hangup(c) \/ Break(c)
    BY <1>1, <2>2 DEF Hangup, Break, pool
  <2>3. QED
    BY <1>2, <2>1, <2>2 DEF Client
<1>3. ASSUME NEW c \in Clients, Network(c) PROVE Inv'
  <2>1. CASE ReadEnd(c) \/ ReadError(c)
    <3>1. /\ op[c] = "reading" /\ op' = [op EXCEPT ![c] = "ended"] /\ "ended" \in Op
          /\ UNCHANGED <<sent, got, reads, answer, status>>
      BY <2>1 DEF ReadEnd, ReadError, Becomes, net, pool, Op
    <3>2. answer' \in [Clients -> Answers \cup {"none"}]
      BY <3>1 DEF Inv, Types
    <3>3. QED
      BY <3>1, <3>2, MoveKeepsInv
  <2>2. CASE WriteError(c)
    <3>1. /\ op[c] = "writing" /\ op' = [op EXCEPT ![c] = "unwritten"] /\ "unwritten" \in Op
          /\ UNCHANGED <<sent, got, reads, status>>
          /\ answer' \in [Clients -> Answers \cup {"none"}]
      BY <2>2 DEF WriteError, Becomes, net, pool, Op, Inv, Types
    <3>2. QED
      BY <3>1, MoveKeepsInv
  <2>3. QED
    BY <1>3, <2>1, <2>2, ReadKeepsInv, WriteKeepsInv DEF Network
<1>4. ASSUME NEW c \in Clients, Session(c) PROVE Inv'
  <2>1. CASE Start(c)
    <3>1. /\ op[c] = "accept" /\ op' = [op EXCEPT ![c] = "reading"] /\ "reading" \in Op
          /\ UNCHANGED <<sent, got, reads, answer, status>>
      BY <2>1 DEF Start, Becomes, net, pool, Op
    <3>2. answer' \in [Clients -> Answers \cup {"none"}]
      BY <3>1 DEF Inv, Types
    <3>3. QED
      BY <3>1, <3>2, MoveKeepsInv
  <2>2. CASE Perform(c)
    <3>1. /\ op[c] = "performing" /\ op' = [op EXCEPT ![c] = "writing"] /\ "writing" \in Op
          /\ status[Job(c)] # "pending"
          /\ UNCHANGED <<sent, got, reads, status>>
          /\ answer' \in [Clients -> Answers \cup {"none"}]
      BY <2>2 DEF Perform, Becomes, net, pool, Op, Inv, Types
    <3>2. QED
      BY <3>1, MoveKeepsInv
  <2>3. CASE OnWrite(c)
    <3>1. /\ op[c] \in {"written", "unwritten"} /\ {"reading", "ended"} \subseteq Op
          /\ UNCHANGED <<sent, got, reads, answer, status>>
      BY <2>3 DEF OnWrite, net, pool, Op
    <3>2. answer' \in [Clients -> Answers \cup {"none"}]
      BY <3>1 DEF Inv, Types
    <3>3. \/ /\ op' = [op EXCEPT ![c] = "reading"]
             /\ op[c] = "written" /\ sent[c][reads[c]] # "close"
          \/ op' = [op EXCEPT ![c] = "ended"]
      BY <2>3 DEF OnWrite, Becomes, LastWrite
    <3>4. QED
      BY <3>1, <3>2, <3>3, MoveKeepsInv
  <2>4. CASE OnReadThrows(c)
    BY <1>1, <2>4 DEF OnReadThrows, net, pool
  <2>5. QED
    BY <1>4, <2>1, <2>2, <2>3, <2>4, OnReadKeepsInv DEF Session
<1>5. CASE Stop
  BY <1>1, <1>5 DEF Stop, Pool!Stop, net
<1>6. CASE UNCHANGED vars
  BY <1>1, <1>6 DEF vars
<1>7. QED
  BY <1>2, <1>3, <1>4, <1>5, <1>6, CloseKeepsInv, JobKeepsInv DEF Next

(* The inductive invariant, for any connections and number of requests.    *)
THEOREM Invariant == Spec => []Inv
  BY InitInv, NextKeepsInv, PTL DEF Spec

(* However many sessions share the executor and however early a client     *)
(* sends its next request: responses come in the order of the requests     *)
(* (on_read, perform, on_write of basic.hh).                               *)
THEOREM InOrder == Spec => []ResponsesInOrder
<1>1. Inv => ResponsesInOrder
  BY DEF Inv, Own, Answered, ResponsesInOrder
<1>2. QED
  BY <1>1, Invariant, PTL

(* No thread of the executor can find a session's stream in use: a job     *)
(* that has not started its write is that of the last request.             *)
THEOREM OneUser == Spec => []StreamHasOneUser
<1>1. Inv => StreamHasOneUser
  BY DEF Inv, Own, Stream, StreamHasOneUser
<1>2. QED
  BY <1>1, Invariant, PTL

(* What follows a request to close the connection is never performed.      *)
THEOREM CloseIsLast == Spec => []NothingAfterClose
<1>1. ASSUME Inv PROVE NothingAfterClose
  <2> SUFFICES ASSUME NEW c \in Clients, NEW k \in DOMAIN sent[c], sent[c][k] \in {"close", "bad"}
               PROVE  Len(got[c]) <= k /\ \A m \in (k + 1)..MaxRequests : status[<<c, m>>] = "new"
    BY DEF NothingAfterClose
  <2>1. /\ Own(c) /\ reads[c] \in Nat /\ Len(got[c]) \in Nat /\ Len(sent[c]) \in Nat
        /\ DOMAIN sent[c] = 1..Len(sent[c])
    BY <1>1, LenProperties DEF Inv, Types
  <2>2. reads[c] <= k
    BY <2>1 DEF Own, Heard
  <2>3. Len(got[c]) <= k
    BY <2>1, <2>2 DEF Own, Answered
  <2>4. \A m \in (k + 1)..MaxRequests : m \in 1..MaxRequests /\ m > reads[c]
    BY <2>1, <2>2, SessionAssumption
  <2>5. QED
    BY <2>1, <2>3, <2>4 DEF Own, Stream
<1>2. QED
  BY <1>1, Invariant, PTL
-----------------------------------------------------------------------------
(* What Inv leaves out: the variables on which no request depends, and the *)
(* answers, each of which a perform() chose before its write started.      *)
Chosen(c) == /\ op[c] = "writing" => answer[c] \in Answers
             /\ \A i \in DOMAIN got[c] : got[c][i].answer \in Answers

Around == /\ peer \in [Clients -> {"open", "closed", "reset"}]
          /\ known \in [Clients -> BOOLEAN] /\ shut \in [Clients -> BOOLEAN]
          /\ alive \in BOOLEAN /\ threads \in BOOLEAN

LEMMA AroundKept ==
    ASSUME Inv, Around, [Next]_vars
    PROVE  Around'
<1> USE DEF Around, net, pool
<1>1. ASSUME NEW c \in Clients, Client(c) PROVE Around'
  BY <1>1 DEF Client, Send, Hangup, Break
<1>2. ASSUME NEW c \in Clients, Network(c) PROVE Around'
  BY <1>2 DEF Network, ReadDone, ReadEnd, ReadError, WriteDone, WriteError
<1>3. ASSUME NEW c \in Clients, Session(c) PROVE Around'
  <2>1. LastWrite(c) \in BOOLEAN
    BY DEF LastWrite
  <2>2. QED
    BY <1>3, <2>1 DEF Session, Start, OnReadThrows, OnRead, Perform, OnWrite
<1>4. ASSUME NEW c \in Clients, NEW k \in 1..MaxRequests, Take(<<c, k>>) \/ PerformReturns(c, k)
      PROVE  Around'
  BY <1>4 DEF Take, PerformReturns
<1>5. CASE Close \/ Stop \/ UNCHANGED vars
  BY <1>5 DEF Close, Stop, vars
<1>6. QED
  BY <1>1, <1>2, <1>3, <1>4, <1>5 DEF Next

(* The answer stays what perform() chose until it is written.              *)
LEMMA ChosenKept ==
    ASSUME Inv, [Next]_vars, NEW c \in Clients, Chosen(c)
    PROVE  Chosen(c)'
<1>1. /\ op \in [Clients -> Op] /\ answer \in [Clients -> Answers \cup {"none"}]
      /\ got \in [Clients -> Seq(Result)]
  BY DEF Inv, Types
<1>2. CASE op'[c] # "writing" /\ got'[c] = got[c]
  BY <1>2 DEF Chosen
<1>3. CASE op'[c] = op[c] /\ got'[c] = got[c] /\ answer'[c] = answer[c]
  BY <1>3 DEF Chosen
<1>4. CASE Perform(c)
  <2>1. answer'[c] \in Answers /\ got' = got
    BY <1>1, <1>4 DEF Perform
  <2>2. QED
    BY <2>1 DEF Chosen
<1>5. CASE WriteDone(c)
  <2> DEFINE new == [request |-> reads[c], answer |-> answer[c]]
  <2>1. /\ got'[c] = Append(got[c], new) /\ op'[c] = "written" /\ op[c] = "writing"
        /\ got[c] \in Seq(Result)
    BY <1>1, <1>5 DEF WriteDone, Becomes
  <2>2. new \in Result /\ new.answer \in Answers
    BY <2>1 DEF Inv, Types, Result, Chosen
  <2> HIDE DEF new
  <2>3. /\ DOMAIN got'[c] = 1..(Len(got[c]) + 1) /\ DOMAIN got[c] = 1..Len(got[c])
        /\ \A i \in 1..Len(got[c]) : got'[c][i] = got[c][i]
        /\ got'[c][Len(got[c]) + 1] = new /\ Len(got[c]) \in Nat
    BY <2>1, <2>2, AppendProperties, LenProperties
  <2>4. \A i \in DOMAIN got'[c] : got'[c][i].answer \in Answers
    BY <2>2, <2>3 DEF Chosen
  <2>5. QED
    BY <2>1, <2>4 DEF Chosen
<1>6. ASSUME NEW d \in Clients, Client(d) PROVE Chosen(c)'
  BY <1>3, <1>6 DEF Client, Send, Hangup, Break
<1>7. ASSUME NEW d \in Clients, Network(d) PROVE Chosen(c)'
  <2>1. CASE ReadDone(d) \/ ReadEnd(d) \/ ReadError(d) \/ WriteError(d)
    BY <1>1, <1>2, <1>3, <2>1 DEF ReadDone, ReadEnd, ReadError, WriteError, Becomes
  <2>2. CASE WriteDone(d) /\ d # c
    BY <1>1, <1>3, <2>2 DEF WriteDone, Becomes
  <2>3. QED
    BY <1>5, <1>7, <2>1, <2>2 DEF Network
<1>8. ASSUME NEW d \in Clients, Session(d) PROVE Chosen(c)'
  <2>1. CASE Start(d) \/ OnReadThrows(d) \/ OnRead(d) \/ OnWrite(d)
    BY <1>1, <1>2, <1>3, <2>1 DEF Start, OnReadThrows, OnRead, OnWrite, Becomes
  <2>2. CASE Perform(d) /\ d # c
    BY <1>1, <1>3, <2>2 DEF Perform, Becomes
  <2>3. QED
    BY <1>4, <1>8, <2>1, <2>2 DEF Session
<1>9. ASSUME NEW d \in Clients, NEW k \in 1..MaxRequests, Take(<<d, k>>) \/ PerformReturns(d, k)
      PROVE  Chosen(c)'
  BY <1>3, <1>9 DEF Take, PerformReturns
<1>10. CASE Close
  BY <1>2, <1>3, <1>10 DEF Close
<1>11. CASE Stop \/ UNCHANGED vars
  BY <1>3, <1>11 DEF Stop, vars
<1>12. QED
  BY <1>6, <1>7, <1>8, <1>9, <1>10, <1>11 DEF Next

Whole == Inv /\ Around /\ \A c \in Clients : Chosen(c)

LEMMA WholeInvariant == Spec => []Whole
<1>1. Init => Whole
  <2>1. Init => Around /\ \A c \in Clients : Chosen(c)
    BY DEF Init, Around, Chosen
  <2>2. QED
    BY <2>1, InitInv DEF Whole
<1>2. Whole /\ [Next]_vars => Whole'
  BY NextKeepsInv, AroundKept, ChosenKept DEF Whole
<1>3. QED
  BY <1>1, <1>2, PTL DEF Spec

(* A bounded sequence is one of the sequences of its length.               *)
LEMMA BoundedSequence ==
    ASSUME NEW S, NEW n \in Nat, NEW s \in Seq(S), Len(s) <= n
    PROVE  s \in BoundedSeq(S, n)
<1>1. Len(s) \in 0..n /\ s \in [1..Len(s) -> S]
  BY LenProperties
<1>2. QED
  BY <1>1 DEF BoundedSeq, SeqOf

(* Whatever a client sends and whenever it hangs up: each response answers *)
(* a request within the bound, with the handler's status or a 500, never   *)
(* with one that no perform() chose (perform and perform_write, basic.hh). *)
THEOREM Typed == Spec => []TypeOK
<1>1. ASSUME Whole PROVE TypeOK
  <2>1. Inv /\ Around /\ Types /\ MaxRequests \in Nat
    BY <1>1, SessionAssumption DEF Whole, Inv
  <2>2. ASSUME NEW c \in Clients
        PROVE  /\ sent[c] \in BoundedSeq(Message, MaxRequests) /\ reads[c] \in 0..MaxRequests
               /\ \A i \in DOMAIN got[c] : got[c][i] \in [request : 1..MaxRequests, answer : Answers]
    <3>1. /\ Heard(c) /\ Answered(c) /\ Chosen(c) /\ reads[c] \in Nat
          /\ sent[c] \in Seq(Message) /\ got[c] \in Seq(Result)
      BY <1>1, <2>1 DEF Whole, Inv, Own, Types
    <3>2. /\ Len(sent[c]) \in Nat /\ Len(got[c]) \in Nat /\ DOMAIN got[c] = 1..Len(got[c])
          /\ \A i \in DOMAIN got[c] : got[c][i] \in Result
      BY <3>1, LenProperties, ElementOfSeq
    <3>3. Len(sent[c]) <= MaxRequests /\ reads[c] <= MaxRequests /\ Len(got[c]) <= MaxRequests
      BY <2>1, <3>1, <3>2 DEF Heard, Answered
    <3>4. sent[c] \in BoundedSeq(Message, MaxRequests)
      BY <2>1, <3>1, <3>3, BoundedSequence
    <3>5. ASSUME NEW i \in DOMAIN got[c]
          PROVE  got[c][i] \in [request : 1..MaxRequests, answer : Answers]
      <4>1. got[c][i].request = i /\ i \in 1..MaxRequests /\ got[c][i].answer \in Answers
        BY <2>1, <3>1, <3>2, <3>3 DEF Answered, Chosen
      <4>2. got[c][i] \in Result
        BY <3>2
      <4>3. QED
        BY <4>1, <4>2 DEF Result
    <3>6. QED
      BY <2>1, <3>1, <3>3, <3>4, <3>5
  <2>3. QED
    BY <2>1, <2>2 DEF TypeOK, Types, Around
<1>2. QED
  BY <1>1, WholeInvariant, PTL

-----------------------------------------------------------------------------
(* A session ends, or loses its write, with a request unanswered only when *)
(* the connection broke or the executor was halted.                        *)
Lost(c) == peer[c] = "reset" \/ ~open

Kept(c) == /\ op[c] = "ended" => Len(got[c]) = reads[c] \/ Lost(c)
           /\ op[c] = "unwritten" => peer[c] = "reset"

(* What was lost stays lost.                                               *)
LEMMA LostStays ==
    ASSUME Inv, Around, [Next]_vars, NEW c \in Clients
    PROVE  /\ peer[c] = "reset" => peer'[c] = "reset"
           /\ ~open => ~open'
<1> USE DEF Around, net, pool
<1>1. ASSUME NEW d \in Clients, Client(d)
      PROVE  (peer[c] = "reset" => peer'[c] = "reset") /\ open' = open
  BY <1>1 DEF Client, Send, Hangup, Break
<1>2. ASSUME NEW d \in Clients, Network(d) PROVE UNCHANGED <<peer, open>>
  BY <1>2 DEF Network, ReadDone, ReadEnd, ReadError, WriteDone, WriteError
<1>3. ASSUME NEW d \in Clients, Session(d) PROVE UNCHANGED <<peer, open>>
  BY <1>3 DEF Session, Start, OnReadThrows, OnRead, Perform, OnWrite,
              Pool!Accept, Pool!Call, Pool!Drop
<1>4. ASSUME NEW d \in Clients, NEW k \in 1..MaxRequests, Take(<<d, k>>) \/ PerformReturns(d, k)
      PROVE  UNCHANGED <<peer, open>>
  BY <1>4 DEF Take, PerformReturns, Pool!Take, Pool!Finish
<1>5. CASE Close \/ Stop \/ UNCHANGED vars
  BY <1>5 DEF Close, Stop, vars, Pool!Close, Pool!Stop
<1>6. QED
  BY <1>1, <1>2, <1>3, <1>4, <1>5 DEF Next

LEMMA KeptKept ==
    ASSUME Inv, Around, [Next]_vars, NEW c \in Clients, Kept(c)
    PROVE  Kept(c)'
<1>1. /\ op \in [Clients -> Op] /\ Own(c)
      /\ reads \in [Clients -> Nat] /\ got \in [Clients -> Seq(Result)]
  BY DEF Inv, Types
<1>2. Lost(c) => Lost(c)'
  BY LostStays DEF Lost
<1>3. CASE op'[c] \notin {"ended", "unwritten"}
  BY <1>3 DEF Kept
<1>4. CASE op'[c] = op[c] /\ got'[c] = got[c] /\ reads'[c] = reads[c]
  BY <1>2, <1>4, LostStays DEF Kept
<1>5. ASSUME NEW d \in Clients, Client(d) PROVE Kept(c)'
  BY <1>4, <1>5 DEF Client, Send, Hangup, Break
<1>6. ASSUME NEW d \in Clients, Network(d) PROVE Kept(c)'
  <2>1. CASE ReadDone(d) \/ WriteDone(d)
    BY <1>1, <1>3, <1>4, <2>1 DEF ReadDone, WriteDone, Becomes
  <2>2. CASE ReadEnd(d) \/ ReadError(d)
    <3>1. d = c => op[c] = "reading" /\ op'[c] = "ended" /\ UNCHANGED <<got, reads>>
      BY <1>1, <2>2 DEF ReadEnd, ReadError, Becomes
    <3>2. d = c => Len(got'[c]) = reads'[c]
      BY <1>1, <3>1 DEF Own, Answered
    <3>3. d # c => op'[c] = op[c] /\ UNCHANGED <<got, reads>>
      BY <1>1, <2>2 DEF ReadEnd, ReadError, Becomes
    <3>4. CASE d = c
      BY <3>1, <3>2, <3>4 DEF Kept
    <3>5. CASE d # c
      BY <1>4, <3>3, <3>5
    <3>6. QED
      BY <3>4, <3>5
  <2>3. CASE WriteError(d)
    <3>1. d = c => op'[c] = "unwritten" /\ peer'[c] = "reset"
      BY <1>1, <2>3 DEF WriteError, Becomes, net
    <3>2. d # c => op'[c] = op[c] /\ UNCHANGED <<got, reads>>
      BY <1>1, <2>3 DEF WriteError, Becomes
    <3>3. QED
      BY <1>4, <3>1, <3>2 DEF Kept
  <2>4. QED
    BY <1>6, <2>1, <2>2, <2>3 DEF Network
<1>7. ASSUME NEW d \in Clients, Session(d) PROVE Kept(c)'
  <2>1. CASE Start(d) \/ OnReadThrows(d) \/ Perform(d)
    BY <1>1, <1>3, <1>4, <2>1 DEF Start, OnReadThrows, Perform, Becomes
  <2>2. CASE OnRead(d)
    <3>1. \/ op' = [op EXCEPT ![d] = "performing"]
          \/ op' = [op EXCEPT ![d] = "ended"] /\ ~open'
      BY <2>2 DEF OnRead, Becomes, Pool!Drop
    <3>2. UNCHANGED <<got, reads>>
      BY <2>2 DEF OnRead
    <3>3. CASE d = c
      BY <1>1, <3>1, <3>3 DEF Kept, Lost
    <3>4. CASE d # c
      BY <1>1, <1>4, <3>1, <3>2, <3>4
    <3>5. QED
      BY <3>3, <3>4
  <2>3. CASE OnWrite(d)
    <3>1. op' = [op EXCEPT ![d] = "reading"] \/ op' = [op EXCEPT ![d] = "ended"]
      BY <2>3 DEF OnWrite, Becomes
    <3>2. op[d] \in {"written", "unwritten"} /\ UNCHANGED <<got, reads>>
      BY <2>3 DEF OnWrite
    <3>3. CASE d = c
      <4>1. Len(got[c]) = reads[c] \/ Lost(c)
        BY <1>1, <3>2, <3>3 DEF Own, Answered, Kept, Lost
      <4>2. op'[c] # "unwritten"
        BY <1>1, <3>1, <3>3
      <4>3. QED
        BY <1>2, <3>2, <4>1, <4>2 DEF Kept
    <3>4. CASE d # c
      BY <1>1, <1>4, <3>1, <3>2, <3>4
    <3>5. QED
      BY <3>3, <3>4
  <2>4. QED
    BY <1>7, <2>1, <2>2, <2>3 DEF Session
<1>8. ASSUME NEW d \in Clients, NEW k \in 1..MaxRequests, Take(<<d, k>>) \/ PerformReturns(d, k)
      PROVE  Kept(c)'
  BY <1>4, <1>8 DEF Take, PerformReturns
<1>9. CASE Close
  <2>1. ~open' /\ UNCHANGED <<got, reads>> /\ (op'[c] = op[c] \/ op'[c] = "ended")
    BY <1>9 DEF Close, Pool!Close
  <2>2. QED
    BY <1>4, <2>1 DEF Kept, Lost
<1>10. CASE Stop \/ UNCHANGED vars
  BY <1>4, <1>10 DEF Stop, vars
<1>11. QED
  BY <1>5, <1>6, <1>7, <1>8, <1>9, <1>10 DEF Next

(* A job waits in a pool that is open: halt() lets none stay.              *)
Waits == \A j \in Jobs : status[j] = "pending" => open

LEMMA WaitsKept ==
    ASSUME Inv, Waits, [Next]_vars
    PROVE  Waits'
<1>0. status \in [Jobs -> {"new", "pending", "taken", "called", "finished", "dropped"}]
  BY DEF Inv, Types
<1>1. CASE UNCHANGED <<status, open>>
  BY <1>1 DEF Waits
<1>2. ASSUME NEW c \in Clients, Client(c) \/ Network(c) PROVE Waits'
  BY <1>1, <1>2 DEF Client, Send, Hangup, Break, Network, ReadDone, ReadEnd, ReadError,
                    WriteDone, WriteError, pool
<1>3. ASSUME NEW c \in Clients, Session(c) PROVE Waits'
  <2>1. CASE Start(c) \/ OnReadThrows(c) \/ Perform(c) \/ OnWrite(c)
    BY <1>1, <2>1 DEF Start, OnReadThrows, Perform, OnWrite, pool
  <2>2. CASE OnRead(c)
    BY <1>0, <2>2 DEF OnRead, Waits, Pool!Accept, Pool!Call, Pool!Drop
  <2>3. QED
    BY <1>3, <2>1, <2>2 DEF Session
<1>4. ASSUME NEW c \in Clients, NEW k \in 1..MaxRequests, Take(<<c, k>>) \/ PerformReturns(c, k)
      PROVE  Waits'
  BY <1>0, <1>4 DEF Take, PerformReturns, Pool!Take, Pool!Finish, Waits
<1>5. CASE Close
  BY <1>0, <1>5 DEF Close, Pool!Close, Waits
<1>6. CASE Stop \/ UNCHANGED vars
  BY <1>1, <1>6 DEF Stop, Pool!Stop, vars
<1>7. QED
  BY <1>2, <1>3, <1>4, <1>5, <1>6 DEF Next

(* Somebody has the request: on_read is about to run, its job can be taken *)
(* or is being performed, or its response is being written.                *)
InHand(c) == \/ op[c] \in {"read", "writing"}
             \/ op[c] = "performing" /\ \/ status[Job(c)] = "pending" /\ open
                                        \/ status[Job(c)] \in {"taken", "called"}

(* The safety half of EveryRequestAnswered: a request that was read and    *)
(* has no response yet is in somebody's hand, unless the connection broke  *)
(* or the executor was halted (basic.hh:128-284).                          *)
THEOREM NoRequestForgotten ==
  Spec => [](\A c \in Clients : Len(got[c]) < reads[c] => InHand(c) \/ peer[c] = "reset" \/ ~open)
<1> DEFINE Safe == Whole /\ Waits /\ \A c \in Clients : Kept(c)
<1>1. Init => Safe
  <2>1. Init => Waits /\ \A c \in Clients : Kept(c)
    BY DEF Init, Pool!Init, Waits, Kept
  <2>2. Init => Around /\ \A c \in Clients : Chosen(c)
    BY DEF Init, Around, Chosen
  <2>3. QED
    BY <2>1, <2>2, InitInv DEF Whole
<1>2. Safe /\ [Next]_vars => Safe'
  BY NextKeepsInv, AroundKept, ChosenKept, WaitsKept, KeptKept DEF Whole
<1>3. Safe => \A c \in Clients :
                Len(got[c]) < reads[c] => InHand(c) \/ peer[c] = "reset" \/ ~open
  <2> SUFFICES ASSUME Safe, NEW c \in Clients, Len(got[c]) < reads[c], peer[c] # "reset", open
               PROVE  InHand(c)
    OBVIOUS
  <2>1. Inv /\ Own(c) /\ Kept(c) /\ op[c] \in Op /\ reads[c] \in Nat /\ Len(got[c]) \in Nat
    BY LenProperties DEF Whole, Inv, Types
  <2>2. op[c] \in {"read", "performing", "writing"}
    BY <2>1 DEF Own, Answered, Kept, Lost, Op
  <2>3. op[c] = "performing" => status[Job(c)] \in {"pending", "taken", "called"}
    BY <2>1 DEF Own, Stream
  <2>4. QED
    BY <2>2, <2>3 DEF InHand
<1>4. QED
  BY <1>1, <1>2, <1>3, PTL DEF Spec

(* Sessions use the executor by its rules alone: what they see of it is a  *)
(* behaviour of TaskPool, which Executor implements.  Each request is one  *)
(* call of add() (basic.hh:201).                                           *)
THEOREM SessionsUsePool == Spec => Pool!Spec
<1>1. Init => Pool!Init
  BY DEF Init
<1>2. ASSUME Inv, [Next]_vars PROVE [Pool!Next]_(Pool!vars)
  <2>1. CASE UNCHANGED pool
    BY <2>1 DEF pool, Pool!vars
  <2>2. ASSUME NEW c \in Clients, Client(c) \/ Network(c) PROVE [Pool!Next]_(Pool!vars)
    BY <2>1, <2>2 DEF Client, Send, Hangup, Break, Network, ReadDone, ReadEnd, ReadError,
                      WriteDone, WriteError
  <2>3. ASSUME NEW c \in Clients, Session(c) PROVE [Pool!Next]_(Pool!vars)
    <3>1. CASE Start(c) \/ OnReadThrows(c) \/ Perform(c) \/ OnWrite(c)
      BY <2>1, <3>1 DEF Start, OnReadThrows, Perform, OnWrite
    <3>2. CASE OnRead(c)
      <4>1. Job(c) \in Jobs
        BY <1>2, <3>2, LastHasJob DEF OnRead
      <4>2. Pool!Accept(Job(c)) \/ Pool!Call(Job(c)) \/ Pool!Drop(Job(c))
        BY <3>2 DEF OnRead
      <4>3. QED
        BY <4>1, <4>2 DEF Pool!Next
    <3>3. QED
      BY <2>3, <3>1, <3>2 DEF Session
  <2>4. ASSUME NEW c \in Clients, NEW k \in 1..MaxRequests, Take(<<c, k>>) \/ PerformReturns(c, k)
        PROVE  [Pool!Next]_(Pool!vars)
    <3>1. <<c, k>> \in Jobs
      BY DEF Jobs
    <3>2. QED
      BY <2>4, <3>1 DEF Take, PerformReturns, Pool!Next
  <2>5. CASE Close \/ Stop
    BY <2>5 DEF Close, Stop, Pool!Next
  <2>6. CASE UNCHANGED vars
    BY <2>1, <2>6 DEF vars, pool
  <2>7. QED
    BY <1>2, <2>2, <2>3, <2>4, <2>5, <2>6 DEF Next
<1>3. Inv /\ [Next]_vars => [Pool!Next]_(Pool!vars)
  BY <1>2
<1>4. QED
  BY <1>1, <1>3, Invariant, PTL DEF Spec, Pool!Spec
=============================================================================
