-------------------------- MODULE DsuServerProofs --------------------------
(***************************************************************************)
(* Two facts about the server's threads, for any clients, handlers and     *)
(* numbers of packet numbers: a client that never asks for data is sent    *)
(* consecutive packet numbers, and after a stop() that is not undone the   *)
(* read thread takes at most one more datagram.                            *)
(***************************************************************************)
EXTENDS DsuServer, SequenceTheorems, TLAPS

\* TypeOK, and which variables are functions on what.
Typed ==
  /\ TypeOK
  /\ pc = [x \in {"main", "read", "send"} |-> pc[x]]
  /\ m_clients = [i \in Registered |-> m_clients[i]]

Serving(t) == pc[t] \in {"respond", "load", "store", "send"}

\* A thread that serves a client serves a registered one; it is at a packet number
\* only to send data, which the read thread sends to those who ask for it.
Placed ==
  /\ \A t \in Senders :
       /\ Serving(t) => to[t] \in Registered
       /\ pc[t] \in {"load", "store"} => type[t] = "CONTROLLER_DATA"
  /\ pc["send"] = "send" => type["send"] = "CONTROLLER_DATA"
  /\ (Serving("read") /\ type["read"] = "CONTROLLER_DATA") => to["read"] \in Askers

ServerInv == Typed /\ Placed

AtSend(id) == pc["send"] = "send" /\ to["send"] = id

\* A client's number is the last one sent to it, or the next when that is being sent.
Counted ==
  \A id \in Ids \ Askers :
    /\ id \notin Registered => last[id] = 0
    /\ id \in Registered =>
         m_clients[id] = IF AtSend(id) THEN (last[id] + 1) % PacketNumbers ELSE last[id]
    /\ (pc["send"] \in {"store", "send"} /\ to["send"] = id) => no["send"] = m_clients[id]

-----------------------------------------------------------------------------
\* The next number is a number.
LEMMA NextNumber ==
  ASSUME NEW n \in 0..(PacketNumbers - 1)
  PROVE  (n + 1) % PacketNumbers \in 0..(PacketNumbers - 1)
<1>1. PacketNumbers \in Nat /\ PacketNumbers > 0
  BY DsuAssumption
<1>2. \A m \in Nat, k \in Nat : k > 0 => m % k \in 0..(k - 1)
  OBVIOUS
<1>3. n + 1 \in Nat
  BY <1>1
<1> QED
  BY <1>1, <1>2, <1>3

LEMMA ZeroIsNumber == 0 \in 0..(PacketNumbers - 1)
  BY DsuAssumption

\* A handler returns no more responses than it may.
LEMMA ResponsesBounded ==
  ASSUME NEW t \in EventTypes
  PROVE  ResponseCounts(t) \subseteq 0..(MaxSlots + 1)
<1>1. MaxSlots \in Nat
  BY DsuAssumption
<1>2. 0..MaxSlots \subseteq 0..(MaxSlots + 1) /\ {0, 1} \subseteq 0..(MaxSlots + 1)
  BY <1>1
<1>3. {0} \subseteq {0, 1} /\ {1} \subseteq {0, 1}
  OBVIOUS
<1> QED
  BY <1>2, <1>3, Zenon DEF ResponseCounts

\* What clients send has a sender, a type, and asks for data only from those who may.
LEMMA DatagramTyped ==
  ASSUME NEW d \in Datagrams
  PROVE  /\ d.id \in Ids
         /\ d.type # "short" => d.type \in EventTypes
         /\ d.type = "CONTROLLER_DATA" => d.id \in Askers
  BY DsuAssumption DEF Datagrams, EventTypes

LEMMA InitServerInv == Init => ServerInv
<1> SUFFICES ASSUME Init PROVE ServerInv
  OBVIOUS
<1>1. Registered = {} /\ round = {}
  BY DEF Init, Registered
<1>2. inbox \in Seq(Datagrams)
  BY EmptySeq DEF Init
<1>3. pc["main"] = "bind" /\ pc["read"] = "none" /\ pc["send"] = "none"
  BY DEF Init
<1>4. m_running \in BOOLEAN /\ late \in Nat
  BY DEF Init
<1>5. /\ to \in [Senders -> Ids \cup {NoId}] /\ type \in [Senders -> EventTypes]
      /\ no \in [Senders -> 0..(PacketNumbers - 1)]
      /\ last \in [Ids -> 0..(PacketNumbers - 1)]
  BY ZeroIsNumber DEF Init, EventTypes
<1>6. datagrams \in 0..MaxDatagrams /\ responses \in 0..(MaxSlots + 1)
  BY DsuAssumption DEF Init
<1>7. TypeOK
  BY <1>1, <1>2, <1>3, <1>4, <1>5, <1>6 DEF TypeOK
<1>8. /\ pc = [x \in {"main", "read", "send"} |-> pc[x]]
      /\ m_clients = [i \in Registered |-> m_clients[i]]
  BY DEF Init, Registered
<1> QED
  BY <1>3, <1>7, <1>8 DEF ServerInv, Typed, Placed, Serving, Senders

-----------------------------------------------------------------------------
(* Steps that leave the clients and what is sent to them alone. *)

\* A thread that goes on to where it serves nobody, or goes on serving.
LEMMA StartKeepsServerInv ==
  ASSUME ServerInv, Start \/ Stop \/ ReadBegin \/ ReadTest \/ SendTest \/ EndRound
  PROVE  ServerInv'
<1>0. TypeOK /\ Typed /\ Placed
  BY DEF ServerInv, Typed
<1>1. UNCHANGED <<m_clients, inbox, datagrams, to, type, no, last, late>> /\ UNCHANGED responses
  BY DEF Start, BindFails, StartReadThread, StartWriteThread, Stop, ReadBegin, ReadTest,
         SendTest, EndRound, readVars, sendVars
<1>2. m_running' \in BOOLEAN /\ round' \subseteq Registered
  BY <1>0
  DEF Start, BindFails, StartReadThread, StartWriteThread, Stop, ReadBegin, ReadTest,
      SendTest, EndRound, TypeOK
<1>3. /\ pc' = [x \in {"main", "read", "send"} |-> pc'[x]]
      /\ pc'["main"] \in {"bind", "failed", "bound", "started", "stopped", "overtaken"}
      /\ \/ pc'["read"] = pc["read"]
         \/ pc'["read"] \in {"begin", "test", "receive", "ended"}
      /\ \/ pc'["send"] = pc["send"]
         \/ pc'["send"] \in {"test", "visit", "missed", "ended"}
  <2>1. CASE Start
    BY <1>0, <2>1 DEF Start, BindFails, StartReadThread, StartWriteThread, Goto, Typed, TypeOK
  <2>2. CASE Stop
    BY <1>0, <2>2 DEF Stop, Goto, Typed, TypeOK
  <2>3. CASE ReadBegin \/ ReadTest
    BY <1>0, <2>3 DEF ReadBegin, ReadTest, Goto, Typed, TypeOK
  <2>4. CASE SendTest \/ EndRound
    BY <1>0, <2>4 DEF SendTest, EndRound, Goto, Typed, TypeOK
  <2> QED
    BY <2>1, <2>2, <2>3, <2>4
<1>4. Typed'
  BY <1>0, <1>1, <1>2, <1>3 DEF Typed, TypeOK, Registered
<1>5. Placed'
  BY <1>0, <1>1, <1>3 DEF Placed, Serving, Registered, Senders
<1> QED
  BY <1>4, <1>5 DEF ServerInv

LEMMA ClientSendsKeepsServerInv ==
  ASSUME ServerInv, ClientSends
  PROVE  ServerInv'
<1>0. TypeOK /\ Typed /\ Placed
  BY DEF ServerInv, Typed
<1>1. UNCHANGED <<pc, m_running, m_clients, responses, to, type, no, round, last, late>>
  BY DEF ClientSends, sendVars
<1>2. inbox' \in Seq(Datagrams)
  <2>1. inbox \in Seq(Datagrams)
    BY <1>0 DEF TypeOK
  <2>2. PICK d \in Datagrams : inbox' = Append(inbox, d)
    BY DEF ClientSends
  <2> QED
    BY <2>1, <2>2, AppendProperties
<1>3. datagrams' \in 0..MaxDatagrams
  BY <1>0, DsuAssumption DEF ClientSends, TypeOK
<1>4. Typed'
  BY <1>0, <1>1, <1>2, <1>3 DEF Typed, TypeOK, Registered
<1>5. Placed'
  BY <1>0, <1>1 DEF Placed, Serving, Registered
<1> QED
  BY <1>4, <1>5 DEF ServerInv

\* A datagram dropped.
LEMMA ReceiveShortKeepsServerInv ==
  ASSUME ServerInv, ReceiveShort
  PROVE  ServerInv'
<1>0. TypeOK /\ Typed /\ Placed
  BY DEF ServerInv, Typed
<1>1. UNCHANGED <<m_running, m_clients, responses, datagrams, to, type, no, round, last>>
  BY DEF ReceiveShort, sendVars
<1>2. inbox' \in Seq(Datagrams) /\ late' \in Nat
  BY <1>0, HeadTailProperties DEF ReceiveShort, TakeDatagram, TypeOK
<1>3. /\ pc' = [x \in {"main", "read", "send"} |-> pc'[x]]
      /\ pc'["main"] = pc["main"] /\ pc'["send"] = pc["send"] /\ pc'["read"] = "test"
  BY <1>0 DEF ReceiveShort, Goto, Typed
<1>4. Typed'
  BY <1>0, <1>1, <1>2, <1>3 DEF Typed, TypeOK, Registered
<1>5. Placed'
  BY <1>0, <1>1, <1>3 DEF Placed, Serving, Registered, Senders
<1> QED
  BY <1>4, <1>5 DEF ServerInv

-----------------------------------------------------------------------------
(* The steps of serving a client. *)

\* Registering a client leaves the others as they are.
LEMMA Registering ==
  ASSUME Typed, NEW id \in Ids, Register(id)
  PROVE  /\ Registered' = Registered \cup {id}
         /\ m_clients' = [i \in Registered' |-> m_clients'[i]]
         /\ \A i \in Registered : m_clients'[i] = m_clients[i]
         /\ id \notin Registered => m_clients'[id] = 0
         /\ round' \subseteq Registered'
<1>0. round \subseteq Registered
  BY DEF Typed, TypeOK
<1>1. CASE id \in Registered
  BY <1>0, <1>1 DEF Register, Registered, Typed
<1>2. CASE id \notin Registered
  <2>1. m_clients' = [i \in Registered \cup {id} |-> IF i = id THEN 0 ELSE m_clients[i]]
    BY <1>2 DEF Register, WithClient
  <2>2. Registered' = Registered \cup {id}
    BY <2>1 DEF Registered
  <2>3. round' \subseteq Registered'
    BY <1>0, <1>2, <2>2 DEF Register, Registered
  <2> QED
    BY <1>2, <2>1, <2>2, <2>3
<1> QED
  BY <1>1, <1>2

LEMMA ReceiveKeepsServerInv ==
  ASSUME ServerInv, Receive
  PROVE  ServerInv'
<1> DEFINE d == Head(inbox)
<1>0. TypeOK /\ Typed /\ Placed
  BY DEF ServerInv, Typed
<1>1. d \in Datagrams /\ inbox' \in Seq(Datagrams) /\ late' \in Nat
  BY <1>0, HeadTailProperties DEF Receive, TakeDatagram, TypeOK
<1>2. d.id \in Ids /\ d.type \in EventTypes /\ (d.type = "CONTROLLER_DATA" => d.id \in Askers)
  BY <1>1, DatagramTyped DEF Receive
<1>3. /\ UNCHANGED <<m_running, datagrams, no, last>> /\ pc["read"] = "receive"
      /\ to' = [to EXCEPT !["read"] = d.id] /\ type' = [type EXCEPT !["read"] = d.type]
      /\ Register(d.id) /\ responses' \in ResponseCounts(d.type)
      /\ pc' = [pc EXCEPT !["read"] = "respond"]
  BY DEF Receive, TakeDatagram, Goto
<1> HIDE DEF d
<1>4. /\ Registered' = Registered \cup {d.id} /\ round' \subseteq Registered'
      /\ m_clients' = [i \in Registered' |-> m_clients'[i]]
      /\ \A i \in Registered : m_clients'[i] = m_clients[i]
      /\ d.id \notin Registered => m_clients'[d.id] = 0
  BY <1>0, <1>2, <1>3, Registering
<1>5. \A i \in Registered' : m_clients'[i] \in 0..(PacketNumbers - 1)
  BY <1>0, <1>4, ZeroIsNumber DEF TypeOK
<1>6. responses' \in 0..(MaxSlots + 1)
  BY <1>2, <1>3, ResponsesBounded
<1>7. /\ pc' = [x \in {"main", "read", "send"} |-> pc'[x]]
      /\ pc'["main"] = pc["main"] /\ pc'["send"] = pc["send"] /\ pc'["read"] = "respond"
  BY <1>0, <1>3 DEF Typed
<1>8. /\ to' \in [Senders -> Ids \cup {NoId}] /\ type' \in [Senders -> EventTypes]
      /\ to'["read"] = d.id /\ to'["send"] = to["send"]
      /\ type'["read"] = d.type /\ type'["send"] = type["send"]
  BY <1>0, <1>2, <1>3 DEF TypeOK, Senders
<1>9. Typed'
  <2>1. Registered' \subseteq Ids
    BY <1>0, <1>2, <1>4 DEF TypeOK
  <2>2. TypeOK'
    BY <1>0, <1>1, <1>3, <1>4, <1>5, <1>6, <1>7, <1>8, <2>1 DEF TypeOK
  <2> QED
    BY <1>4, <1>7, <2>2 DEF Typed
<1>10. Placed'
  BY <1>0, <1>2, <1>4, <1>7, <1>8 DEF Placed, Serving, Senders
<1> QED
  BY <1>9, <1>10 DEF ServerInv

LEMMA RespondKeepsServerInv ==
  ASSUME ServerInv, Respond
  PROVE  ServerInv'
<1>0. TypeOK /\ Typed /\ Placed
  BY DEF ServerInv, Typed
<1>1. UNCHANGED <<m_running, m_clients, inbox, datagrams, to, type, no, round, last, late>>
  BY DEF Respond, sendVars
<1>2. responses' \in 0..(MaxSlots + 1)
  BY <1>0, DsuAssumption DEF Respond, TypeOK
<1>3. /\ pc["read"] = "respond" /\ pc' = [x \in {"main", "read", "send"} |-> pc'[x]]
      /\ pc'["main"] = pc["main"] /\ pc'["send"] = pc["send"]
      /\ pc'["read"] \in {"test", "load", "send"}
      /\ pc'["read"] = "load" => type["read"] = "CONTROLLER_DATA"
  BY <1>0 DEF Respond, Goto, Typed
<1>4. Typed'
  BY <1>0, <1>1, <1>2, <1>3 DEF Typed, TypeOK, Registered
<1>5. Placed'
  BY <1>0, <1>1, <1>3 DEF Placed, Serving, Registered, Senders
<1> QED
  BY <1>4, <1>5 DEF ServerInv

LEMMA VisitKeepsServerInv ==
  ASSUME ServerInv, Visit
  PROVE  ServerInv'
<1>0. TypeOK /\ Typed /\ Placed
  BY DEF ServerInv, Typed
<1>1. UNCHANGED <<m_running, m_clients, inbox, responses, datagrams, no, last, late>>
  BY DEF Visit, readVars
<1>2. PICK id \in round :
        round' = round \ {id} /\ to' = [to EXCEPT !["send"] = id]
  BY DEF Visit
<1>3. id \in Registered /\ id \in Ids
  BY <1>0, <1>2 DEF TypeOK
<1>4. /\ pc' = [x \in {"main", "read", "send"} |-> pc'[x]]
      /\ pc'["main"] = pc["main"] /\ pc'["read"] = pc["read"] /\ pc'["send"] = "load"
  BY <1>0 DEF Visit, Goto, Typed
<1>5. /\ to' \in [Senders -> Ids \cup {NoId}] /\ type' \in [Senders -> EventTypes]
      /\ to'["send"] = id /\ to'["read"] = to["read"]
      /\ type'["send"] = "CONTROLLER_DATA" /\ type'["read"] = type["read"]
  BY <1>0, <1>2, <1>3 DEF Visit, TypeOK, Senders, EventTypes
<1>6. Typed'
  BY <1>0, <1>1, <1>2, <1>4, <1>5 DEF Typed, TypeOK, Registered
<1>7. Placed'
  BY <1>0, <1>1, <1>3, <1>4, <1>5 DEF Placed, Serving, Registered, Senders
<1> QED
  BY <1>6, <1>7 DEF ServerInv

\* Both threads come to a client's number and to sending in the same way.
LEMMA SendDataKeepsServerInv ==
  ASSUME ServerInv, NEW t \in Senders, SendData(t)
  PROVE  ServerInv'
<1>0. TypeOK /\ Typed /\ Placed
  BY DEF ServerInv, Typed
<1>1. UNCHANGED <<m_running, inbox, responses, datagrams, to, type, round, late>>
  BY DEF SendData, LoadNumber, StoreNumber, Send, readVars, sendVars
<1>2. /\ pc[t] \in {"load", "store", "send"}
      /\ pc' = [x \in {"main", "read", "send"} |-> pc'[x]]
      /\ \A u \in {"main", "read", "send"} \ {t} : pc'[u] = pc[u]
      /\ pc'[t] = IF pc[t] = "load" THEN "store" ELSE IF pc[t] = "store" THEN "send"
                  ELSE IF t = "read" THEN "respond" ELSE "visit"
  BY <1>0 DEF SendData, LoadNumber, StoreNumber, Send, Goto, Typed, Senders
<1>3. to[t] \in Registered /\ Registered \subseteq Ids
  BY <1>0, <1>2 DEF Placed, Serving, TypeOK
<1>4. /\ Registered' = Registered /\ m_clients' = [i \in Registered' |-> m_clients'[i]]
      /\ \A i \in Registered : m_clients'[i] \in 0..(PacketNumbers - 1)
      /\ no' \in [Senders -> 0..(PacketNumbers - 1)]
      /\ last' \in [Ids -> 0..(PacketNumbers - 1)]
  <2>1. CASE LoadNumber(t)
    BY <1>0, <1>3, <2>1 DEF LoadNumber, Typed, TypeOK, Registered
  <2>2. CASE StoreNumber(t)
    <3> DEFINE next == (no[t] + 1) % PacketNumbers
    <3>1. next \in 0..(PacketNumbers - 1)
      BY <1>0, NextNumber DEF TypeOK
    <3>2. /\ m_clients' = [m_clients EXCEPT ![to[t]] = next] /\ no' = [no EXCEPT ![t] = next]
          /\ last' = last
      BY <2>2 DEF StoreNumber
    <3> HIDE DEF next
    <3> QED
      BY <1>0, <1>3, <3>1, <3>2 DEF Typed, TypeOK, Registered
  <2>3. CASE Send(t)
    BY <1>0, <1>3, <2>3 DEF Send, sendVars, Typed, TypeOK, Registered
  <2> QED
    BY <2>1, <2>2, <2>3 DEF SendData
<1>5. Typed'
  BY <1>0, <1>1, <1>2, <1>4 DEF Typed, TypeOK, Senders
<1>6. Placed'
  BY <1>0, <1>1, <1>2, <1>4 DEF Placed, Serving, Senders
<1> QED
  BY <1>5, <1>6 DEF ServerInv

\* Types, and the places of the threads.
THEOREM ServerInvariant == Spec => []ServerInv
<1>1. ServerInv /\ [Next]_vars => ServerInv'
  <2> SUFFICES ASSUME ServerInv, [Next]_vars PROVE ServerInv'
    OBVIOUS
  <2>1. CASE UNCHANGED vars
    BY <2>1
    DEF vars, readVars, sendVars, ServerInv, Typed, TypeOK, Placed, Serving, Registered
  <2>2. CASE Next
    BY <2>2, StartKeepsServerInv, ClientSendsKeepsServerInv, ReceiveShortKeepsServerInv,
       ReceiveKeepsServerInv, RespondKeepsServerInv, VisitKeepsServerInv,
       SendDataKeepsServerInv
    DEF Next, ReadThread, SendThread, Senders
  <2> QED
    BY <2>1, <2>2
<1> QED
  BY <1>1, InitServerInv, PTL DEF Spec

THEOREM DsuTypeCorrect == Spec => []TypeOK
<1>1. ServerInv => TypeOK
  BY DEF ServerInv, Typed
<1> QED
  BY <1>1, ServerInvariant, PTL

-----------------------------------------------------------------------------
(* stop(). *)

\* No thread runs that was not started; a stop() that came after the read thread had
\* begun is not undone; and having taken a datagram after it the read thread does not
\* come to recvfrom again.
Stopped ==
  /\ pc["main"] \in {"started", "stopped", "overtaken"} => pc["read"] # "none"
  /\ pc["main"] = "bound" => pc["read"] # "none"
  /\ pc["main"] \in {"bind", "bound"} => pc["send"] = "none"
  /\ pc["main"] = "stopped" => pc["read"] # "begin" /\ ~m_running
  /\ pc["main"] # "stopped" => late = 0
  /\ late = 0 \/ (late = 1 /\ pc["read"] # "receive")

LEMMA StepKeepsStopped ==
  ASSUME ServerInv, Stopped, [Next]_vars
  PROVE  Stopped'
<1>0. TypeOK /\ Typed
  BY DEF ServerInv, Typed
<1>1. CASE Start \/ Stop
  BY <1>0, <1>1
  DEF Start, BindFails, StartReadThread, StartWriteThread, Stop, Goto, Typed, Stopped
<1>2. CASE ReadBegin \/ ReadTest
  BY <1>0, <1>2 DEF ReadBegin, ReadTest, Goto, Typed, Stopped
<1>3. CASE ReceiveShort \/ Receive
  <2>1. /\ TakeDatagram /\ m_running' = m_running
        /\ pc'["main"] = pc["main"] /\ pc'["send"] = pc["send"]
        /\ pc'["read"] \in {"test", "respond"}
    BY <1>0, <1>3 DEF ReceiveShort, Receive, Goto, Typed
  <2>2. pc["read"] = "receive" /\ late = 0 /\ late' \in {late, late + 1}
        /\ (pc["main"] # "stopped" => late' = late)
    BY <2>1 DEF TakeDatagram, Stopped
  <2> QED
    BY <2>1, <2>2 DEF Stopped
<1>r. CASE Respond
  BY <1>0, <1>r DEF Respond, Goto, Typed, Stopped
<1>4. ASSUME NEW t \in Senders, SendData(t) PROVE Stopped'
  BY <1>0, <1>4 DEF SendData, LoadNumber, StoreNumber, Send, Goto, Typed, Stopped, Senders
<1>5. CASE SendTest \/ Visit \/ EndRound
  BY <1>0, <1>5 DEF SendTest, Visit, EndRound, Goto, Typed, Stopped
<1>6. CASE ClientSends \/ UNCHANGED vars
  BY <1>6 DEF ClientSends, vars, Stopped
<1> QED
  BY <1>1, <1>2, <1>3, <1>r, <1>4, <1>5, <1>6 DEF Next, ReadThread, SendThread, Senders

LEMMA StoppedInvariant == Spec => []Stopped
<1>1. Init => Stopped
  BY DEF Init, Stopped
<1>2. ServerInv /\ Stopped /\ [Next]_vars => Stopped'
  BY StepKeepsStopped
<1> QED
  BY <1>1, <1>2, ServerInvariant, PTL DEF Spec

\* After a stop() that is not undone at most one more datagram is taken, wherever the
\* read thread is when it comes (dsu_server.cpp:43-44, 134-136).
THEOREM StopLeavesOneDatagram == Spec => []AtMostOneMore
<1>1. Stopped => AtMostOneMore
  BY DEF Stopped, AtMostOneMore
<1> QED
  BY <1>1, StoppedInvariant, PTL

-----------------------------------------------------------------------------
(* Packet numbers. *)

\* Only the send thread touches the number of a client that does not ask for data.
LEMMA SendDataKeepsCounted ==
  ASSUME ServerInv, Counted, NEW t \in Senders, SendData(t)
  PROVE  Counted'
<1>0. TypeOK /\ Typed /\ Placed
  BY DEF ServerInv, Typed
<1>1. /\ UNCHANGED <<to, type>>
      /\ \A u \in {"main", "read", "send"} \ {t} : pc'[u] = pc[u]
      /\ pc["send"] \in {"load", "store", "send"} => type["send"] = "CONTROLLER_DATA"
  BY <1>0 DEF SendData, LoadNumber, StoreNumber, Send, Goto, Typed, sendVars, Placed, Senders
<1>2. Registered \subseteq Ids /\ to[t] \in Registered
  BY <1>0 DEF SendData, LoadNumber, StoreNumber, Send, Placed, Serving, TypeOK
<1> SUFFICES ASSUME NEW id \in Ids \ Askers
             PROVE  /\ id \notin Registered' => last'[id] = 0
                    /\ id \in Registered' =>
                         m_clients'[id] = IF AtSend(id)' THEN (last'[id] + 1) % PacketNumbers
                                                         ELSE last'[id]
                    /\ (pc'["send"] \in {"store", "send"} /\ to'["send"] = id) =>
                         no'["send"] = m_clients'[id]
  BY DEF Counted
<1>3. /\ id \notin Registered => last[id] = 0
      /\ id \in Registered =>
           m_clients[id] = IF AtSend(id) THEN (last[id] + 1) % PacketNumbers ELSE last[id]
      /\ (pc["send"] \in {"store", "send"} /\ to["send"] = id) => no["send"] = m_clients[id]
  BY DEF Counted
<1>4. CASE t = "read"
  <2>1. pc'["send"] = pc["send"] /\ no'["send"] = no["send"] /\ Registered' = Registered
    BY <1>0, <1>1, <1>4
    DEF SendData, LoadNumber, StoreNumber, Send, sendVars, Typed, TypeOK, Registered, Senders
  <2>2. to["read"] # id \/ type["read"] # "CONTROLLER_DATA"
    BY <1>0, <1>4 DEF SendData, LoadNumber, StoreNumber, Send, Placed, Serving
  <2>3. last'[id] = last[id] /\ m_clients'[id] = m_clients[id]
    <3>1. CASE LoadNumber("read")
      BY <3>1 DEF LoadNumber
    <3>2. CASE StoreNumber("read")
      <4>1. to["read"] # id
        BY <1>0, <2>2, <3>2 DEF StoreNumber, Placed, Senders
      <4> QED
        BY <1>0, <3>2, <4>1 DEF StoreNumber, Typed
    <3>3. CASE Send("read")
      BY <1>0, <2>2, <3>3 DEF Send, TypeOK
    <3> QED
      BY <1>4, <3>1, <3>2, <3>3 DEF SendData
  <2> QED
    BY <1>1, <1>3, <2>1, <2>3 DEF AtSend
<1>5. CASE t = "send"
  <2>1. CASE LoadNumber("send")
    <3>1. /\ UNCHANGED <<m_clients, last>> /\ Registered' = Registered
          /\ pc["send"] = "load" /\ pc'["send"] = "store"
          /\ no'["send"] = m_clients[to["send"]]
      BY <1>0, <2>1 DEF LoadNumber, Goto, Typed, TypeOK, Registered, Senders
    <3> QED
      BY <1>1, <1>3, <3>1 DEF AtSend
  <2>2. CASE StoreNumber("send")
    <3> DEFINE next == (no["send"] + 1) % PacketNumbers
    <3>1. /\ m_clients' = [m_clients EXCEPT ![to["send"]] = next] /\ last' = last
          /\ no' = [no EXCEPT !["send"] = next]
          /\ pc["send"] = "store" /\ pc'["send"] = "send"
      BY <1>0, <2>2 DEF StoreNumber, Goto, Typed
    <3>2. to["send"] = id => next = (last[id] + 1) % PacketNumbers
      BY <1>2, <1>3, <1>5, <3>1 DEF AtSend
    <3> HIDE DEF next
    <3>3. /\ Registered' = Registered /\ no'["send"] = next
          /\ m_clients'[id] = IF id = to["send"] THEN next ELSE m_clients[id]
      BY <1>0, <1>2, <1>5, <3>1 DEF Typed, TypeOK, Registered, Senders
    <3> QED
      BY <1>1, <1>2, <1>3, <1>5, <3>1, <3>2, <3>3 DEF AtSend
  <2>3. CASE Send("send")
    <3>1. /\ UNCHANGED <<m_clients, no>> /\ Registered' = Registered
          /\ pc["send"] = "send" /\ pc'["send"] = "visit"
          /\ last' = [last EXCEPT ![to["send"]] = no["send"]]
      BY <1>0, <1>1, <2>3 DEF Send, Goto, Typed, sendVars, Registered
    <3>2. last'[id] = IF id = to["send"] THEN no["send"] ELSE last[id]
      BY <1>0, <3>1 DEF TypeOK
    <3> QED
      BY <1>1, <1>2, <1>3, <1>5, <3>1, <3>2 DEF AtSend
  <2> QED
    BY <1>5, <2>1, <2>2, <2>3 DEF SendData
<1> QED
  BY <1>4, <1>5 DEF Senders

\* What another step does to a number, at most: register a client with number 0.
LEMMA OthersKeepCounted ==
  ASSUME ServerInv, Counted, last' = last, no' = no,
         Registered \subseteq Registered',
         \A i \in Registered : m_clients'[i] = m_clients[i],
         \A i \in Registered' \ Registered : m_clients'[i] = 0,
         \/ pc'["send"] = pc["send"] /\ to'["send"] = to["send"]
         \/ pc["send"] # "send" /\ pc'["send"] \notin {"store", "send"}
  PROVE  Counted'
<1>1. pc["send"] = "send" => to["send"] \in Registered
  BY DEF ServerInv, Placed, Serving, Senders
<1>2. pc["send"] = "store" => to["send"] \in Registered
  BY DEF ServerInv, Placed, Serving, Senders
<1> QED
  BY <1>1, <1>2 DEF Counted, AtSend

LEMMA StepKeepsCounted ==
  ASSUME ServerInv, Stopped, Counted, [Next]_vars
  PROVE  Counted'
<1>0. TypeOK /\ Typed /\ Placed
  BY DEF ServerInv, Typed
<1>1. CASE Start \/ Stop \/ ReadBegin \/ ReadTest \/ SendTest \/ EndRound
  <2>1. UNCHANGED <<m_clients, no, last, to>>
    BY <1>1 DEF Start, BindFails, StartReadThread, StartWriteThread, Stop, ReadBegin,
                ReadTest, SendTest, EndRound, sendVars
  <2>2. \/ pc'["send"] = pc["send"]
        \/ pc["send"] # "send" /\ pc'["send"] \notin {"store", "send"}
    BY <1>0, <1>1 DEF Start, BindFails, StartReadThread, StartWriteThread, Stop, ReadBegin,
                ReadTest, SendTest, EndRound, Goto, Typed, Stopped
  <2> QED
    BY <2>1, <2>2, OthersKeepCounted DEF Registered
<1>2. CASE ReceiveShort \/ Respond \/ ClientSends
  <2>1. UNCHANGED <<m_clients, no, last, to>> /\ pc'["send"] = pc["send"]
    BY <1>0, <1>2 DEF ReceiveShort, Respond, ClientSends, sendVars, Goto, Typed
  <2> QED
    BY <2>1, OthersKeepCounted DEF Registered
<1>3. CASE Receive
  <2> DEFINE id == Head(inbox).id
  <2>1. Head(inbox) \in Datagrams
    BY <1>0, <1>3, HeadTailProperties DEF Receive, TakeDatagram, TypeOK
  <2>2. id \in Ids /\ Register(id)
    BY <1>3, <2>1, DatagramTyped DEF Receive
  <2>3. to'["send"] = to["send"] /\ pc'["send"] = pc["send"] /\ UNCHANGED <<no, last>>
    BY <1>0, <1>3 DEF Receive, Goto, Typed, TypeOK, Senders
  <2> HIDE DEF id
  <2>4. /\ Registered' = Registered \cup {id}
        /\ \A i \in Registered : m_clients'[i] = m_clients[i]
        /\ id \notin Registered => m_clients'[id] = 0
    BY <1>0, <2>2, Registering
  <2> QED
    BY <2>3, <2>4, OthersKeepCounted
<1>4. CASE Visit
  <2>1. /\ UNCHANGED <<m_clients, no, last>> /\ pc["send"] = "visit" /\ pc'["send"] = "load"
    BY <1>0, <1>4 DEF Visit, Goto, Typed
  <2> QED
    BY <2>1, OthersKeepCounted DEF Registered
<1>5. ASSUME NEW t \in Senders, SendData(t) PROVE Counted'
  BY <1>5, SendDataKeepsCounted
<1>6. CASE UNCHANGED vars
  <2>1. UNCHANGED <<m_clients, no, last, to, pc>>
    BY <1>6 DEF vars, sendVars
  <2> QED
    BY <2>1, OthersKeepCounted DEF Registered
<1> QED
  BY <1>1, <1>2, <1>3, <1>4, <1>5, <1>6 DEF Next, ReadThread, SendThread, Senders

\* A client that never asks for data is sent consecutive packet numbers.
THEOREM NumbersAreConsecutive == Spec => []NumbersConsecutive
<1>1. Init => Counted
  BY DEF Init, Counted, Registered
<1>2. ServerInv /\ Stopped /\ Counted /\ [Next]_vars => Counted'
  BY StepKeepsCounted
<1>3. ServerInv /\ Counted => NumbersConsecutive
  <2> SUFFICES ASSUME ServerInv, Counted, NEW t \in Senders,
                      SendingData(t), to[t] \notin Askers
               PROVE  no[t] = (last[to[t]] + 1) % PacketNumbers
    BY DEF NumbersConsecutive
  <2>1. t # "read"
    BY DEF ServerInv, Placed, Serving, SendingData
  <2>2. t = "send" /\ pc["send"] = "send" /\ to["send"] \in Registered
    BY <2>1 DEF ServerInv, Placed, Serving, SendingData, Senders
  <2>3. to["send"] \in Ids \ Askers
    BY <2>2 DEF ServerInv, Typed, TypeOK
  <2> QED
    BY <2>2, <2>3 DEF Counted, AtSend
<1> QED
  BY <1>1, <1>2, <1>3, ServerInvariant, StoppedInvariant, PTL DEF Spec

=============================================================================
