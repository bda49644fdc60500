----------------------------- MODULE DsuServer -----------------------------
(***************************************************************************)
(* dsu_server: a read thread that registers clients and answers their      *)
(* datagrams, and a send thread that goes round the registered clients     *)
(* and sends each one the controller's data.  start() creates the two      *)
(* threads; the read thread is the one that sets m_running.                *)
(*                                                                         *)
(* The threads share m_clients and each client's data_packet_no without a  *)
(* lock.  ++data_packet_no is a load and a store.  An emplace in m_clients *)
(* while the send thread iterates over it leaves open which clients the    *)
(* iteration still visits.                                                 *)
(***************************************************************************)
EXTENDS Naturals, FiniteSets, Sequences

CONSTANTS
  Ids,            \* client ids
  Types,          \* the event types that clients send
  Askers,         \* the clients that may ask for data, too
  Handlers,       \* the handlers that are set before start: "status", "data"
  MaxSlots,       \* bound on slot_count in a status request
  PacketNumbers,  \* the number of values of a packet number: 2^32 in the code
  MaxDatagrams,   \* bound on the datagrams that clients send
  MayStop         \* is stop() called?

EventTypes == {"PROTOCOL_VERSION", "CONTROLLER_STATUS", "CONTROLLER_DATA",
               "MOTOR_STATUS", "RUMBLE"}

ASSUME DsuAssumption ==
  /\ Types \subseteq (EventTypes \ {"CONTROLLER_DATA"}) \cup {"short"}
  /\ Askers \subseteq Ids
  /\ Handlers \subseteq {"status", "data"}
  /\ MaxSlots \in Nat /\ MaxDatagrams \in Nat
  /\ PacketNumbers \in Nat \ {0, 1}
  /\ MayStop \in BOOLEAN

Senders == {"read", "send"}

VARIABLES
  pc,          \* where main and the two threads are
  m_running,
  m_clients,   \* the registered clients' data_packet_no
  inbox,       \* the datagrams in the socket's buffer
  datagrams,   \* how many clients have sent
  to,          \* the client each thread is sending to
  type,        \* the event type each thread is sending
  no,          \* the packet number each thread has loaded or assigned
  responses,   \* the responses the read thread has still to send
  round,       \* the clients the send thread has still to visit
  last,        \* the last packet number sent to each client
  late         \* history: the datagrams received after a stop() that takes effect

readVars  == <<inbox, responses>>
sendVars  == <<to, type, no>>
vars == <<pc, m_running, m_clients, readVars, datagrams, sendVars, round, last, late>>

Registered == DOMAIN m_clients
NoId == "no id"
Goto(t, label) == pc' = [pc EXCEPT ![t] = label]

-----------------------------------------------------------------------------
(* start and stop. *)

\* bind fails, and start returns false.
BindFails ==
  /\ pc["main"] = "bind"
  /\ Goto("main", "failed")
  /\ UNCHANGED <<m_running, m_clients, readVars, datagrams, sendVars, round, last, late>>

StartReadThread ==
  /\ pc["main"] = "bind"
  /\ pc' = [pc EXCEPT !["main"] = "bound", !["read"] = "begin"]
  /\ UNCHANGED <<m_running, m_clients, readVars, datagrams, sendVars, round, last, late>>

StartWriteThread ==
  /\ pc["main"] = "bound"
  /\ pc' = [pc EXCEPT !["main"] = "started", !["send"] = "test"]
  /\ UNCHANGED <<m_running, m_clients, readVars, datagrams, sendVars, round, last, late>>

\* A stop() before the read thread has set m_running, labelled "overtaken", will be
\* undone by it.
Stop ==
  /\ MayStop
  /\ pc["main"] = "started"
  /\ m_running' = FALSE
  /\ Goto("main", IF pc["read"] = "begin" THEN "overtaken" ELSE "stopped")
  /\ UNCHANGED <<m_clients, readVars, datagrams, sendVars, round, last, late>>

-----------------------------------------------------------------------------
(* read_loop. *)

ReadBegin ==
  /\ pc["read"] = "begin"
  /\ m_running' = TRUE
  /\ Goto("read", "test")
  /\ UNCHANGED <<m_clients, readVars, datagrams, sendVars, round, last, late>>

\* read_loop that tests m_running only when it starts.
ReadTestForgotten ==
  /\ pc["read"] = "test"
  /\ Goto("read", "receive")
  /\ UNCHANGED <<m_running, m_clients, readVars, datagrams, sendVars, round, last, late>>

ReadTest ==
  /\ pc["read"] = "test"
  /\ Goto("read", IF m_running THEN "receive" ELSE "ended")
  /\ UNCHANGED <<m_running, m_clients, readVars, datagrams, sendVars, round, last, late>>

\* How many responses the handlers return: one report, one per slot asked
\* for, or the data of the slot if that is how it was asked for.
ResponseCounts(t) ==
  CASE t = "PROTOCOL_VERSION" -> {1}
    [] t = "CONTROLLER_STATUS" /\ "status" \in Handlers -> 0..MaxSlots
    [] t = "CONTROLLER_DATA" /\ "data" \in Handlers -> {0, 1}
    [] OTHER -> {0}

Iterating == {"visit", "load", "store", "send"}

WithClient(id) == [i \in Registered \cup {id} |-> IF i = id THEN 0 ELSE m_clients[i]]

\* insert_or_assign in place of find and emplace.
RegisterAnew(id) ==
  /\ m_clients' = WithClient(id)
  /\ UNCHANGED round

\* An id not seen before is emplaced in m_clients, wherever the send thread is in
\* its iteration.
Register(id) ==
  IF id \in Registered
    THEN UNCHANGED <<m_clients, round>>
    ELSE /\ m_clients' = WithClient(id)
         /\ round' \in IF pc["send"] \in Iterating THEN SUBSET DOMAIN m_clients'
                                                  ELSE {round}

\* recvfrom returns: main may have called stop() since the thread tested m_running.
TakeDatagram ==
  /\ pc["read"] = "receive"
  /\ inbox # <<>>
  /\ inbox' = Tail(inbox)
  /\ late' = IF pc["main"] = "stopped" THEN late + 1 ELSE late

\* A datagram without a whole header ends the loop.
ReceiveShortReturning ==
  /\ TakeDatagram
  /\ Head(inbox).type = "short"
  /\ Goto("read", "ended")
  /\ UNCHANGED <<m_running, m_clients, responses, datagrams, sendVars, round, last>>

\* A datagram without a whole header is dropped.
ReceiveShort ==
  /\ TakeDatagram
  /\ Head(inbox).type = "short"
  /\ Goto("read", "test")
  /\ UNCHANGED <<m_running, m_clients, responses, datagrams, sendVars, round, last>>

\* Any other registers its sender and is answered by its type.
Receive ==
  /\ TakeDatagram
  /\ LET d == Head(inbox) IN
       /\ d.type # "short"
       /\ Register(d.id)
       /\ to' = [to EXCEPT !["read"] = d.id]
       /\ type' = [type EXCEPT !["read"] = d.type]
       /\ responses' \in ResponseCounts(d.type)
  /\ Goto("read", "respond")
  /\ UNCHANGED <<m_running, datagrams, no, last>>

\* The loop over the handler's responses.
Respond ==
  /\ pc["read"] = "respond"
  /\ IF responses = 0
       THEN Goto("read", "test") /\ UNCHANGED responses
       ELSE /\ Goto("read", IF type["read"] = "CONTROLLER_DATA" THEN "load" ELSE "send")
            /\ responses' = responses - 1
  /\ UNCHANGED <<m_running, m_clients, inbox, datagrams, sendVars, round, last, late>>

-----------------------------------------------------------------------------
(* The packet number and send(), as both threads execute them. *)

\* ++data_packet_no: load ...
LoadNumber(t) ==
  /\ pc[t] = "load"
  /\ no' = [no EXCEPT ![t] = m_clients[to[t]]]
  /\ Goto(t, "store")
  /\ UNCHANGED <<m_running, m_clients, readVars, datagrams, to, type, round, last, late>>

\* ++data_packet_no in a wider type.
StoreNumberWide(t) ==
  /\ pc[t] = "store"
  /\ m_clients' = [m_clients EXCEPT ![to[t]] = no[t] + 1]
  /\ no' = [no EXCEPT ![t] = no[t] + 1]
  /\ Goto(t, "send")
  /\ UNCHANGED <<m_running, readVars, datagrams, to, type, round, last, late>>

\* ... and store.
StoreNumber(t) ==
  /\ pc[t] = "store"
  /\ LET next == (no[t] + 1) % PacketNumbers IN
       /\ m_clients' = [m_clients EXCEPT ![to[t]] = next]
       /\ no' = [no EXCEPT ![t] = next]
  /\ Goto(t, "send")
  /\ UNCHANGED <<m_running, readVars, datagrams, to, type, round, last, late>>

\* send: one datagram to the client's endpoint.
Send(t) ==
  /\ pc[t] = "send"
  /\ last' = IF type[t] = "CONTROLLER_DATA" THEN [last EXCEPT ![to[t]] = no[t]] ELSE last
  /\ Goto(t, IF t = "read" THEN "respond" ELSE "visit")
  /\ UNCHANGED <<m_running, m_clients, readVars, datagrams, sendVars, round, late>>

SendData(t) == LoadNumber(t) \/ StoreNumber(t) \/ Send(t)

-----------------------------------------------------------------------------
(* send_loop. *)

\* send_loop that goes on whatever m_running says.
SendTestForgotten ==
  /\ pc["send"] = "test"
  /\ IF "data" \in Handlers
       THEN Goto("send", "visit") /\ round' = Registered
       ELSE UNCHANGED <<pc, round>>
  /\ UNCHANGED <<m_running, m_clients, readVars, datagrams, sendVars, last, late>>

\* Test m_running, wait, and begin an iteration if there is a data handler.  If the
\* read thread has not set m_running yet, the loop is over, labelled "missed".
SendTest ==
  /\ pc["send"] = "test"
  /\ IF ~m_running
       THEN /\ Goto("send", IF pc["read"] = "begin" THEN "missed" ELSE "ended")
            /\ UNCHANGED round
       ELSE IF "data" \in Handlers
         THEN Goto("send", "visit") /\ round' = Registered
         ELSE UNCHANGED <<pc, round>>
  /\ UNCHANGED <<m_running, m_clients, readVars, datagrams, sendVars, last, late>>

\* The next client of the iteration, for which the handler has one response ...
Visit ==
  /\ pc["send"] = "visit"
  /\ \E id \in round :
       /\ round' = round \ {id}
       /\ to' = [to EXCEPT !["send"] = id]
  /\ type' = [type EXCEPT !["send"] = "CONTROLLER_DATA"]
  /\ Goto("send", "load")
  /\ UNCHANGED <<m_running, m_clients, readVars, datagrams, no, last, late>>

\* send_loop that ends with its first iteration.
EndRoundReturning ==
  /\ pc["send"] = "visit"
  /\ round = {}
  /\ Goto("send", "ended")
  /\ UNCHANGED <<m_running, m_clients, readVars, datagrams, sendVars, round, last, late>>

\* ... or the end of it.
EndRound ==
  /\ pc["send"] = "visit"
  /\ round = {}
  /\ Goto("send", "test")
  /\ UNCHANGED <<m_running, m_clients, readVars, datagrams, sendVars, round, last, late>>

-----------------------------------------------------------------------------
Datagrams == [id : Ids, type : Types] \cup [id : Askers, type : {"CONTROLLER_DATA"}]

\* A client sends a datagram; the network delivers it once.
ClientSends ==
  /\ datagrams < MaxDatagrams
  /\ pc["main"] \in {"bound", "started", "stopped", "overtaken"}
  /\ datagrams' = datagrams + 1
  /\ inbox' \in {Append(inbox, d) : d \in Datagrams}
  /\ UNCHANGED <<pc, m_running, m_clients, responses, sendVars, round, last, late>>

Init ==
  /\ pc = [main |-> "bind", read |-> "none", send |-> "none"]
  /\ m_running = FALSE
  /\ m_clients = [i \in {} |-> 0]
  /\ inbox = <<>>
  /\ datagrams = 0
  /\ to = [t \in Senders |-> NoId]
  /\ type = [t \in Senders |-> "PROTOCOL_VERSION"]
  /\ no = [t \in Senders |-> 0]
  /\ responses = 0
  /\ round = {}
  /\ last = [id \in Ids |-> 0]
  /\ late = 0

Start == BindFails \/ StartReadThread \/ StartWriteThread

ReadThread ==
  ReadBegin \/ ReadTest \/ ReceiveShort \/ Receive \/ Respond \/ SendData("read")

SendThread == SendTest \/ Visit \/ EndRound \/ SendData("send")

Next == Start \/ Stop \/ ReadThread \/ SendThread \/ ClientSends

Spec == Init /\ [][Next]_vars

\* The threads run; clients need not send, and nobody need call stop.
FairSpec == Spec /\ WF_vars(Start) /\ WF_vars(ReadThread) /\ WF_vars(SendThread)

-----------------------------------------------------------------------------
TypeOK ==
  /\ pc["main"] \in {"bind", "failed", "bound", "started", "stopped", "overtaken"}
  /\ pc["read"] \in {"none", "begin", "test", "receive", "respond",
                     "load", "store", "send", "ended"}
  /\ pc["send"] \in {"none", "test", "visit", "load", "store", "send", "missed", "ended"}
  /\ m_running \in BOOLEAN
  /\ Registered \subseteq Ids
  /\ \A id \in Registered : m_clients[id] \in 0..(PacketNumbers - 1)
  /\ inbox \in Seq(Datagrams)
  /\ datagrams \in 0..MaxDatagrams
  /\ to \in [Senders -> Ids \cup {NoId}]
  /\ type \in [Senders -> EventTypes]
  /\ no \in [Senders -> 0..(PacketNumbers - 1)]
  /\ responses \in 0..(MaxSlots + 1)
  /\ round \subseteq Registered
  /\ last \in [Ids -> 0..(PacketNumbers - 1)]
  /\ late \in Nat

SendingData(t) == pc[t] = "send" /\ type[t] = "CONTROLLER_DATA"

\* A client that never asks for data, and is sent all of it by the send thread,
\* gets consecutive packet numbers, whatever the others do (dsu_server.cpp:89,
\* 156-158).
NumbersConsecutive ==
  \A t \in Senders :
    (SendingData(t) /\ to[t] \notin Askers) => no[t] = (last[to[t]] + 1) % PacketNumbers

\* Two reports for one client never have the same packet number: client_t has a
\* data_packet_no_mutex for that (dsu_server.hpp:27), which nobody locks.
NumbersDistinct ==
  (SendingData("read") /\ SendingData("send") /\ to["read"] = to["send"])
    => no["read"] # no["send"]

\* Every datagram is received and its responses are sent, unless stop() is called
\* (read_loop).
DatagramsServed ==
  <>[](inbox = <<>> /\ pc["read"] \in {"none", "receive"}) \/ <>(pc["main"] = "stopped")

\* A registered client is sent data again and again until stop() is called, unless
\* the send thread came to its loop before the read thread had set m_running
\* (dsu_server.cpp:40, 144).  Nothing else ends the streams, not even a stop() that
\* the read thread undoes.
Streams ==
  \A id \in Ids :
    id \in Registered ~> \/ pc["send"] = "send" /\ to["send"] = id
                         \/ pc["main"] = "stopped" \/ pc["send"] = "missed"

\* stop() ends send_loop, wherever it is, if the read thread has begun before
\* (dsu_server.cpp:134-136, 144).
StopEndsSendLoop == (pc["main"] = "stopped") ~> (pc["send"] \in {"missed", "ended"})

\* After such a stop() at most one more datagram is taken: the one that the read thread
\* is waiting for in recvfrom, which stop() does not interrupt (dsu_server.cpp:43-44).
AtMostOneMore == late <= 1

\* That datagram, from whomever it comes and however long after the stop(), ends the read
\* thread; until there is one it stays in recvfrom (dsu_server.cpp:43-44, 134-136).
NextDatagramEnds == (pc["main"] = "stopped" /\ inbox # <<>>) ~> (pc["read"] = "ended")

=============================================================================
