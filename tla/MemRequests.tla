---------------------------- MODULE MemRequests ----------------------------
(***************************************************************************)
(* The memory-request pipeline of the wiimote class.  Four threads share   *)
(* it: the thread that constructs the wiimote and runs init ("main"), the  *)
(* read thread ("reader"), the thread that issues memory requests          *)
(* ("memreq", mem_req_loop) and the write thread (write_loop, one action). *)
(*                                                                         *)
(* mem_req_loop sends one request at a time.  It locks control_mutex,      *)
(* queues the report, raises wait_for_read or wait_for_write and leaves    *)
(* the mutex locked; the read thread lowers the flag and unlocks the mutex *)
(* when the controller answers.  A read is also entered in read_requests,  *)
(* by its caller, before it is queued, so that the read thread can tell    *)
(* what an answer is for.                                                  *)
(*                                                                         *)
(* A critical section under a mutex that every thread respects is one      *)
(* action (m_writer_mutex, and element_mutex except in mem_req_loop).      *)
(* m_mem_read_update_mutex is locked and unlocked in separate actions,     *)
(* because handle_mem_read unlocks it twice.                               *)
(***************************************************************************)
EXTENDS ExtensionRules, FiniteSets

CONSTANTS
  Plugs,           \* the extensions that may be plugged in, by identifier
  MotionPlusIds,   \* what motionplus_identifier may hold; {}: no such register
  Checksums,       \* the calibration blocks the controller may return
  MaxPlugs,        \* bound on the times an extension is plugged in or pulled
  AnswersDuringInit,  \* may the controller answer while init is running?
  AnswersBeforeFlag,  \* may it answer before mem_req_loop raises the flag?
  WritesMayFail       \* may hid_write fail?

ASSUME ConstantsAssumption ==
  /\ Plugs \subseteq ExtensionIds
  /\ MotionPlusIds \subseteq ExtensionIds
  /\ Checksums \subseteq {"good", "bad"} /\ Checksums # {}
  /\ MaxPlugs \in Nat
  /\ AnswersDuringInit \in BOOLEAN
  /\ AnswersBeforeFlag \in BOOLEAN
  /\ WritesMayFail \in BOOLEAN

Callers == {"main", "reader"}
Threads == Callers \cup {"memreq"}

VARIABLES
  pc,             \* where each thread is
  todo,           \* the calls a caller has still to make
  m_mem_read_update_mutex,  \* TRUE while locked
  control_mutex,            \* TRUE while locked
  wait_for_read,
  wait_for_write,
  queue,          \* mem_req_queue.queue
  read_requests,  \* m_state.read_requests: address and bytes received
  m_write_queue,
  toDevice,       \* reports written to the controller, unanswered
  toHost,         \* reports from the controller, not yet read
  report,         \* the memory read report being handled
  m_extension,
  m_motionplus,
  plugged,        \* what is plugged into the controller
  plugs           \* the number of times that has changed

callVars   == <<todo, queue, read_requests, m_mem_read_update_mutex>>
flagVars   == <<wait_for_read, wait_for_write, control_mutex>>
deviceVars == <<plugged, plugs>>
wireVars   == <<m_write_queue, toDevice, toHost, deviceVars>>
handleVars == <<report, m_extension, m_motionplus>>
vars == <<pc, callVars, flagVars, wireVars, handleVars>>

Payloads == ExtensionIds \cup {"good", "bad", "data"}

ReadReplies == [type : {"memread"}, low : Nat, size : Nat,
                error : BOOLEAN, payload : Payloads]
Replies == ReadReplies
             \cup [type : {"status"}, plugged : BOOLEAN]
             \cup [type : {"ack"}, of : {"memwrite", "report"}]

NoReport == [type |-> "memread", low |-> 0, size |-> 0,
             error |-> FALSE, payload |-> "data"]

\* mem_req_loop holds element_mutex from its lock to the end of its scope.
ElementMutexFree == pc["memreq"] \notin {"write", "flag", "pop"}

Goto(t, label) == pc' = [pc EXCEPT ![t] = label]

-----------------------------------------------------------------------------
(* The calls, made by init in main and by the handlers in the read thread. *)

NextCall(t, kind) ==
  /\ pc[t] = "call"
  /\ todo[t] # <<>>
  /\ Head(todo[t]).kind = kind

CallDone(t) == todo' = [todo EXCEPT ![t] = Tail(@)]

\* write(): the report joins m_write_queue under m_writer_mutex.
CallReport(t) ==
  /\ NextCall(t, "report")
  /\ m_write_queue' = Append(m_write_queue, Head(todo[t]))
  /\ CallDone(t)
  /\ UNCHANGED <<pc, queue, read_requests, m_mem_read_update_mutex,
                 flagVars, toDevice, toHost, deviceVars, handleVars>>

\* mem_request_write: write_mem_write_report under element_mutex.
CallMemWrite(t) ==
  /\ NextCall(t, "memwrite")
  /\ ElementMutexFree
  /\ queue' = Append(queue, Head(todo[t]))
  /\ CallDone(t)
  /\ UNCHANGED <<pc, read_requests, m_mem_read_update_mutex,
                 flagVars, wireVars, handleVars>>

\* mem_request_read locks m_mem_read_update_mutex ...
CallMemRead(t) ==
  /\ NextCall(t, "memread")
  /\ ~m_mem_read_update_mutex
  /\ m_mem_read_update_mutex' = TRUE
  /\ Goto(t, "push")
  /\ UNCHANGED <<todo, queue, read_requests, flagVars, wireVars, handleVars>>

\* ... enters the request in read_requests and unlocks ...
PushReadRequest(t) ==
  /\ pc[t] = "push"
  /\ read_requests' = Append(read_requests, [addr |-> Head(todo[t]).arg, got |-> 0])
  /\ m_mem_read_update_mutex' = FALSE
  /\ Goto(t, "enqueue")
  /\ UNCHANGED <<todo, queue, flagVars, wireVars, handleVars>>

\* ... and, in a critical section of its own, queues the report.
EnqueueRead(t) ==
  /\ pc[t] = "enqueue"
  /\ ElementMutexFree
  /\ queue' = Append(queue, Head(todo[t]))
  /\ CallDone(t)
  /\ Goto(t, "call")
  /\ UNCHANGED <<read_requests, m_mem_read_update_mutex,
                 flagVars, wireVars, handleVars>>

Call(t) ==
  \/ CallReport(t)
  \/ CallMemWrite(t)
  \/ CallMemRead(t)
  \/ PushReadRequest(t)
  \/ EnqueueRead(t)

-----------------------------------------------------------------------------
(* The read thread: read_loop and its handlers. *)

Incoming(type) ==
  /\ pc["reader"] = "read"
  /\ toHost # <<>>
  /\ Head(toHost).type = type
  /\ toHost' = Tail(toHost)

Decide(d) ==
  /\ m_extension' = d.m_extension
  /\ m_motionplus' = d.m_motionplus
  /\ todo' = [todo EXCEPT !["reader"] = d.calls]

\* handle_status.
HandleStatus ==
  /\ Incoming("status")
  /\ Decide(OnStatus(Head(toHost).plugged, m_extension, m_motionplus))
  /\ Goto("reader", "call")
  /\ report' = NoReport
  /\ UNCHANGED <<queue, read_requests, m_mem_read_update_mutex,
                 flagVars, m_write_queue, toDevice, deviceVars>>

\* handle_acknowledgement without the test of wait_for_write ...
HandleAcknowledgementUnasked ==
  /\ Incoming("ack")
  /\ IF Head(toHost).of = "memwrite"
       THEN wait_for_write' = FALSE /\ Goto("reader", "ack_unlock")
       ELSE UNCHANGED <<wait_for_write, pc>>
  /\ UNCHANGED <<callVars, wait_for_read, control_mutex,
                 m_write_queue, toDevice, deviceVars, handleVars>>

\* ... without the test of output_report ...
HandleAcknowledgementOfAny ==
  /\ Incoming("ack")
  /\ IF wait_for_write
       THEN wait_for_write' = FALSE /\ Goto("reader", "ack_unlock")
       ELSE UNCHANGED <<wait_for_write, pc>>
  /\ UNCHANGED <<callVars, wait_for_read, control_mutex,
                 m_write_queue, toDevice, deviceVars, handleVars>>

\* ... and without the reset of the flag.
HandleAcknowledgementKeepingFlag ==
  /\ Incoming("ack")
  /\ IF Head(toHost).of = "memwrite" /\ wait_for_write
       THEN Goto("reader", "ack_unlock")
       ELSE UNCHANGED pc
  /\ UNCHANGED <<callVars, flagVars,
                 m_write_queue, toDevice, deviceVars, handleVars>>

\* handle_acknowledgement lowers the flag ...
HandleAcknowledgement ==
  /\ Incoming("ack")
  /\ IF Head(toHost).of = "memwrite" /\ wait_for_write
       THEN wait_for_write' = FALSE /\ Goto("reader", "ack_unlock")
       ELSE UNCHANGED <<wait_for_write, pc>>
  /\ UNCHANGED <<callVars, wait_for_read, control_mutex,
                 m_write_queue, toDevice, deviceVars, handleVars>>

\* ... and unlocks control_mutex for mem_req_loop.
AckUnlock ==
  /\ pc["reader"] = "ack_unlock"
  /\ control_mutex' = FALSE
  /\ Goto("reader", "read")
  /\ UNCHANGED <<callVars, wait_for_read, wait_for_write, wireVars, handleVars>>

\* handle_mem_read locks m_mem_read_update_mutex.
LockReadRequests ==
  /\ ~m_mem_read_update_mutex
  /\ Incoming("memread")
  /\ m_mem_read_update_mutex' = TRUE
  /\ report' = Head(toHost)
  /\ Goto("reader", "match")
  /\ UNCHANGED <<todo, queue, read_requests, flagVars,
                 m_write_queue, toDevice, deviceVars, m_extension, m_motionplus>>

\* The address the front of read_requests expects next.
ExpectedLow == (LowBytes[Head(read_requests).addr] + Head(read_requests).got) % 65536

Expected == read_requests # <<>> /\ report.low = ExpectedLow

\* Nothing was asked for, or not from this address: the report is ignored.
IgnoreReport ==
  /\ pc["reader"] = "match"
  /\ ~Expected
  /\ m_mem_read_update_mutex' = FALSE
  /\ report' = NoReport
  /\ Goto("reader", "read")
  /\ UNCHANGED <<todo, queue, read_requests, flagVars, wireVars,
                 m_extension, m_motionplus>>

\* An error completes the request with no data.
AcceptError ==
  /\ pc["reader"] = "match"
  /\ Expected
  /\ report.error
  /\ Goto("reader", "lower")
  /\ UNCHANGED <<callVars, flagVars, wireVars, handleVars>>

\* Data is appended to the front request, which is complete only when it has
\* exactly the bytes it asked for; otherwise it stays in front.
AcceptData ==
  /\ pc["reader"] = "match"
  /\ Expected
  /\ ~report.error
  /\ LET front == Head(read_requests)
         got   == front.got + report.size
         whole == got = ReadSize[front.addr]
     IN  /\ read_requests' = <<[front EXCEPT !.got = got]>> \o Tail(read_requests)
         /\ Goto("reader", IF whole THEN "lower" ELSE "read")
         /\ m_mem_read_update_mutex' = (whole /\ m_mem_read_update_mutex)
         /\ report' = IF whole THEN report ELSE NoReport
  /\ UNCHANGED <<todo, queue, flagVars, wireVars, m_extension, m_motionplus>>

\* do_pop: lower wait_for_read if it is up ...
LowerReadFlag ==
  /\ pc["reader"] = "lower"
  /\ Goto("reader", IF wait_for_read THEN "read_unlock" ELSE "pop")
  /\ wait_for_read' = FALSE
  /\ UNCHANGED <<callVars, wait_for_write, control_mutex, wireVars, handleVars>>

\* ... and then unlock control_mutex ...
ReadUnlock ==
  /\ pc["reader"] = "read_unlock"
  /\ control_mutex' = FALSE
  /\ Goto("reader", "pop")
  /\ UNCHANGED <<callVars, wait_for_read, wait_for_write, wireVars, handleVars>>

\* do_pop that keeps the front request when the read failed.
PopReadRequestIfRead ==
  /\ pc["reader"] = "pop"
  /\ m_mem_read_update_mutex' = FALSE
  /\ IF report.error
       THEN /\ Goto("reader", "read")
            /\ report' = NoReport
            /\ UNCHANGED <<todo, read_requests, m_extension, m_motionplus>>
       ELSE /\ Goto("reader", "call")
            /\ read_requests' = Tail(read_requests)
            /\ Decide(OnMemRead(Head(read_requests).addr, report.payload,
                                m_extension, m_motionplus))
            /\ UNCHANGED report
  /\ UNCHANGED <<queue, flagVars, wireVars>>

\* ... and drop the front request.  After an error the handler is done; after
\* data it unlocks the mutex itself and runs on_mem_read on a copy.
PopReadRequest ==
  /\ pc["reader"] = "pop"
  /\ read_requests' = Tail(read_requests)
  /\ m_mem_read_update_mutex' = FALSE
  /\ IF report.error
       THEN /\ Goto("reader", "read")
            /\ report' = NoReport
            /\ UNCHANGED <<todo, m_extension, m_motionplus>>
       ELSE /\ Goto("reader", "call")
            /\ Decide(OnMemRead(Head(read_requests).addr, report.payload,
                                m_extension, m_motionplus))
            /\ UNCHANGED report
  /\ UNCHANGED <<queue, flagVars, wireVars>>

\* The handler returns.  After a completed read the destructor of
\* read_requests_lock unlocks m_mem_read_update_mutex a second time, whoever
\* has it by then.
Return ==
  /\ pc["reader"] = "call"
  /\ todo["reader"] = <<>>
  /\ Goto("reader", "read")
  /\ m_mem_read_update_mutex' = (m_mem_read_update_mutex /\ report = NoReport)
  /\ report' = NoReport
  /\ UNCHANGED <<todo, queue, read_requests, flagVars, wireVars,
                 m_extension, m_motionplus>>

Reader ==
  \/ HandleStatus
  \/ HandleAcknowledgement
  \/ AckUnlock
  \/ LockReadRequests
  \/ IgnoreReport
  \/ AcceptError
  \/ AcceptData
  \/ LowerReadFlag
  \/ ReadUnlock
  \/ PopReadRequest
  \/ Return
  \/ Call("reader")

-----------------------------------------------------------------------------
(* mem_req_loop. *)

\* Lock control_mutex and wait on control_cv while a flag is up.  "asleep" has
\* no way out: NeverAsleep shows that no thread gets there.
AcquireControl ==
  /\ pc["memreq"] = "idle"
  /\ ~control_mutex
  /\ IF wait_for_read \/ wait_for_write
       THEN Goto("memreq", "asleep") /\ UNCHANGED control_mutex
       ELSE Goto("memreq", "check") /\ control_mutex' = TRUE
  /\ UNCHANGED <<callVars, wait_for_read, wait_for_write, wireVars, handleVars>>

\* queue.empty(), read without element_mutex: nothing to do.
FindEmpty ==
  /\ pc["memreq"] = "check"
  /\ queue = <<>>
  /\ control_mutex' = FALSE
  /\ Goto("memreq", "idle")
  /\ UNCHANGED <<callVars, wait_for_read, wait_for_write, wireVars, handleVars>>

\* mem_req_loop without the test of queue.empty().
FindRequestUnchecked ==
  /\ pc["memreq"] = "check"
  /\ Goto("memreq", "write")
  /\ UNCHANGED <<callVars, flagVars, wireVars, handleVars>>

\* A request is there, and element_mutex is locked.
FindRequest ==
  /\ pc["memreq"] = "check"
  /\ queue # <<>>
  /\ Goto("memreq", "write")
  /\ UNCHANGED <<callVars, flagVars, wireVars, handleVars>>

\* write(): the report joins m_write_queue ...
IssueRequest ==
  /\ pc["memreq"] = "write"
  /\ m_write_queue' = Append(m_write_queue, Head(queue))
  /\ Goto("memreq", "flag")
  /\ UNCHANGED <<callVars, flagVars, toDevice, toHost, deviceVars, handleVars>>

\* mem_req_loop with the two flags exchanged.
RaiseOtherFlag ==
  /\ pc["memreq"] = "flag"
  /\ IF Head(queue).kind = "memread"
       THEN wait_for_write' = TRUE /\ UNCHANGED wait_for_read
       ELSE wait_for_read' = TRUE /\ UNCHANGED wait_for_write
  /\ Goto("memreq", "pop")
  /\ UNCHANGED <<callVars, control_mutex, wireVars, handleVars>>

\* ... only then the flag is raised ...
RaiseFlag ==
  /\ pc["memreq"] = "flag"
  /\ IF Head(queue).kind = "memwrite"
       THEN wait_for_write' = TRUE /\ UNCHANGED wait_for_read
       ELSE wait_for_read' = TRUE /\ UNCHANGED wait_for_write
  /\ Goto("memreq", "pop")
  /\ UNCHANGED <<callVars, control_mutex, wireVars, handleVars>>

\* mem_req_loop without ul.release(): the scope unlocks control_mutex ...
PopRequestUnlocking ==
  /\ pc["memreq"] = "pop"
  /\ queue' = Tail(queue)
  /\ control_mutex' = FALSE
  /\ Goto("memreq", "idle")
  /\ UNCHANGED <<todo, read_requests, m_mem_read_update_mutex,
                 wait_for_read, wait_for_write, wireVars, handleVars>>

\* ... and without queue.pop().
PopRequestForgotten ==
  /\ pc["memreq"] = "pop"
  /\ Goto("memreq", "idle")
  /\ UNCHANGED <<callVars, flagVars, wireVars, handleVars>>

\* ... and the request popped.  ul.release() leaves control_mutex as it is,
\* for the read thread to unlock; element_mutex is unlocked.
PopRequest ==
  /\ pc["memreq"] = "pop"
  /\ queue' = Tail(queue)
  /\ Goto("memreq", "idle")
  /\ UNCHANGED <<todo, read_requests, m_mem_read_update_mutex,
                 flagVars, wireVars, handleVars>>

MemReq ==
  \/ AcquireControl
  \/ FindEmpty
  \/ FindRequest
  \/ IssueRequest
  \/ RaiseFlag
  \/ PopRequest

-----------------------------------------------------------------------------
(* The write thread and the controller. *)

\* write_loop: pop the front report and hid_write it, under m_writer_mutex.  What
\* hid_write returns is not looked at: a report that fails is gone.
WriteLoop ==
  /\ m_write_queue # <<>>
  /\ m_write_queue' = Tail(m_write_queue)
  /\ \/ toDevice' = Append(toDevice, Head(m_write_queue))
     \/ WritesMayFail /\ UNCHANGED toDevice
  /\ UNCHANGED <<pc, callVars, flagVars, toHost, deviceVars, handleVars>>

Nothing == "none"

\* What a read of an address may return, if there is anything to read.
PayloadsAt(a) ==
  CASE a = "extension_identifier"  -> {plugged} \ {Nothing}
    [] a = "motionplus_identifier" -> MotionPlusIds
    [] a \in {"wiimote_calibration", "wiimote_calibration_mirror"} -> Checksums
    [] OTHER -> {"data"}

\* The answer to a read, with data or with an error.
ReadReply(a, failed, p) ==
  [type |-> "memread", low |-> LowBytes[a], size |-> ReadSize[a],
   error |-> failed, payload |-> p]

ReadAnswers(a) ==
  IF PayloadsAt(a) = {} THEN {<<ReadReply(a, TRUE, "data")>>}
                        ELSE {<<ReadReply(a, FALSE, p)>> : p \in PayloadsAt(a)}

Status == [type |-> "status", plugged |-> plugged # Nothing]
Ack(of) == [type |-> "ack", of |-> of]

\* The reports by which the controller may answer a call.
ReportAnswers(r) ==
  IF r = "status_request" THEN {<<Status>>} ELSE {<<>>, <<Ack("report")>>}

Answers(c) ==
  CASE c.kind = "memread"  -> ReadAnswers(c.arg)
    [] c.kind = "memwrite" -> {<<Ack("memwrite")>>}
    [] c.kind = "report"   -> ReportAnswers(c.arg)

\* How fast the controller is, compared with the library's threads.
MayReport ==
  /\ AnswersDuringInit \/ todo["main"] = <<>>
  /\ AnswersBeforeFlag \/ pc["memreq"] # "flag"

\* The controller answers in order.
DeviceAnswer ==
  /\ toDevice # <<>>
  /\ MayReport
  /\ toDevice' = Tail(toDevice)
  /\ \E reply \in Answers(Head(toDevice)) : toHost' = toHost \o reply
  /\ UNCHANGED <<pc, callVars, flagVars, m_write_queue, deviceVars, handleVars>>

\* An extension is plugged in or pulled out, and the controller says so.
DevicePlug ==
  /\ plugs < MaxPlugs
  /\ MayReport
  /\ plugs' = plugs + 1
  /\ plugged' \in IF plugged = Nothing THEN Plugs ELSE {Nothing}
  /\ toHost' = Append(toHost, Status')
  /\ UNCHANGED <<pc, callVars, flagVars, m_write_queue, toDevice, handleVars>>
-----------------------------------------------------------------------------
\* init starts the threads and goes on to make its calls.
Init ==
  /\ pc = [main |-> "call", reader |-> "read", memreq |-> "idle"]
  /\ todo = [t \in Callers |-> IF t = "main" THEN init_calls ELSE <<>>]
  /\ m_mem_read_update_mutex = FALSE
  /\ control_mutex = FALSE
  /\ wait_for_read = FALSE
  /\ wait_for_write = FALSE
  /\ queue = <<>>
  /\ read_requests = <<>>
  /\ m_write_queue = <<>>
  /\ toDevice = <<>>
  /\ toHost = <<>>
  /\ report = NoReport
  /\ m_extension = "monostate"
  /\ m_motionplus = "none"
  /\ plugged \in Plugs \cup {Nothing}
  /\ plugs = 0

Next ==
  \/ Call("main")
  \/ Reader
  \/ MemReq
  \/ WriteLoop
  \/ DeviceAnswer
  \/ DevicePlug

Spec == Init /\ [][Next]_vars

\* Every thread is scheduled and the controller answers what it received.
Fairness ==
  /\ WF_vars(Call("main"))
  /\ WF_vars(Reader)
  /\ WF_vars(MemReq)
  /\ WF_vars(WriteLoop)
  /\ WF_vars(DeviceAnswer)

FairSpec == Spec /\ Fairness

-----------------------------------------------------------------------------
(* Properties. *)

CallerPc == {"call", "push", "enqueue"}
ReaderPc == CallerPc \cup {"read", "ack_unlock", "match", "lower", "read_unlock", "pop"}
MemReqPc == {"idle", "check", "write", "flag", "pop", "asleep"}

PcTypeOK ==
  /\ pc \in [Threads -> CallerPc \cup ReaderPc \cup MemReqPc]
  /\ pc["main"] \in CallerPc
  /\ pc["reader"] \in ReaderPc
  /\ pc["memreq"] \in MemReqPc

CallTypeOK ==
  /\ todo \in [Callers -> Seq(Calls)]
  /\ queue \in Seq(MemWrites \cup MemReads)
  /\ read_requests \in Seq([addr : Addresses, got : Nat])
  /\ m_mem_read_update_mutex \in BOOLEAN

FlagTypeOK ==
  /\ wait_for_read \in BOOLEAN
  /\ wait_for_write \in BOOLEAN
  /\ control_mutex \in BOOLEAN

WireTypeOK ==
  /\ m_write_queue \in Seq(Calls)
  /\ toDevice \in Seq(Calls)
  /\ toHost \in Seq(Replies)
  /\ plugged \in Plugs \cup {Nothing}
  /\ plugs \in 0..MaxPlugs

HandleTypeOK ==
  /\ report \in ReadReplies
  /\ m_extension \in Extensions
  /\ m_motionplus \in MotionPlus

\* Every variable has the values its declaration in wiimote.hpp allows, and a
\* thread is only where its code can be.
TypeOK == PcTypeOK /\ CallTypeOK /\ FlagTypeOK /\ WireTypeOK /\ HandleTypeOK

\* mem_req_loop never has to wait on control_cv: whenever it gets
\* control_mutex both flags are down, so a notification cannot be lost
\* between the test of the predicate and the wait (wiimote.cpp:305-307).
NeverAsleep == pc["memreq"] # "asleep"

\* control_mutex is handed from thread to thread with nothing but the flags to
\* say so.  It is locked exactly when mem_req_loop is issuing a request, or one
\* flag is up, or the read thread has lowered a flag and not yet unlocked; no
\* two of these at once, so nobody unlocks a mutex another thread is using
\* (wiimote.cpp:306-322, wiimote_handle.cpp:62-66 and 176-184).
Issuing   == pc["memreq"] \in {"check", "write", "flag"}
Unlocking == pc["reader"] \in {"ack_unlock", "read_unlock"}

ControlHandover ==
  /\ control_mutex <=> (Issuing \/ wait_for_read \/ wait_for_write \/ Unlocking)
  /\ ~(wait_for_read /\ wait_for_write)
  /\ ~(Issuing /\ Unlocking)
  /\ (wait_for_read \/ wait_for_write) => ~Issuing /\ ~Unlocking

\* What front() and pop() rely on: the element is still there after the check
\* that found it (wiimote.cpp:308-319, wiimote_handle.cpp:163-183).
FrontPresent ==
  /\ pc["memreq"] \in {"write", "flag", "pop"} => queue # <<>>
  /\ pc["reader"] \in {"lower", "read_unlock", "pop"} => read_requests # <<>>
  /\ \A t \in Callers : pc[t] \in {"push", "enqueue"} =>
        todo[t] # <<>> /\ Head(todo[t]) \in MemReads

\* The invariant by which the others are proved.
IInv == TypeOK /\ ControlHandover /\ FrontPresent /\ NeverAsleep

\* How many of the first i elements of a sequence, or of all, are in a set.
CountTo(s, M, i) == Cardinality({j \in 1..i : s[j] \in M})
Count(s, M) == CountTo(s, M, Len(s))

\* The memory requests on their way to the controller, and the answers on their way
\* from it.
ReadsAsked     == Count(toDevice, MemReads) + Count(m_write_queue, MemReads)
ReadsAnswered  == Count(toHost, ReadReplies)
WritesAsked    == Count(toDevice, MemWrites) + Count(m_write_queue, MemWrites)
WritesAnswered == Count(toHost, {Ack("memwrite")})

\* The controller is never sent a memory request while an earlier one, or
\* its answer, is still on its way.
OneOutstanding == ReadsAsked + ReadsAnswered + WritesAsked + WritesAnswered <= 1

\* While wait_for_write is up the acknowledgement is still to come: the
\* request is on its way, or its acknowledgement is.
WriteAckPending == wait_for_write => WritesAsked + WritesAnswered = 1

\* A read report is in the read thread, which has not yet lowered wait_for_read.
Matching == pc["reader"] \in {"match", "lower"}

\* While wait_for_read is up the read report is still to come, or is being
\* handled.
ReadReplyPending ==
  wait_for_read => ReadsAsked + ReadsAnswered + (IF Matching THEN 1 ELSE 0) = 1

\* Where a read is from and how long it is, told from a request and from a
\* report.
Extent(addr)    == <<LowBytes[addr], ReadSize[addr]>>
CallExtent(c)   == Extent(c.arg)
ReportExtent(r) == <<r.low, r.size>>

Handling == Matching \/ pc["reader"] \in {"read_unlock", "pop"}
Unissued == IF pc["memreq"] \in {"flag", "pop"} THEN Tail(queue) ELSE queue
Entering == IF pc["reader"] = "enqueue" THEN <<Head(todo["reader"])>>
            ELSE IF pc["main"] = "enqueue" THEN <<Head(todo["main"])>> ELSE <<>>

\* The calls that are not answered yet: those on their way to the controller, and
\* the memory requests to be issued.
Outgoing == toDevice \o m_write_queue
Waiting  == Unissued \o Entering

\* The entries of read_requests after the first n are for the reads among the calls,
\* or for the read reports among the reports.
NamesCalls(n, calls) ==
  \A i \in 1..Len(calls) : calls[i] \in MemReads =>
    Extent(read_requests[n + CountTo(calls, MemReads, i)].addr) = CallExtent(calls[i])
NamesReports(n, reports) ==
  \A i \in 1..Len(reports) : reports[i] \in ReadReplies =>
    Extent(read_requests[n + CountTo(reports, ReadReplies, i)].addr)
      = ReportExtent(reports[i])

\* read_requests names the reads that are queued or on their way, all of them
\* and in the order of their answers: an answer is told only by its place in
\* that order (wiimote_handle.cpp:168-173).
ReadsTracked ==
  LET handled  == IF Handling THEN 1 ELSE 0
      answered == handled + ReadsAnswered
      asked    == answered + Count(Outgoing, MemReads)
  IN  /\ Len(read_requests) = asked + Count(Waiting, MemReads)
      /\ Handling => Extent(Head(read_requests).addr) = ReportExtent(report)
      /\ NamesReports(handled, toHost)
      /\ NamesCalls(answered, Outgoing)
      /\ NamesCalls(asked, Waiting)

\* m_mem_read_update_mutex keeps the constructing thread and the read thread
\* from using read_requests at the same time.
ReadRequestsExclusive ==
  ~ /\ pc["main"] = "push"
    /\ pc["reader"] \in {"match", "lower", "read_unlock", "pop", "push"}

\* Every call made by init is answered: in the end the queues are empty, no
\* request waits for its answer and control_mutex goes round again.
AllServed ==
  <>[] /\ todo["main"] = <<>> /\ todo["reader"] = <<>>
       /\ queue = <<>> /\ read_requests = <<>>
       /\ ~wait_for_read /\ ~wait_for_write

\* Whoever has control_mutex, mem_req_loop or the read thread on its behalf,
\* unlocks it in the end: "To be unlocked in read thread by acknowledge (0x22)
\* or read report (0x21)" (wiimote.cpp:321).
UnlockedInReadThread == control_mutex ~> ~control_mutex

\* The extension the library serves (on_mem_read, wiimote_handle.cpp:223-278).
ExtensionFor(id) ==
  CASE id \in {"NUNCHUK", "MPLS_NUNCHUK"} -> "NunchukRaw"
    [] id \in {"CLASSIC", "MPLS_CLASSIC"} -> "ClassicController"
    [] OTHER -> "monostate"

\* However often extensions are plugged in and pulled out, in the end
\* m_extension is what is plugged in (handle_status and on_mem_read).
DetectsExtension == <>[](m_extension = ExtensionFor(plugged))

-----------------------------------------------------------------------------
\* mem_req_loop, its two queues and the read thread implement StopAndWait.  A
\* request is issued when its flag is raised and done when its flag is lowered.
Pending == IF pc["memreq"] = "pop" THEN Tail(queue) ELSE queue

Outstanding == CASE wait_for_write -> "memwrite"
                 [] wait_for_read  -> "memread"
                 [] OTHER          -> "none"

SW == INSTANCE StopAndWait WITH
        Requests    <- MemWrites \cup MemReads,
        pending     <- Pending,
        outstanding <- Outstanding

\* Requests are issued in the order of their calls, each when the one before it
\* is done (mem_req_loop, handle_acknowledgement and handle_mem_read).
ImplementsStopAndWait == SW!Spec

=============================================================================
