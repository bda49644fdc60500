-------------------------- MODULE WiimoteLifecycle --------------------------
(***************************************************************************)
(* Construction, move construction and destruction of wiimote objects that *)
(* hand one device to each other, and what becomes of their threads and of *)
(* the memory requests in progress.                                        *)
(*                                                                         *)
(* Object 1 is constructed with the device, object n + 1 is moved from     *)
(* object n.  A memory request is a read that init makes, known by its     *)
(* address.  Memory writes, and the requests that the read thread makes on *)
(* an answer or a status report, are left out: MemRequests has them.  The  *)
(* steps within sending a request and handling its answer are those of     *)
(* MemRequests, too; here they are one.                                    *)
(***************************************************************************)
EXTENDS Naturals, Sequences

CONSTANTS
  MaxObjects,  \* bound on the number of objects
  InitReads    \* the number of memory reads that init requests, each from its address

ASSUME LifecycleAssumption == MaxObjects \in Nat \ {0} /\ InitReads \in Nat

Objects == 1..MaxObjects
Threads == {"read", "write", "mem"}

VARIABLES
  steps,          \* what main has still to do of a constructor or destructor
  objects,        \* the number of objects constructed
  destroyed,      \* the objects whose destructor has begun
  terminated,     \* has std::terminate been called?
  open,           \* is the device open?
  m_device,       \* does the object hold the device?
  m_running,
  thread,         \* where each thread of each object is
  read_requests,  \* the reads whose answer is awaited
  queue,          \* the requests mem_req_loop has still to send
  wait_for_read,  \* is one sent?  If so control_mutex is locked
  m_write_queue,
  pending         \* the requests the controller has not answered

mainVars   == <<steps, objects, destroyed, terminated>>
deviceVars == <<open, m_device>>
memVars    == <<read_requests, queue, wait_for_read>>
vars == <<mainVars, deviceVars, m_running, thread, memVars, m_write_queue, pending>>

-----------------------------------------------------------------------------
(* The constructors and the destructor, as the steps main takes. *)

Step(do, o)   == [do |-> do, of |-> o]
On(do, o, k)  == [do |-> do, of |-> o, thread |-> k]
Request(a, o) == [do |-> "request", of |-> o, address |-> a]

\* init that sets m_running last.
InitStepsLate(o) ==
  <<On("start", o, "write"), On("start", o, "read"), On("start", o, "mem"), Step("run", o)>>
    \o [i \in 1..InitReads |-> Request(i, o)]

InitSteps(o) ==
  <<Step("run", o), On("start", o, "write"), On("start", o, "read"), On("start", o, "mem")>>
    \o [i \in 1..InitReads |-> Request(i, o)]

\* move constructors that leave the write thread alone, or all threads running.
MoveStepsKeepingWriter(o) ==
  <<Step("clear", o), On("join", o, "read"), On("join", o, "mem"), Step("copy", o)>>
    \o InitSteps(o + 1)
MoveStepsRunning(o) ==
  <<On("join", o, "read"), On("join", o, "write"), On("join", o, "mem"), Step("clear", o),
    Step("copy", o)>> \o InitSteps(o + 1)

\* The move constructor of object o + 1.
MoveSteps(o) ==
  <<Step("clear", o), On("join", o, "read"), On("join", o, "write"), On("join", o, "mem"),
    Step("copy", o)>> \o InitSteps(o + 1)

\* a destructor that joins after it has closed the device.
DestroyStepsClosing(o) ==
  <<Step("close", o), On("join", o, "write"), On("join", o, "read"), Step("members", o)>>

\* The destructor, and that of the members.
DestroySteps(o) ==
  <<On("join", o, "write"), On("join", o, "read"), Step("close", o), Step("members", o)>>

Doing(do) == ~terminated /\ steps # <<>> /\ Head(steps).do = do
Self == Head(steps).of
Joinable(o, k) == thread[o][k] \notin {"none", "joined"}

-----------------------------------------------------------------------------
(* What main begins. *)

\* hid_open returns null and the constructor throws, or init follows.
OpenFails ==
  /\ objects = 0 /\ ~terminated
  /\ terminated' = TRUE
  /\ UNCHANGED <<steps, objects, destroyed, deviceVars, m_running, thread, memVars,
                 m_write_queue, pending>>

Open ==
  /\ objects = 0 /\ ~terminated
  /\ objects' = 1
  /\ open' = TRUE
  /\ m_device' = [m_device EXCEPT ![1] = TRUE]
  /\ steps' = InitSteps(1)
  /\ UNCHANGED <<destroyed, terminated, m_running, thread, memVars, m_write_queue,
                 pending>>

\* wiimote(wiimote &&)
Move ==
  /\ steps = <<>> /\ ~terminated
  /\ objects \in 1..(MaxObjects - 1) /\ objects \notin destroyed
  /\ objects' = objects + 1
  /\ steps' = MoveSteps(objects)
  /\ UNCHANGED <<destroyed, terminated, deviceVars, m_running, thread, memVars,
                 m_write_queue, pending>>

\* ~wiimote(), of a moved-from object too.
Destroy(o) ==
  /\ steps = <<>> /\ ~terminated
  /\ o <= objects /\ o \notin destroyed
  /\ destroyed' = destroyed \cup {o}
  /\ steps' = DestroySteps(o)
  /\ UNCHANGED <<objects, terminated, deviceVars, m_running, thread, memVars,
                 m_write_queue, pending>>

-----------------------------------------------------------------------------
(* The steps. *)

\* m_running is set or cleared, the device closed; the destructor of a std::thread
\* that is still joinable terminates the program.
Assign ==
  /\ \E do \in {"run", "clear", "close", "members"} :
       /\ Doing(do)
       /\ m_running' = [m_running EXCEPT ![Self] = CASE do = "run"   -> TRUE
                                                     [] do = "clear" -> FALSE
                                                     [] OTHER        -> @]
       /\ open' = (open /\ ~(do = "close" /\ m_device[Self]))
       /\ terminated' = (do = "members" /\ \E k \in Threads : Joinable(Self, k))
  /\ steps' = Tail(steps)
  /\ UNCHANGED <<objects, destroyed, m_device, thread, memVars, m_write_queue, pending>>

StartThread ==
  /\ Doing("start")
  /\ thread' = [thread EXCEPT ![Self][Head(steps).thread] = "test"]
  /\ steps' = Tail(steps)
  /\ UNCHANGED <<objects, destroyed, terminated, deviceVars, m_running, memVars,
                 m_write_queue, pending>>

\* join() returns when the thread has ended ...
Join ==
  /\ Doing("join")
  /\ thread[Self][Head(steps).thread] = "ended"
  /\ thread' = [thread EXCEPT ![Self][Head(steps).thread] = "joined"]
  /\ steps' = Tail(steps)
  /\ UNCHANGED <<objects, destroyed, terminated, deviceVars, m_running, memVars,
                 m_write_queue, pending>>

\* ... and throws if there is none, which neither caller lets through.
JoinThrows ==
  /\ Doing("join")
  /\ ~Joinable(Self, Head(steps).thread)
  /\ terminated' = TRUE
  /\ UNCHANGED <<steps, objects, destroyed, deviceVars, m_running, thread, memVars,
                 m_write_queue, pending>>

\* a move constructor that does not take over m_write_queue.
CopyStateOnly ==
  /\ Doing("copy")
  /\ LET other == Self IN
       /\ read_requests' = [read_requests EXCEPT ![other + 1] = read_requests[other]]
       /\ m_device' = [m_device EXCEPT ![other + 1] = m_device[other], ![other] = FALSE]
  /\ steps' = Tail(steps)
  /\ UNCHANGED <<objects, destroyed, terminated, open, m_running, thread, queue,
                 wait_for_read, m_write_queue, pending>>

\* a move constructor that takes over the flag of mem_req_queue, too.
CopyStateAndFlag ==
  /\ Doing("copy")
  /\ LET other == Self IN
       /\ read_requests' = [read_requests EXCEPT ![other + 1] = read_requests[other]]
       /\ m_device' = [m_device EXCEPT ![other + 1] = m_device[other], ![other] = FALSE]
       /\ m_write_queue' =
            [m_write_queue EXCEPT ![other + 1] = m_write_queue[other], ![other] = <<>>]
       /\ wait_for_read' = [wait_for_read EXCEPT ![other + 1] = wait_for_read[other]]
  /\ steps' = Tail(steps)
  /\ UNCHANGED <<objects, destroyed, terminated, open, m_running, thread, queue, pending>>

\* m_state, with its read_requests, the device and m_write_queue are taken over;
\* mem_req_queue is not.
CopyState ==
  /\ Doing("copy")
  /\ LET other == Self IN
       /\ read_requests' = [read_requests EXCEPT ![other + 1] = read_requests[other]]
       /\ m_device' = [m_device EXCEPT ![other + 1] = m_device[other], ![other] = FALSE]
       /\ m_write_queue' =
            [m_write_queue EXCEPT ![other + 1] = m_write_queue[other], ![other] = <<>>]
  /\ steps' = Tail(steps)
  /\ UNCHANGED <<objects, destroyed, terminated, open, m_running, thread, queue,
                 wait_for_read, pending>>

\* mem_request_read
RequestRead ==
  /\ Doing("request")
  /\ read_requests' = [read_requests EXCEPT ![Self] = Append(@, Head(steps).address)]
  /\ queue' = [queue EXCEPT ![Self] = Append(@, Head(steps).address)]
  /\ steps' = Tail(steps)
  /\ UNCHANGED <<objects, destroyed, terminated, deviceVars, m_running, thread,
                 wait_for_read, m_write_queue, pending>>

-----------------------------------------------------------------------------
(* The threads' loops. *)

Goto(o, k, label) == thread' = [thread EXCEPT ![o][k] = label]

\* while (m_running)
Test(o, k) ==
  /\ ~terminated
  /\ thread[o][k] = "test"
  /\ Goto(o, k, IF m_running[o] THEN "busy" ELSE "ended")
  /\ UNCHANGED <<mainVars, deviceVars, m_running, memVars, m_write_queue, pending>>

\* hid_read returns a report that answers nothing.
ReadOther(o) ==
  /\ ~terminated
  /\ thread[o]["read"] = "busy"
  /\ Goto(o, "read", "test")
  /\ UNCHANGED <<mainVars, deviceVars, m_running, memVars, m_write_queue, pending>>

\* It returns an answer, which is ignored unless it is the one awaited next.  The
\* requests that on_mem_read makes on some answers are left out.
ReadAnswer(o) ==
  /\ ~terminated
  /\ thread[o]["read"] = "busy"
  /\ pending # <<>>
  /\ IF read_requests[o] # <<>> /\ Head(read_requests[o]) = Head(pending)
       THEN /\ read_requests' = [read_requests EXCEPT ![o] = Tail(@)]
            /\ wait_for_read' = [wait_for_read EXCEPT ![o] = FALSE]
       ELSE UNCHANGED <<read_requests, wait_for_read>>
  /\ pending' = Tail(pending)
  /\ Goto(o, "read", "test")
  /\ UNCHANGED <<mainVars, deviceVars, m_running, queue, m_write_queue>>

WriteReport(o) ==
  /\ ~terminated
  /\ thread[o]["write"] = "busy"
  /\ IF m_write_queue[o] # <<>>
       THEN /\ pending' = Append(pending, Head(m_write_queue[o]))
            /\ m_write_queue' = [m_write_queue EXCEPT ![o] = Tail(@)]
       ELSE UNCHANGED <<pending, m_write_queue>>
  /\ Goto(o, "write", "test")
  /\ UNCHANGED <<mainVars, deviceVars, m_running, memVars>>

\* Blocked on control_mutex while a request is unanswered.
SendRequest(o) ==
  /\ ~terminated
  /\ thread[o]["mem"] = "busy"
  /\ ~wait_for_read[o]
  /\ IF queue[o] # <<>>
       THEN /\ m_write_queue' = [m_write_queue EXCEPT ![o] = Append(@, Head(queue[o]))]
            /\ wait_for_read' = [wait_for_read EXCEPT ![o] = TRUE]
            /\ queue' = [queue EXCEPT ![o] = Tail(@)]
       ELSE UNCHANGED <<m_write_queue, wait_for_read, queue>>
  /\ Goto(o, "mem", "test")
  /\ UNCHANGED <<mainVars, deviceVars, m_running, read_requests, pending>>

-----------------------------------------------------------------------------
Init ==
  /\ steps = <<>> /\ objects = 0 /\ destroyed = {} /\ terminated = FALSE
  /\ open = FALSE
  /\ m_device = [o \in Objects |-> FALSE]
  /\ m_running = [o \in Objects |-> FALSE]
  /\ thread = [o \in Objects |-> [k \in Threads |-> "none"]]
  /\ read_requests = [o \in Objects |-> <<>>]
  /\ queue = [o \in Objects |-> <<>>]
  /\ wait_for_read = [o \in Objects |-> FALSE]
  /\ m_write_queue = [o \in Objects |-> <<>>]
  /\ pending = <<>>

MainStep == Assign \/ StartThread \/ Join \/ JoinThrows \/ CopyState \/ RequestRead

Next ==
  \/ OpenFails \/ Open \/ Move \/ \E o \in Objects : Destroy(o)
  \/ MainStep
  \/ \E o \in Objects :
       \/ \E k \in Threads : Test(o, k)
       \/ ReadOther(o) \/ ReadAnswer(o) \/ WriteReport(o) \/ SendRequest(o)

Spec == Init /\ [][Next]_vars

\* Main and the threads go on; the controller, which is set to report all the
\* time, sends its answers between the other reports.
FairSpec ==
  /\ Spec
  /\ WF_vars(MainStep)
  /\ \A o \in Objects :
       /\ \A k \in Threads : WF_vars(Test(o, k))
       /\ WF_vars(ReadOther(o) \/ ReadAnswer(o)) /\ SF_vars(ReadAnswer(o))
       /\ WF_vars(WriteReport(o)) /\ WF_vars(SendRequest(o))

-----------------------------------------------------------------------------
TypeOK ==
  /\ objects \in 0..MaxObjects /\ destroyed \subseteq 1..objects
  /\ \A b \in {terminated, open} : b \in BOOLEAN
  /\ \A f \in {m_device, m_running, wait_for_read} : f \in [Objects -> BOOLEAN]
  /\ thread \in [Objects -> [Threads -> {"none", "test", "busy", "ended", "joined"}]]
  /\ \A f \in {read_requests, queue, m_write_queue} : f \in [Objects -> Seq(1..InitReads)]
  /\ pending \in Seq(1..InitReads)
  /\ \A o \in Objects : wait_for_read[o] => thread[o]["mem"] # "none"

Using(o) == \E k \in {"read", "write"} : thread[o][k] \in {"test", "busy"}

\* Whatever is moved, one object's threads at most use the device, and while they
\* do the object holds it and it is open (wiimote.cpp:46-59, 64-67).
OneUser ==
  \A o \in Objects :
    Using(o) => m_device[o] /\ open /\ \A p \in Objects \ {o} : ~Using(p)

MovedFrom(o) == o < objects /\ ~m_device[o]

\* mem_req_queue is not moved: requests that were not yet sent are gone.
Dropped == \E o \in Objects : MovedFrom(o) /\ queue[o] # <<>>

\* The reads that the current object awaits are, in this order, those the controller
\* has to answer, those in the write queue and those to be sent, unless requests
\* were dropped in a move (wiimote.cpp:53-56).
ReadsCarriedOver ==
  \A o \in Objects :
    (m_device[o] /\ ~Dropped) => read_requests[o] = pending \o m_write_queue[o] \o queue[o]

\* A read that is requested is answered, also by an object that was moved to, unless
\* the object is moved from or requests were dropped in a move.
Served ==
  \A o \in Objects :
    read_requests[o] # <<>> ~> \/ read_requests[o] = <<>>
                               \/ ~m_running[o] \/ Dropped \/ terminated

Quiet(o) == queue[o] = <<>> /\ ~wait_for_read[o]

\* A move of an object with no request in progress comes to its end, and the new
\* object's threads run (wiimote.cpp:45-61).
MoveEnds ==
  \A o \in Objects \ {MaxObjects} :
    (objects = o + 1 /\ MovedFrom(o) = FALSE /\ Quiet(o)) ~>
      (terminated \/ \A k \in Threads : thread[o + 1][k] # "none")

\* A destructor closes the device, having joined the threads: "Read thread joined"
\* (wiimote.cpp:66-67).
DestructorCloses == (destroyed # {}) ~> ~open

=============================================================================
