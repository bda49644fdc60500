# Models and proofs of the Wii Remote driver and DSU server

`mote` drives a Wii Remote over HID (`wmote/`), offers its state to games over
the DSU (cemuhook) UDP protocol (`dsulib/`) and has a small demonstration
program (`main.cpp`).  This directory holds TLA+ models of the parts where
threads meet, the TLC configurations that check them, and TLAPS proofs.

## The system

| component | state | operations | talks to |
|---|---|---|---|
| memory-request pipeline, `wmote/wiimote.cpp`, `wiimote_handle.cpp` | `mem_req_queue` (queue, two flags, `control_mutex`, `element_mutex`), `read_requests`, `m_write_queue`, `m_mem_read_update_mutex` | `init`, `mem_request_write/read`, `mem_req_loop`, `write_loop`, `handle_status`, `handle_acknowledgement`, `handle_mem_read` | the controller (HID reports), four threads through shared state |
| extension detection, same files, `extensions.hpp`, `memory.hpp` | `m_extension`, `m_motionplus`, calibration | `on_mem_read`, `handle_status`, `request_*`, `activate_motionplus`, `update_motionplus` | submits requests to the pipeline, is called by it with the answers |
| rumble output, `wiimote_get.cpp`, `wiimote.cpp` | `m_state.rumble` | `set_rumble`, `write`, `write_loop` | every thread that writes a report |
| input decoding, `wiimote_handle.cpp`, `reads.hpp` | `m_state.buttons/acc/ir_dots`, the extension's and MotionPlus's raw data, the read buffer | `handle_buttons_*`, `handle_ir_*`, `handle_interleaved_*`, `handle_extension_data` | called by `read_loop` |
| getters, `wiimote_get.cpp` | none | `get_buttons`, `status`, `accelerometer`, `motionplus`, `ir_dots` | read what the read thread writes, under five shared mutexes |
| life cycle, `wiimote.cpp` | `m_running`, three threads, `m_device` | constructors, move constructor, destructor | starts and joins the threads |
| DSU server, `dsulib/dsu_server.*` | `m_running`, `m_clients`, packet numbers | `start`, `stop`, `read_loop`, `send_loop`, `send` | clients over UDP, the handlers that `main` sets |
| demonstration, `main.cpp` | `led_index`, acceleration limits | the main loop, the DSU handlers | public interface of `wiimote`, `dsu_server` |
| sockets, message layout, CRC, byte order, logging | none of interest | | |

What makes the code hard: `control_mutex` is locked by one thread and unlocked by
another; an answer is told only by its low address bits and its place in
`read_requests`; three mutexes guard pieces of what is one step for the caller;
the controller answers at its own pace while extensions come and go; the DSU
threads share the client table without a lock; a decoded field is written by one
thread while another computes with it; an object's threads outlive the steps of
its constructors and destructor that should stop them.  What makes each component
correct is listed with its module below, and the hazards, each at its line, in
`PROJECT.json`.

## Modules

| module | models | checked by |
|---|---|---|
| `ExtensionRules` | pure operators: the calls each library function makes, and what the read thread decides for each identifier, status bit and checksum | through `MemRequests` and `InputState` |
| `MemRequests` | the pipeline: `main` (init), the read thread, `mem_req_loop`, `write_loop`, and the controller | `mem_*` |
| `StopAndWait` | what the pipeline promises: requests are issued in order, one at a time | refinement in `mem_race` |
| `MemRequestsProofs` | inductive invariant and refinement, proved | tlapm |
| `MemFlowProofs` | where every request and answer is: `OneOutstanding`, `WriteAckPending`, `ReadReplyPending`, `ReadsTracked`, proved | tlapm |
| `ReportLayouts` | pure operators: for each input report the fields its handlers write, from which bytes, under which mutex; what each getter reads; the layout the reports' names promise | through `InputState` |
| `InputState` | the read thread and the getters, one action per lock, access and unlock | `input*` |
| `InputStateProofs` | `Snapshot`, proved | tlapm |
| `InputOriginsProofs` | where what getters return comes from: `TypeOK`, `GyroFromItsFrame`, `AccFromOneReport`, `AccNotLeftBehind`, `DecodedAsNamed`, proved | tlapm |
| `RumbleWrites` | the rumble bit from `m_state.rumble` to the controller | `main_loop`, `rumble_stale` |
| `RumbleWritesProofs` | `RumbleSettled`, proved | tlapm |
| `MainLoop` | `main`'s polling loop on top of `RumbleWrites`: buttons, rumble, LEDs | `main_loop` |
| `MainLoopProofs` | `RumbleSettled` of the program, `LedsFollow`, `MainTypeOK`, proved | tlapm |
| `WiimoteLifecycle` | constructors, move, destructor and the three threads of each object | `lifecycle`, `life_destroy` |
| `WiimoteLifecycleProofs` | `TypeOK`, `OneUser`, `ReadsCarriedOver`, proved | tlapm |
| `DsuServer` | both server threads, start and stop, the client table, packet numbers | `dsu_*` |
| `DsuServerProofs` | `TypeOK`, `NumbersConsecutive`, `AtMostOneMore`, proved | tlapm |
| `MC*` | the modules TLC is started on | |

Operators whose name is a variation of an action's (`HandleAcknowledgementOfAny`,
`PopRequestForgotten`, ...) are the same action with one plausible mistake in it.
They are part of no specification: put in place of the action they show that a
property notices the mistake.

### MemRequests

Each variable is a member of `wiimote` or a program counter.  A thread's steps
are split where another thread can see the difference:

* `mem_request_read` takes three: lock `m_mem_read_update_mutex`, push and
  unlock, queue the report.
* `handle_mem_read` locks, matches the front request, appends the data or takes
  the error, lowers the flag, unlocks `control_mutex`, pops and unlocks.  Its
  `scoped_lock` unlocks the same mutex *again* when the handler returns
  (`Return`).  Unlocking a mutex that one does not hold is undefined; the model
  does what the C library on the supported platform does, it frees the mutex.
* `handle_acknowledgement` lowers the flag, then unlocks.
* `mem_req_loop` locks `control_mutex`, tests the flags, tests `queue.empty()`,
  queues the report, raises the flag, pops, and leaves the mutex locked
  (`ul.release()`).  `queue.empty()` is read without `element_mutex`; as only this
  thread pops, what it finds is what an earlier locked read would find.
* `m_writer_mutex` guards single critical sections everywhere; each is one action.

When a handler returns decisions (`OnStatus`, `OnMemRead`), the model assigns
`m_extension` and `m_motionplus` before the calls the handler makes, since only
the read thread looks at them here.  `m_motionplus->mode = ...` on an empty
optional (wiimote_handle.cpp:232) is overwritten by the value-initialised mode,
which is the same value.

Abstracted: the content of calibration blocks (good or bad checksum), of other
memory, the request counter, logging, the LEDs, and input reports (they are in
`InputState`).  Error codes of
acknowledgements are only logged.  No read is longer than 16 bytes, so each is
answered by one report.  `m_running` is constantly true.

The controller (`DeviceAnswer`, `DevicePlug`) is external: a reliable,
in-order partner that answers a read with data or an error, acknowledges a
memory write, may acknowledge other reports, answers a status request and sends
a status report when an extension is plugged or pulled.  Two constants bound how
fast it is: `AnswersDuringInit` (may it answer while `init` still makes calls)
and `AnswersBeforeFlag` (may its answer be on its way before `mem_req_loop` has
raised the flag).  In practice `init` takes microseconds, and `write_loop` waits
5 ms between reports, so both are rare; but nothing in the code excludes them,
and the runs show what they cost.  `WritesMayFail` lets `hid_write` lose a report.

### ReportLayouts and InputState

`Handlers(r, e, m)` is the switch of `read_loop` as data: the critical sections a
report leads to, given `m_extension` and `m_motionplus` when it is read, each
with its mutex and its writes.  A written field holds *where it comes from*, a set
of byte positions; the state holds for each of these bytes the number of the
report that put it into the shared buffer, so that a byte left over from an
earlier, longer report is seen as such.  `InputState` runs the sections one lock,
write and unlock at a time, and the getters likewise.  `Getter` is the same for
the getters; `controller_data` is the handler that `main` gives to the DSU
server, four getters one after the other.

* `Guard` is the mutex declared for a field in wiimote.hpp:185-195.  It is not built
  into the actions: `handle_status` writes `m_extension` and `m_motionplus` under
  `m_status_mutex`, as the code does, which is what `input_motionplus` finds.
* `nunchuk_low` are the lowest bits of the nunchuk's acceleration, which the
  MotionPlus does not pass through; the code keeps the old ones.
* The tests of `ir_dots` (it returns nothing when `ir_enabled` is *set*) and of
  `motionplus` are `ReturnsNothing`.
* Abstracted: the shifts within a byte, a dot's `min`, `intensity` and `disabled`, the
  floating-point formulas.  The rumble state that `status()` adds is in
  `RumbleWrites`.  The writes of `on_mem_read` are those of `ExtensionRules`;
  `MemRequests` has the rest of its handler.

`Parts` and `PartBytes` are the reference the decoding is checked against: they come
from the names in reports.hpp, `BUTTONS_ACC_IR_12B` and so on, not from the
handlers.  Two kinds are not decoded by their names and are excepted by name
(`MisreadKinds`): 0x36 has its 10 bytes of dots read as 12, so that its extension
bytes start two late; 0x37 has the first five of its ten bytes of dots read twice.

The bit by which a frame says that it is MotionPlus data is bit 1 of the frame's
sixth byte.  `mpls_bits` is the set of bytes of a report, at any frame's sixth byte,
that have it set, and `Handlers` tests the byte that the code tests.  For 0x36 that
is byte 20, while the frame the name promises is in 13 to 18 and has its bit in
byte 18; so the code may take such a frame for MotionPlus data that is none.
`GyroFromItsFrame` is stated by the named layout, bytes and bit, and excepts 0x36.
The interleaved kinds have no promise to check.  The driver asks the controller
for none of these.

### RumbleWrites and MainLoop

A report is its rumble bit and whether it is the `RumbleReport` of `set_rumble`.
`write()` is two steps (`FillRumble`, `PushReport`), because it uses two mutexes one
after the other.  Only `main` calls `set_rumble`; `Others` are the threads that write
other reports.  `raced` is a history variable: was another thread between
`get_rumble()` and its push when `m_state.rumble` was last set.

`RumbleReport rumble;` (wiimote_get.cpp:63) leaves its second byte uninitialised, and
`write()` only ever sets bits in it.  `UnusedBits` is what the bit may be; but for
`rumble_stale`, whose counterexample is another one, both values are checked, and
the theorems hold for any.  So `set_rumble(false)` need not turn the rumble off, and `RumbleSettled` says what is left: unless a report was
overtaken, the controller ends up doing what `m_state.rumble` says, or the newest
report is a `RumbleReport` that came with the bit set.  All other reports have the bit
clear when they are filled in, so the next of them repairs it.  `RumbleReaches` says
that a write that begins makes the state of that moment reach the controller, raced or
not, with the same exception for turning off.

`MainLoop` extends it with `main`: it polls A, B, PLUS, MINUS in turn, waits for the
release of the one it saw, and calls `set_rumble` or `set_leds`.  `led_index` is
unsigned; `IndexValues` stands for 2^64, and four must divide it.  `count` (presses
of PLUS less those of MINUS that were acted on) is history.  A press between two polls
is not seen, and with A and B held together it is the order of polling, not of
releasing, that decides; so nothing is said of "the last button released".  What is
said is `PressReaches`: a press of A that `main` has seen, and that is released for
good, makes the controller rumble.
`server.start` is commented out in `main` (main.cpp:111), so the server's threads
are not among `Others`; the acceleration limits are not used.

### WiimoteLifecycle

A constructor or destructor is the list of what it does, `InitSteps`,
`MoveSteps`, `DestroySteps`, taken from the source line by line: set or clear
`m_running`, start or join a thread, copy the state, close the device.  `main`
executes the list one step at a time between the steps of the threads.  Object
`n + 1` is moved from object `n`; any object may be destroyed, a moved-from one
included.  `join` of a thread that is not joinable throws, out of a move constructor or
destructor that are `noexcept`: `terminated`.  The closing of the device is never reached in
the destructor (`life_destroy`).

A memory request is a read known by its address.  Sending one and handling its
answer are one step each: what is within them is `MemRequests`.  The requests are the
reads of `init`; memory writes, and the requests that the read thread makes on a
status report or an answer (wiimote_handle.cpp:15-18, 219-289), are left out here and
are in `MemRequests`.  What the move takes over is in `CopyState`: `m_state` with its `read_requests`, the device and
`m_write_queue`, but not `mem_req_queue`.  `Dropped` is the case that a move loses
requests by that.

### DsuServer

`++data_packet_no` is `LoadNumber` and `StoreNumber`.  An `emplace` during the send
thread's iteration leaves `round`, the clients still to visit, open; a crash is
left out.  Handlers are external: one response to a protocol or data request,
up to `MaxSlots` to a status request.  One visit of the send loop sends one report
(`Visit`), as the handler that `main` sets returns exactly one.  The 5 ms busy wait is
part of `SendTest`.  Packet numbers are taken modulo `PacketNumbers` (2^32 in the code).

`stop()` does not wake a read thread that is blocked in `recvfrom`
(dsu_server.cpp:44): it takes, and answers, one more datagram, and ends then.  The
history variable `late` counts the datagrams taken after a `stop()`.  `AtMostOneMore`
is the safe half of that, `NextDatagramEnds` the live one: the next datagram, and only
a datagram, ends the thread.

The read thread is the one that sets `m_running`, and two cases of that have a name:
the send loop that ends because it tests the flag first is labelled "missed", a
`stop()` that comes first and is undone is labelled "overtaken".  The properties
name these labels where they make an exception.

## Runs

Passing:

| run | shows | bounds |
|---|---|---|
| `mem_quiet` | with an unhurried controller an awaited answer is always still to come (`WriteAckPending`, `ReadReplyPending`), `read_requests` names exactly the reads to come in the order of their answers (`ReadsTracked`), no thread sleeps on `control_cv`, every request is served (`AllServed`), hot-plugging ends with what is plugged in (`DetectsExtension`), no deadlock | nunchuk and classic controller, an inactive MotionPlus, good and bad checksums, two changes of what is plugged in |
| `mem_race` | for any speed, answers during `init` included, and with reports lost by `hid_write`: `ControlHandover`, the inductive invariant `IInv`, `OneOutstanding`, refinement of `StopAndWait` | nunchuk or classic controller, no further plugging |
| `input` | fields come from exactly the bytes the report's name promises (`DecodedAsNamed`), angular velocity is one whole frame of one report, with its bit set (`GyroFromItsFrame`, but for 0x36), a getter returns the state of one instant (`Snapshot`), three axes of one report (`AccFromOneReport`), acceleration not older than the buttons it is sent with (`AccNotLeftBehind`), a report is handled to its end unless getters are called for ever (`ReportHandled`) | any two reports, of every kind and effect; one thread calling `ir_dots` and `controller_data`, which is all getters |
| `main_loop` | the controller does what `m_state.rumble` says, with the two exceptions above (`RumbleSettled`, and `SettledInv`, its inductive form); the state of the moment a write begins reaches it (`RumbleReaches`), and so does a press of A that was seen (`PressReaches`); the LEDs follow the presses (`LedsFollow`); no waiting loop is left for ever (`GoesRound`) | `main` and another writer, one report queued when a write starts, both values of the unused bit, `led_index` modulo 8, one press of MINUS below zero and three of PLUS above, two buttons down at once |
| `lifecycle` | one object's threads at a time use the device, which is open (`OneUser`); awaited reads are carried over by a move (`ReadsCarriedOver`) and answered (`Served`) unless requests were dropped; a move with no request in progress ends (`MoveEnds`) | three objects, two reads by each constructor |
| `dsu_serve` | datagrams are served, clients streamed to, packet numbers consecutive for a client that does not ask for data while another does, `stop()` ends the send loop; after it the read thread takes at most one more datagram (`AtMostOneMore`), and the next one ends it (`NextDatagramEnds`) | two clients, two datagrams, up to two status responses, numbers modulo 3 |

Why these bounds reach the interesting cases.  Two changes of what is plugged in
are the smallest number that gives "pulled and plugged again while the first
detection is still going on"; `init` makes reads of three addresses, two of which
share their low bytes, so one status report during it is enough to mix two
detections.  Two input reports are one that sets the mode, the extension or the
rest of the buffer, and one that is decoded by it; a getter can be anywhere
between them.  Eight values of `led_index` are two rounds of the LEDs, one with a
second LED lit and one without; one below zero is a wrap, and lights the second LED.
Three objects are two moves, so that a moved-to object is moved from.  Modulo 3 packet
numbers wrap around in a run of a few states.  A report of another writer can be overtaken by
`set_rumble` or come after it, and two of them can be queued, one of each writer.

Violations, each a counterexample to what the repository says:

| run | what happens |
|---|---|
| `mem_mixed_reads` | a status report during `init` makes the read thread enter reads too; the two orders differ, the answer is ignored, `control_mutex` stays locked for ever |
| `mem_double_unlock` | the second unlock of `m_mem_read_update_mutex` frees it while `init` holds it |
| `rumble_stale` | a report filled in before `set_rumble` is queued after it: the controller keeps the old state |
| `input_motionplus` | `handle_status` takes the MotionPlus away, under `m_status_mutex`, between `motionplus()`'s test of the optional and its use, under `m_extension_mutex` |
| `life_destroy` | the destructor joins threads whose loops nothing ends and never comes to close the device |
| `dsu_same_number` | two reports for one client have the same packet number |

The same properties show three more cases with other constants, which have no run
of their own: they break the same promises by other lines.  With
`AnswersBeforeFlag = TRUE` an answer that is handled before its flag is raised is
ignored and `control_mutex` stays locked (`UnlockedInReadThread` fails).  With
`UnusedBits = {FALSE, TRUE}` `set_rumble(false)` may send the bit set, with no other
thread about (`RumbleObeyed` fails in one call).  The DSU send loop may end before the read
thread has set `m_running`: the label "missed", which `Streams` excepts.

`CHECK_DEADLOCK FALSE` stands where the system really may stop: in the `mem_*`
runs that allow the races above; in the DSU runs when `bind` fails or both
threads have ended; in the input runs when the controller has sent all its reports
and the callers are done; in the life-cycle runs when the program has terminated or
a join waits for ever; and in `main_loop`, when the bounds on presses are
exhausted.

### Fairness

Weak fairness of each thread: they are OS threads in loops.  In `MemRequests` also of
the controller's answering; in `WiimoteLifecycle` of the return of `hid_read`, as the
controller is set to report all the time.  Pressing buttons, plugging, reports
sent, `set_rumble`, `stop()`, moves, destructions and the DSU clients' datagrams
have none.

In `InputState` the read thread takes mutexes exclusively that getters hold shared.
`std::shared_mutex` promises no order among them: callers whose calls always overlap
may keep the read thread out.  So there is no strong fairness of its locking, and
`ReportHandled` names the case: a report that has been read is handled to its end, or
getters are called again and again for ever.

Strong fairness is assumed in two places, each of an action that is enabled again and
again but not all the time:

* `ReadAnswer` in `WiimoteLifecycle`: `hid_read` returns the controller's reports in
  order, so an answer comes up between input reports.
* `MainStep` in `MainLoop`: the queue is full only in the model, whose bound disables
  `main`'s writes; `write_loop` makes room again and again.

## Proofs

`MemRequestsProofs` proves, for every set of extensions, identifiers and
checksums, every bound, any timing of the controller and with failing writes:

* `Invariance`: `Spec => []IInv`.  `IInv` is the type invariant, `ControlHandover`,
  `FrontPresent` and `NeverAsleep`.  `NeverAsleep` alone is not inductive: that both
  flags are down when `mem_req_loop` gets `control_mutex` follows from
  `ControlHandover`, which says the mutex is locked whenever a flag is up;
  `ControlHandover` needs to know that lowering a flag and unlocking belong
  together (`Unlocking`), and the type of `queue` needs `FrontPresent`.  The proof has
  a lemma per conjunct and in it a step per action.
* `TypeCorrect`, `ControlIsHandedOver`, `MemReqNeverAsleep`, `FrontAlwaysPresent`: its parts.
* `Refinement`: `Spec => ImplementsStopAndWait`.  A request is issued when
  `RaiseFlag` raises its flag and complete when a handler lowers it; every
  other step submits a request or stutters.

`MemFlowProofs` goes on from there and follows each request to the controller and
back.  Requests and answers in the three queues are counted as the cardinality of
their places; that appending one adds one and taking the first takes one away
follows from the theorems on finite sets (`CountToNext`, `CountToShift`).

* `OneAtATime`: `OneOutstanding` for all constants, lost writes and any timing
  included.  Its invariant is `Accounted`: all that is on its way, and the read
  report in the hands of the read thread, is covered by one raised flag or by
  `mem_req_loop` being about to raise it; with `IInv`, at most one of these holds.
* `AckStillToCome`: `WriteAckPending`, if `hid_write` does not fail and no answer is
  handled before its flag is raised.  `JustAsked` adds that the request is on its way
  while `mem_req_loop` is about to raise its flag.
* `ReadsAreTracked`: `ReadsTracked`, if `hid_write` does not fail and no status report
  makes the read thread submit reads during `init`.  The invariant `TrackInv` says of
  each place of `main` and the read thread whether the read it is submitting is
  entered in `read_requests` and in `queue` already (`Phase`), that the answers, the
  reads on their way and those waiting are, one after the other, what
  `read_requests` names (`Flow`), that the report being handled is the front's
  (`FrontMatches`) and that only a complete read has received anything
  (`FreshEntries`).
* `ReplyStillToCome`: `ReadReplyPending` under all three conditions; an answer that
  comes up is the front's, so it is matched and not ignored.

The conditions are the constants of the model that name what the code does not
exclude; without them the properties fail (`mem_mixed_reads` and the cases below it).

`RumbleWritesProofs` proves `RumbleSettled` for any set of threads, any queue and any
contents of the uninitialised byte.  `SettledInv` is its inductive form: only a
`RumbleReport` has the bit set before it is filled in, and what is filled in and not
yet queued agrees with `m_state.rumble`, in the sense of `RumbleSettled`, unless it was
overtaken.  Both exceptions are necessary (see the cases under "Runs").

`MainLoopProofs` proves, for any other threads:

* `MainRumbleSettled`: `RumbleSettled` of the program: no step of `main`'s loop
  breaks `SettledInv`.
* `MainTypes`: `MainTypeOK`.
* `LedsFollowButtons`: `LedsFollow` for every number of values of `led_index` that
  four divides.  The inductive invariant is `LedsFollow` with the types; the step
  needs that wrapping around keeps the remainder by four.

`DsuServerProofs` proves, for any clients, handlers and width of the number:

* `DsuTypeCorrect`: `TypeOK`.  It is inductive together with `Placed`: a thread that is
  serving serves a registered client, and only for data does it touch the number.
* `NumbersAreConsecutive`: with `Counted`, a client that does not ask for data has as
  its number the last one sent, or the next while that is being sent.
* `StopLeavesOneDatagram`: `AtMostOneMore`, from the invariant `Stopped`: after a stop
  that is not undone `m_running` stays false, and the read thread, which may be in
  `recvfrom` already, does not come back to it.

`InputStateProofs` proves `SnapshotTaken`, `Spec => []Snapshot`, for any reports, any
number of them and any callers.  Its first half is about the operators of
`ReportLayouts`: every section of every handler writes only fields its mutex
guards, or fields of the extension (`HandlersWrite`), and every getter reads fields
under their own mutex and locks no mutex twice (`GettersRead`).  The second half is
the inductive invariant: sections keep these types, what a caller has read was
read under a mutex it holds or will not lock again (`CallersInv`), and the read thread
and a caller never hold the same mutex (`KeptApart`).

`InputOriginsProofs` adds where things come from, for any reports in any order:

* `OriginsInvariant` is the inductive invariant.  `StateOrigins`: the buffer begins
  with the last report (`BufferInv`); what is left to be handled is of that report,
  and its acceleration is a section of three writes that only the read thread's
  current section can have begun (`SectionsInv`); so the stored acceleration is
  of one report, or is being written and what has been written is of the last
  one (`AccInv`); and no report with an acceleration has been passed over
  (`AccSeen`).  `CallOrigins` says the same of what callers have read, and
  that `controller_data` locks the mutex of the buttons before that of the
  acceleration.  `AccUnderLock` joins the two: a getter that holds `m_acc_mutex`
  finds the acceleration whole.
* `InputTypes`, `GyroComesFromItsFrame`, `AccIsOfOneReport`, `AccIsNotLeftBehind`:
  `TypeOK`, `GyroFromItsFrame`, `AccFromOneReport`, `AccNotLeftBehind`.
* `FieldsDecodedAsNamed`: `DecodedAsNamed`.  `HandlersLead` says of the handlers of
  each kind that every write its name promises comes up and that no other write
  touches those fields; `PartsAreNamed` that the promise is the layout of `Parts`.
  The invariant `NamedInv` follows this through the sections that are left: a
  promised write is done or still to come, and a field that the report may leave
  alone has nothing or everything from it.  With `BufferInv`, what is stored is of
  this report and not what a longer one left in the buffer.

`WiimoteLifecycleProofs` proves, for any number of objects and of requests:

* `LifeInvariant`: `Placed` says where `main` is in the list of a constructor or
  destructor, k steps into `init` or the move or at the join of the destructor,
  and what that says of every thread, flag and device.
* `LifecycleTypes`, `OneUserAtATime`, `ReadsAreCarriedOver`: `TypeOK`, `OneUser`,
  `ReadsCarriedOver`.  After a destructor has begun, `OneUser` rests on what
  `life_destroy` shows: the join of a running thread does not return, that of a
  joined one ends the process, and the closing of the device is never reached.

Assumptions: only the named `ASSUME`s on the constants and the
conditions on the controller's timing where they are stated in the theorem.

Only model-checked: all liveness (out of the prover's reach) and the counterexamples.

## Not modelled, and why

* Sockets, CRC, message layouts, byte order, logging: no state that another
  component depends on.  Floating-point formulas and the shifts within decoded
  bytes: nothing to interleave, and the properties speak of which bytes are used.
* In `DsuServer`: the endpoint kept with a client (which of two a returning client
  means is said nowhere), and failing system calls, which end the process.
* Writes to an `unordered_map` during an iteration and the like are undefined; what
  the model takes for them is said with each module.

## Plan

1. `DsuServer`: endpoints, and `recvfrom` failing.
2. `MemRequests` and `WiimoteLifecycle` composed: the move against the flags and the
   locked `control_mutex` in their detail.
