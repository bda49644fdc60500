---------------------------- MODULE RumbleWrites ----------------------------
(***************************************************************************)
(* How the rumble state reaches the controller.  Every output report has   *)
(* the state in bit 0 of its second byte.  write() fills it in from        *)
(* m_state.rumble and then queues the report; the two steps are under      *)
(* different mutexes (m_rumble_mutex, m_writer_mutex), and any thread      *)
(* may write.  Only main calls set_rumble.                                 *)
(*                                                                         *)
(* A report is modelled by that bit and by whether it is the RumbleReport  *)
(* of set_rumble, whose second byte is not initialised                     *)
(* (wiimote_get.cpp:63, writes.hpp:8): what it holds before it is filled   *)
(* in is any of UnusedBits.                                                *)
(***************************************************************************)
EXTENDS Naturals, Sequences

CONSTANTS
  Others,       \* the threads other than main that call write()
  UnusedBits,   \* what the bit may be in a RumbleReport before it is filled in
  MaxQueue      \* bound on the reports queued when a write starts

ASSUME RumbleAssumption ==
  /\ "main" \notin Others
  /\ UnusedBits \subseteq BOOLEAN /\ UnusedBits # {}
  /\ MaxQueue \in Nat \ {0}

Writers == Others \cup {"main"}

Reports == [type : {"RumbleReport", "other"}, bit : BOOLEAN]

VARIABLES
  pc,             \* where each writer is
  data,           \* the report each writer is writing
  rumble,         \* m_state.rumble
  m_write_queue,
  obeyed,         \* the last report the controller obeyed: it rumbles by its bit
  raced           \* history: was a report filled in and not yet queued when
                  \* m_state.rumble was last set?

vars == <<pc, data, rumble, m_write_queue, obeyed, raced>>

FilledByOthers == {t \in Others : pc[t] = "push"}

Clear == [type |-> "other", bit |-> FALSE]

Begin(t, report) ==
  /\ pc[t] = "idle"
  /\ Len(m_write_queue) < MaxQueue
  /\ data' = [data EXCEPT ![t] = report]
  /\ pc' = [pc EXCEPT ![t] = "fill"]

\* set_rumble that keeps the new state to itself.
SetRumbleUnsent ==
  /\ pc["main"] = "idle"
  /\ rumble' \in BOOLEAN
  /\ raced' = (FilledByOthers # {})
  /\ UNCHANGED <<pc, data, m_write_queue, obeyed>>

\* set_rumble: change m_state.rumble, then write a RumbleReport, whose second
\* byte is not initialised.
SetRumble ==
  /\ \E unused \in UnusedBits : Begin("main", [type |-> "RumbleReport", bit |-> unused])
  /\ rumble' \in BOOLEAN
  /\ raced' = (FilledByOthers # {})
  /\ UNCHANGED <<m_write_queue, obeyed>>

\* Any other write(): in every report but RumbleReport the bit is clear.
BeginWrite(t) ==
  /\ Begin(t, Clear)
  /\ UNCHANGED <<rumble, m_write_queue, obeyed, raced>>

\* write() without get_rumble().
FillRumbleNot(t) ==
  /\ pc[t] = "fill"
  /\ pc' = [pc EXCEPT ![t] = "push"]
  /\ UNCHANGED <<data, rumble, m_write_queue, obeyed, raced>>

\* data[1] |= get_rumble() ...
FillRumble(t) ==
  /\ pc[t] = "fill"
  /\ data' = [data EXCEPT ![t].bit = @ \/ rumble]
  /\ pc' = [pc EXCEPT ![t] = "push"]
  /\ UNCHANGED <<rumble, m_write_queue, obeyed, raced>>

\* ... and only then the report is queued under m_writer_mutex.
PushReport(t) ==
  /\ pc[t] = "push"
  /\ m_write_queue' = Append(m_write_queue, data[t])
  /\ pc' = [pc EXCEPT ![t] = "idle"]
  /\ UNCHANGED <<data, rumble, obeyed, raced>>

\* write_loop that tests for more than one report.
WriteLoopLeavingOne ==
  /\ Len(m_write_queue) > 1
  /\ obeyed' = Head(m_write_queue)
  /\ m_write_queue' = Tail(m_write_queue)
  /\ UNCHANGED <<pc, data, rumble, raced>>

\* write_loop: the controller obeys each report it is sent.
WriteLoop ==
  /\ m_write_queue # <<>>
  /\ obeyed' = Head(m_write_queue)
  /\ m_write_queue' = Tail(m_write_queue)
  /\ UNCHANGED <<pc, data, rumble, raced>>

Init ==
  /\ pc = [t \in Writers |-> "idle"]
  /\ data = [t \in Writers |-> Clear]
  /\ rumble = FALSE
  /\ m_write_queue = <<>>
  /\ obeyed = Clear
  /\ raced = FALSE

Finish(t) == FillRumble(t) \/ PushReport(t)

Next ==
  \/ SetRumble
  \/ \E t \in Writers : BeginWrite(t) \/ Finish(t)
  \/ WriteLoop

Spec == Init /\ [][Next]_vars

\* A write that has begun ends, and write_loop goes round.
FairSpec == Spec /\ (\A t \in Writers : WF_vars(Finish(t))) /\ WF_vars(WriteLoop)

-----------------------------------------------------------------------------
TypeOK ==
  /\ pc \in [Writers -> {"idle", "fill", "push"}]
  /\ data \in [Writers -> Reports]
  /\ rumble \in BOOLEAN
  /\ m_write_queue \in Seq(Reports)
  /\ obeyed \in Reports
  /\ raced \in BOOLEAN

\* The report by which the controller will rumble once it has all those queued so far.
Newest == IF m_write_queue = <<>> THEN obeyed
                                  ELSE m_write_queue[Len(m_write_queue)]

\* Assigning m_state.rumble "is what actually sets the rumble"
\* (wiimote_get.cpp:60): when no write() is in progress, the controller does,
\* or will when the queue is empty, what m_state.rumble says.
RumbleObeyed == (\A t \in Writers : pc[t] = "idle") => Newest.bit = rumble

\* A report agrees with m_state.rumble, or is a RumbleReport that came with the bit set.
Agrees(r) == r.bit = rumble \/ (r.type = "RumbleReport" /\ r.bit)

\* What of that the code guarantees, whatever is in RumbleReport's uninitialised byte:
\* when set_rumble has returned, and no report was between get_rumble() and its push
\* while it changed m_state.rumble, the controller will do what m_state.rumble says,
\* whoever writes afterwards, unless the newest report is set_rumble's own and had the
\* bit set before.  So rumble that was turned on stays on, and rumble that was turned
\* off is off with the next other report at the latest.
RumbleSettled == (pc["main"] = "idle" /\ ~raced) => Agrees(Newest)

\* The invariant by which RumbleSettled is proved: only a RumbleReport has the bit set
\* before it is filled in, and what is filled in and not yet queued agrees with
\* m_state.rumble, unless it was overtaken.
SettledInv ==
  /\ TypeOK
  /\ \A t \in Writers : (pc[t] = "fill" /\ data[t].bit) => data[t].type = "RumbleReport"
  /\ ~raced => \A t \in Writers : pc[t] = "push" => Agrees(data[t])
  /\ RumbleSettled

\* Raced or not, the state reaches the controller at least once: when a thread has begun
\* a write while the rumble is on, the controller comes to rumble, and while it is off,
\* to stop, unless m_state.rumble is changed again (set_rumble, write and write_loop).
\* A RumbleReport, whose byte is not initialised, need not make it stop.
RumbleReaches ==
  \A t \in Writers, on \in BOOLEAN :
    (pc[t] = "fill" /\ rumble = on /\ (on \/ data[t].type # "RumbleReport"))
      ~> (obeyed.bit = on \/ rumble # on)

=============================================================================
