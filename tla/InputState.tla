----------------------------- MODULE InputState -----------------------------
(***************************************************************************)
(* The controller's state as the program sees it.  read_loop reads one     *)
(* report after the other into the same buffer and its handlers write the  *)
(* fields, each under a mutex; other threads call the getters at any time. *)
(*                                                                         *)
(* Locking, every access and unlocking are actions of their own, so that   *)
(* another thread can come between any two of them.  The mutexes are       *)
(* shared: a getter excludes the read thread but no other getter.          *)
(***************************************************************************)
EXTENDS ReportLayouts

CONSTANTS
  Received,    \* the input reports that the controller may send
  MaxReports,  \* bound on the number of them
  Callers,     \* the threads that call getters
  Called       \* the getters they call

ASSUME InputAssumption ==
  /\ Received \subseteq InputReports
  /\ MaxReports \in Nat
  /\ Called \subseteq DOMAIN Getter

VARIABLES
  sent,      \* history: the reports read so far
  buffer,    \* for each byte of the read buffer, the report it is from
  todo,      \* the critical sections the read thread has still to go through
  locked,    \* does it hold the mutex of the first of them?
  state,     \* m_state, m_extension and m_motionplus
  call,      \* the getter each caller is in
  reading,   \* the critical sections it has still to go through
  holds,     \* does it hold the mutex of the first of them?
  got        \* the fields it has read

readVars == <<sent, buffer, todo, locked, state>>
callVars == <<call, reading, holds, got>>
vars == <<readVars, callVars>>

Nothing == [f \in {} |-> 0]

-----------------------------------------------------------------------------
(* read_loop and its handlers. *)

\* hid_read overwrites the first bytes of the buffer and leaves the others.
ReadReport(r) ==
  /\ todo = <<>>
  /\ Len(sent) < MaxReports
  /\ sent' = Append(sent, r)
  /\ buffer' = [i \in DOMAIN buffer |-> IF i < Length[r.kind] THEN Len(sent) + 1 ELSE buffer[i]]
  /\ todo' = Handlers(r, state["m_extension"], state["m_motionplus"])
  /\ UNCHANGED <<locked, state, callVars>>

\* handlers that take no lock.
LockUnasked ==
  /\ todo # <<>> /\ ~locked
  /\ locked' = TRUE
  /\ UNCHANGED <<sent, buffer, todo, state, callVars>>

\* std::scoped_lock: no getter may hold the mutex.
Lock ==
  /\ todo # <<>> /\ ~locked
  /\ \A t \in Callers : holds[t] => Head(reading[t]).mutex # Head(todo).mutex
  /\ locked' = TRUE
  /\ UNCHANGED <<sent, buffer, todo, state, callVars>>

\* A byte of the buffer, by the report it is from; past the end there is none.
Byte(i) == [byte |-> i, report |-> IF i \in DOMAIN buffer THEN buffer[i] ELSE 0]

Stored(w) == IF w.field \in Values THEN w.from ELSE {Byte(i) : i \in w.from}

Rest(section) == [section EXCEPT !.accesses = Tail(@)]

\* handlers that OR what they read into every field.
WriteFieldOr ==
  /\ locked
  /\ Head(todo).accesses # <<>>
  /\ LET w == Head(Head(todo).accesses) IN
       state' = [state EXCEPT ![w.field] =
                   IF w.field \in Values THEN w.from ELSE @ \cup Stored(w)]
  /\ todo' = <<Rest(Head(todo))>> \o Tail(todo)
  /\ UNCHANGED <<sent, buffer, locked, callVars>>

WriteField ==
  /\ locked
  /\ Head(todo).accesses # <<>>
  /\ LET w == Head(Head(todo).accesses) IN
       state' = [state EXCEPT ![w.field] = IF w.keep THEN @ \cup Stored(w) ELSE Stored(w)]
  /\ todo' = <<Rest(Head(todo))>> \o Tail(todo)
  /\ UNCHANGED <<sent, buffer, locked, callVars>>

Unlock ==
  /\ locked
  /\ Head(todo).accesses = <<>>
  /\ todo' = Tail(todo)
  /\ locked' = FALSE
  /\ UNCHANGED <<sent, buffer, state, callVars>>

-----------------------------------------------------------------------------
(* The getters. *)

CallGetter(t, g) ==
  /\ call[t] = "none"
  /\ call' = [call EXCEPT ![t] = g]
  /\ reading' = [reading EXCEPT ![t] = Getter[g]]
  /\ UNCHANGED <<readVars, holds, got>>

\* getters that take no lock.
LockSharedUnasked(t) ==
  /\ reading[t] # <<>> /\ ~holds[t]
  /\ holds' = [holds EXCEPT ![t] = TRUE]
  /\ UNCHANGED <<readVars, call, reading, got>>

\* std::shared_lock: the read thread may not hold the mutex.
LockShared(t) ==
  /\ reading[t] # <<>> /\ ~holds[t]
  /\ locked => Head(todo).mutex # Head(reading[t]).mutex
  /\ holds' = [holds EXCEPT ![t] = TRUE]
  /\ UNCHANGED <<readVars, call, reading, got>>

ReadField(t) ==
  /\ holds[t]
  /\ Head(reading[t]).accesses # <<>>
  /\ LET section == Head(reading[t])
         f == Head(section.accesses)
     IN  /\ got' = [got EXCEPT ![t] = [x \in DOMAIN @ \cup {f} |->
                                         IF x = f THEN state[f] ELSE @[x]]]
         /\ reading' = [reading EXCEPT ![t] =
              IF ReturnsNothing(call[t], f, state[f])
                THEN <<[section EXCEPT !.accesses = <<>>]>>
                ELSE <<Rest(section)>> \o Tail(@)]
  /\ UNCHANGED <<readVars, call, holds>>

\* The end of the last section is the end of the call.
EndSection(t, unlocks) ==
  /\ holds[t]
  /\ Head(reading[t]).accesses = <<>>
  /\ holds' = [holds EXCEPT ![t] = ~unlocks]
  /\ reading' = [reading EXCEPT ![t] = Tail(@)]
  /\ IF Len(reading[t]) = 1
       THEN /\ call' = [call EXCEPT ![t] = "none"]
            /\ got' = [got EXCEPT ![t] = Nothing]
       ELSE UNCHANGED <<call, got>>
  /\ UNCHANGED readVars

\* getters that return without unlock_shared, or do not unlock having found nothing.
UnlockSharedForgotten(t) == EndSection(t, Len(reading[t]) > 1)
UnlockSharedIfRead(t) ==
  /\ \A f \in DOMAIN got[t] : ~ReturnsNothing(call[t], f, got[t][f])
  /\ EndSection(t, TRUE)

UnlockShared(t) == EndSection(t, TRUE)

-----------------------------------------------------------------------------
Init ==
  /\ sent = <<>>
  /\ buffer = [i \in 0..(MAX_MESSAGE_LENGTH - 1) |-> 0]
  /\ todo = <<>>
  /\ locked = FALSE
  /\ state = [f \in Fields |-> CASE f = "m_extension"  -> "monostate"
                                 [] f = "m_motionplus" -> "none"
                                 [] f = "ir_enabled"   -> FALSE
                                 [] OTHER              -> {}]
  /\ call = [t \in Callers |-> "none"]
  /\ reading = [t \in Callers |-> <<>>]
  /\ holds = [t \in Callers |-> FALSE]
  /\ got = [t \in Callers |-> Nothing]

Handle == Lock \/ WriteField \/ Unlock

Get(t) == LockShared(t) \/ ReadField(t) \/ UnlockShared(t)

Next ==
  \/ \E r \in Received : ReadReport(r)
  \/ Handle
  \/ \E t \in Callers : Get(t) \/ \E g \in Called : CallGetter(t, g)

Spec == Init /\ [][Next]_vars

\* Every thread runs, and gets a mutex that stays free.  Not one that is free again and
\* again: std::shared_mutex lets getters that keep coming shut the read thread out.
FairSpec ==
  /\ Spec
  /\ WF_vars(Handle)
  /\ \A t \in Callers : WF_vars(Get(t))

-----------------------------------------------------------------------------
Bytes == [byte : 0..(2 * MAX_MESSAGE_LENGTH), report : 0..MaxReports]

TypeOK ==
  /\ sent \in Seq(Received)
  /\ buffer \in [0..(MAX_MESSAGE_LENGTH - 1) -> 0..Len(sent)]
  /\ locked \in BOOLEAN /\ (locked => todo # <<>>)
  /\ DOMAIN state = Fields
  /\ state["m_extension"] \in Extensions
  /\ state["m_motionplus"] \in MotionPlus
  /\ state["ir_enabled"] \in BOOLEAN
  /\ \A f \in Fields \ Values : state[f] \subseteq Bytes
  /\ call \in [Callers -> Called \cup {"none"}]
  /\ holds \in [Callers -> BOOLEAN]
  /\ \A t \in Callers :
       /\ (call[t] = "none") <=> (reading[t] = <<>>)
       /\ holds[t] => reading[t] # <<>>
       /\ DOMAIN got[t] \subseteq Fields

\* The two kinds that are not decoded by their names: 0x36 has its dots read as
\* twelve bytes, not ten, and 0x37 has the first five of its ten read twice.
MisreadKinds == {"BUTTONS_IR_10B_EXTENSION_9B", "BUTTONS_ACC_IR_10B_EXTENSION_6B"}

NamedParts(kind) ==
  IF kind \in DOMAIN Parts \ MisreadKinds THEN Parts[kind] ELSE <<"BUTTONS">>

\* When a report has been handled, each field it is about has come from exactly
\* the bytes of this report that its name says (reports.hpp:18-33), whatever was
\* in the buffer and in the fields before; extension bytes have gone, if
\* anywhere, as a whole to the nunchuk or to the MotionPlus.
DecodedAsNamed ==
  (todo = <<>> /\ sent # <<>>) =>
    LET n    == Len(sent)
        kind == sent[n].kind
    IN \A i \in DOMAIN NamedParts(kind) :
         LET named == PartBytes(NamedParts(kind)[i],
                                IF i = 1 THEN 1 ELSE PartStart(kind, i))
         IN \A f \in DOMAIN named :
              \/ state[f] = {[byte |-> b, report |-> n] : b \in named[f]}
              \/ /\ f \in {"nunchuk", "nunchuk_low", "gyro_raw"}
                 /\ \A s \in state[f] : s.report # n

ReportsOf(v) == {s.report : s \in v}
BytesOf(v)   == {s.byte : s \in v}

\* Where the kind's name has it, report r has a frame of MotionPlus data in the bytes
\* "from".  Not said of 0x36: its frame is in 13..18, read are 15..20 and their bit.
IsFrame(r, from) ==
  r.kind # "BUTTONS_IR_10B_EXTENSION_9B" =>
    LET start == FrameStart(r.kind)
    IN  from = start..(start + 5) /\ start + 5 \in r.mpls_bits

\* What is taken for angular velocity was sent as such and is one whole frame: the six
\* bytes that by its name a report has for them, and with the bit of MotionPlus data
\* set in the last, not passed through from the nunchuk (wiimote_handle.cpp:332).
\* None of it is left in the buffer from another report, whatever came between.
GyroFromItsFrame ==
  LET gyro == state["gyro_raw"]
  IN  gyro # {} => \E n \in DOMAIN sent :
                     ReportsOf(gyro) = {n} /\ IsFrame(sent[n], BytesOf(gyro))

HeldBy(t) == {f \in DOMAIN got[t] : holds[t] /\ Guard[f] = Head(reading[t]).mutex}

\* Until a getter unlocks, all it has read under the mutex still stands: what it
\* returns was the state at one instant (wiimote.hpp:185-195).  Not for
\* m_extension_mutex, see MotionPlusSnapshot.
Snapshot ==
  \A t \in Callers : \A f \in HeldBy(t) :
    Guard[f] # "m_extension_mutex" => got[t][f] = state[f]

\* The mutex "For extensions, including motionplus" (wiimote.hpp:192) makes what
\* motionplus() tested and what it then uses the same, too.
MotionPlusSnapshot ==
  \A t \in Callers : \A f \in HeldBy(t) : got[t][f] = state[f]

Acceleration == {"acc_x", "acc_y", "acc_z"}

\* accelerometer() returns the three axes of one report, unless interleaved reports
\* are received, which carry one axis each (wiimote_handle.cpp:51-56).
AccFromOneReport ==
  (\A i \in DOMAIN sent : sent[i].kind \notin InterleavedKinds) =>
    \A t \in Callers :
      Acceleration \subseteq DOMAIN got[t] =>
        \E n \in 0..MaxReports :
          \A f \in Acceleration : ReportsOf(got[t][f]) \subseteq {n}

AccKinds == {"BUTTONS_ACC", "BUTTONS_ACC_IR_12B", "BUTTONS_ACC_EXT_16B",
             "BUTTONS_ACC_IR_10B_EXTENSION_6B"}

\* The buttons and the acceleration that a DSU client is sent together may be of
\* different reports, but the acceleration is never older than the last report
\* before that of the buttons that had one (main.cpp:68, 83).
AccNotLeftBehind ==
  \A t \in Callers :
    (call[t] = "controller_data" /\ {"buttons", "acc_x"} \subseteq DOMAIN got[t]) =>
      \A b \in ReportsOf(got[t]["buttons"]), r \in 1..MaxReports :
        (r < b /\ sent[r].kind \in AccKinds) =>
          \E a \in ReportsOf(got[t]["acc_x"]) : a >= r

\* A report that has been read is handled to its end, wherever in their sections the
\* getters are that it meets (read_loop), unless getters are called for ever: shared
\* locks that follow each other closely may keep a handler out of its mutex.
ReportHandled ==
  \/ (todo # <<>>) ~> (todo = <<>>)
  \/ []<><<\E t \in Callers : call[t] = "none" /\ call'[t] # "none">>_vars

=============================================================================
