------------------------- MODULE InputOriginsProofs -------------------------
(***************************************************************************)
(* Where what the getters return comes from, for any input reports, any    *)
(* number of them and any callers.  The read thread goes through the       *)
(* sections of one report before it reads the next one into the same       *)
(* buffer, so every byte that a section of the last report reads is of     *)
(* that report, where the report is long enough; and what was stored for   *)
(* an earlier report is complete.  At the end, which bytes they are: those *)
(* that the name of the report's kind promises.                            *)
(***************************************************************************)
EXTENDS InputStateProofs

LastReport  == sent[Len(sent)]
OwnBytes(r) == 0..(Length[r.kind] - 1)

\* The writes a report may lead to: gyro_raw and the acceleration come from the
\* report's own bytes, gyro_raw from its frame of MotionPlus data.
AllowedWrites(r) ==
  {w \in Writes :
     /\ w.field \notin Values => w.from \subseteq 0..(2 * MAX_MESSAGE_LENGTH)
     /\ w.field \in {"gyro_raw"} \cup Acceleration => w.from \subseteq OwnBytes(r)
     /\ w.field = "gyro_raw" => ~w.keep /\ (w.from = {} \/ IsFrame(r, w.from))
     /\ w.field = "acc_x" => ~w.keep /\ w.from # {}}

PlainWrites(r) == {w \in AllowedWrites(r) : w.field \notin Acceleration}

WriteX == Write("acc_x", {1, 3})
WriteY == Write("acc_y", {2, 4})
WriteZ == Write("acc_z", {2, 5})
AccWrites == <<WriteX, WriteY, WriteZ>>

\* A section as the handlers give it, and what is left of one.  The acceleration is
\* written as a whole, but for interleaved reports.
AnySections(r) == [mutex : Mutexes, accesses : Seq(AllowedWrites(r))]

FreshSections(r) ==
  {s \in AnySections(r) :
     \/ r.kind \in InterleavedKinds
     \/ s.accesses \in Seq(PlainWrites(r))
     \/ s.mutex = "m_acc_mutex" /\ s.accesses = AccWrites}

RestSections(r) ==
  {s \in AnySections(r) :
     \/ r.kind \in InterleavedKinds
     \/ s.accesses \in Seq(PlainWrites(r))
     \/ s.mutex = "m_acc_mutex"
          /\ s.accesses \in {AccWrites, <<WriteY, WriteZ>>, <<WriteZ>>, <<>>}}

\* What has been stored is of reports that have been read, gyro_raw of one of them.
SeenBytes == [byte : 0..(2 * MAX_MESSAGE_LENGTH), report : 0..Len(sent)]
StateTypes ==
  /\ sent \in Seq(Received) /\ Len(sent) <= MaxReports
  /\ buffer \in [0..(MAX_MESSAGE_LENGTH - 1) -> 0..Len(sent)]
  /\ state["ir_enabled"] \in BOOLEAN
  /\ \A f \in Fields \ Values : state[f] \subseteq SeenBytes
  /\ \A s \in state["gyro_raw"] : s.report \in 1..Len(sent)

\* The buffer begins with the last report.
BufferInv ==
  sent # <<>> => \A i \in OwnBytes(LastReport) : buffer[i] = Len(sent)

NoInterleaved == \A i \in DOMAIN sent : sent[i].kind \notin InterleavedKinds

\* What is left to be written is of the last report, and only the section that the
\* read thread is in has been begun.
Begun == {<<WriteY, WriteZ>>, <<WriteZ>>}
SectionsInv ==
  /\ todo # <<>> => sent # <<>> /\ todo \in Seq(RestSections(LastReport))
  /\ NoInterleaved => \A i \in 1..Len(todo) : todo[i].accesses \in Begun => i = 1 /\ locked

\* The acceleration is of one report, and while it is being written what has been
\* written is of the last one.
InSection(accesses) == locked /\ Head(todo).accesses = accesses
AccWhole ==
  \E n \in 0..MaxReports : \A f \in Acceleration : ReportsOf(state[f]) \subseteq {n}
AccInv ==
  NoInterleaved =>
    \/ ~InSection(<<WriteY, WriteZ>>) /\ ~InSection(<<WriteZ>>) /\ AccWhole
    \/ InSection(<<WriteY, WriteZ>>) /\ ReportsOf(state["acc_x"]) \subseteq {Len(sent)}
    \/ /\ InSection(<<WriteZ>>)
       /\ ReportsOf(state["acc_x"]) \subseteq {Len(sent)}
       /\ ReportsOf(state["acc_y"]) \subseteq {Len(sent)}

\* No report with an acceleration has been passed over, but for the last one as long
\* as its acceleration is still to be written.
AccSeen ==
  \A r \in 1..Len(sent) : sent[r].kind \in AccKinds =>
    \/ \E a \in ReportsOf(state["acc_x"]) : a >= r
    \/ r = Len(sent) /\ \E i \in 1..Len(todo) : todo[i].accesses = AccWrites

StateOrigins ==
  StateTypes /\ BufferInv /\ SectionsInv /\ AccInv /\ AccSeen /\ GyroFromItsFrame

\* Main's handler asks for the buttons first, and what it gets is of a report that
\* has been read.
ButtonsFirst(t) ==
  call[t] = "controller_data" =>
    \A i \in 1..Len(reading[t]) : reading[t][i].mutex = "m_button_mutex" =>
      \E j \in 1..Len(reading[t]) : i < j /\ reading[t][j].mutex = "m_acc_mutex"
ButtonsRead(t) ==
  "buttons" \in DOMAIN got[t] => ReportsOf(got[t]["buttons"]) \subseteq 0..Len(sent)

\* AccFromOneReport and AccNotLeftBehind for one caller.
FromOne(t) ==
  (NoInterleaved /\ Acceleration \subseteq DOMAIN got[t]) =>
    \E n \in 0..MaxReports : \A f \in Acceleration : ReportsOf(got[t][f]) \subseteq {n}
NotBehind(t) ==
  (call[t] = "controller_data" /\ {"buttons", "acc_x"} \subseteq DOMAIN got[t]) =>
    \A b \in ReportsOf(got[t]["buttons"]), r \in 1..MaxReports :
      (r < b /\ sent[r].kind \in AccKinds) =>
        \E a \in ReportsOf(got[t]["acc_x"]) : a >= r

CallerOrigin(t) == ButtonsFirst(t) /\ ButtonsRead(t) /\ FromOne(t) /\ NotBehind(t)
CallOrigins ==
  /\ call \in [Callers -> Called \cup {"none"}]
  /\ \A t \in Callers : CallerOrigin(t)

-----------------------------------------------------------------------------
(* What handlers write for a report. *)

LEMMA PlainSection ==
  ASSUME NEW r, NEW mutex \in Mutexes, NEW s \in Seq(PlainWrites(r))
  PROVE  <<Section(mutex, s)>> \in Seq(FreshSections(r))
<1>1. PlainWrites(r) \subseteq AllowedWrites(r)
  BY DEF PlainWrites
<1>2. s \in Seq(AllowedWrites(r))
  BY <1>1, SeqMonotonic
<1>3. Section(mutex, s) \in FreshSections(r)
  BY <1>2 DEF Section, FreshSections, AnySections
<1> QED
  BY <1>3

LEMMA WriteParts ==
  ASSUME NEW f, NEW from
  PROVE  Write(f, from).field = f /\ Write(f, from).from = from /\ ~Write(f, from).keep
  BY DEF Write

LEMMA AllowedIs ==
  ASSUME NEW r, NEW w \in Writes,
         w.field \notin Values => w.from \subseteq 0..44,
         w.field \in {"gyro_raw"} \cup Acceleration => w.from \subseteq OwnBytes(r),
         w.field = "gyro_raw" => ~w.keep /\ (w.from = {} \/ IsFrame(r, w.from)),
         w.field = "acc_x" => ~w.keep /\ w.from # {}
  PROVE  w \in AllowedWrites(r)
<1>1. 0..(2 * MAX_MESSAGE_LENGTH) = 0..44
  BY DEF MAX_MESSAGE_LENGTH
<1> QED
  BY <1>1 DEF AllowedWrites

LEMMA PlainBytes ==
  ASSUME NEW r, NEW f \in Fields \ Values, f \notin Acceleration, f # "gyro_raw",
         NEW from \in SUBSET (0..44)
  PROVE  Write(f, from) \in PlainWrites(r)
<1> DEFINE w == Write(f, from)
<1>1. w \in Writes
  BY DEF Write, Writes
<1>2. w.field = f /\ w.from = from /\ ~w.keep
  BY WriteParts
<1> HIDE DEF w
<1>3. w \in AllowedWrites(r)
  BY <1>1, <1>2, AllowedIs DEF Acceleration
<1> QED
  BY <1>2, <1>3 DEF PlainWrites, w

LEMMA PlainValues ==
  ASSUME NEW r, NEW w \in Writes, w.field \in Values
  PROVE  w \in PlainWrites(r)
<1>1. w.field \notin Acceleration /\ w.field # "gyro_raw" /\ w.field # "acc_x"
  BY DEF Values, Acceleration
<1> QED
  BY <1>1 DEF PlainWrites, AllowedWrites

LEMMA GyroBytes ==
  ASSUME NEW r, NEW from \in SUBSET (0..44), from \subseteq OwnBytes(r),
         from = {} \/ IsFrame(r, from)
  PROVE  Write("gyro_raw", from) \in PlainWrites(r)
<1> DEFINE w == Write("gyro_raw", from)
<1>1. w \in Writes
  BY DEF Write, Writes, Fields, Guard, Values
<1>2. w.field = "gyro_raw" /\ w.from = from /\ ~w.keep
  BY WriteParts
<1> HIDE DEF w
<1>3. w \in AllowedWrites(r)
  BY <1>1, <1>2, AllowedIs
<1> QED
  BY <1>2, <1>3 DEF PlainWrites, w, Acceleration

LEMMA ButtonsFresh ==
  ASSUME NEW r
  PROVE  handle_buttons_only(1) \in Seq(FreshSections(r))
<1>1. "m_button_mutex" \in Mutexes
  BY MutexNames
<1>2. Write("buttons", {1, 1 + 1}) \in PlainWrites(r)
  <2>1. "buttons" \in Fields \ Values /\ "buttons" \notin Acceleration
    BY DEF Fields, Guard, Values, Acceleration
  <2>2. {1, 1 + 1} \in SUBSET (0..44)
    OBVIOUS
  <2> QED
    BY <2>1, <2>2, PlainBytes
<1> DEFINE W == PlainWrites(r)
<1> HIDE DEF W
<1>3. <<Write("buttons", {1, 1 + 1})>> \in Seq(W)
  BY <1>2 DEF W
<1> QED
  BY <1>1, <1>3, PlainSection DEF handle_buttons_only, W

LEMMA FreshInTurn ==
  ASSUME NEW r, NEW s \in Seq(FreshSections(r)), NEW u \in Seq(FreshSections(r))
  PROVE  s \o u \in Seq(FreshSections(r))
  BY ConcatProperties

\* The acceleration as a whole.
LEMMA AccWritesAllowed ==
  ASSUME NEW r, Length[r.kind] \in 6..22
  PROVE  /\ WriteX \in AllowedWrites(r) /\ WriteY \in AllowedWrites(r)
         /\ WriteZ \in AllowedWrites(r)
         /\ AccWrites \in Seq(AllowedWrites(r))
<1>1. /\ {1, 3} \in SUBSET (0..44) /\ {2, 4} \in SUBSET (0..44) /\ {2, 5} \in SUBSET (0..44)
      /\ {1, 3} \subseteq OwnBytes(r) /\ {2, 4} \subseteq OwnBytes(r)
      /\ {2, 5} \subseteq OwnBytes(r)
  BY DEF OwnBytes
<1>2. \A f \in Acceleration : f \in Fields \ Values /\ f # "gyro_raw"
  BY DEF Fields, Guard, Values, Acceleration
<1>3. ASSUME NEW f \in Acceleration, NEW from \in SUBSET (0..44), from \subseteq OwnBytes(r),
             from # {}
      PROVE  Write(f, from) \in AllowedWrites(r)
  <2> DEFINE w == Write(f, from)
  <2>1. w \in Writes
    BY <1>2 DEF Write, Writes
  <2>2. w.field = f /\ w.from = from /\ ~w.keep
    BY WriteParts
  <2> HIDE DEF w
  <2>3. w \in AllowedWrites(r)
    BY <1>2, <1>3, <2>1, <2>2, AllowedIs
  <2> QED
    BY <2>3 DEF w
<1>4. "acc_x" \in Acceleration /\ "acc_y" \in Acceleration /\ "acc_z" \in Acceleration
  BY DEF Acceleration
<1>5. WriteX \in AllowedWrites(r) /\ WriteY \in AllowedWrites(r) /\ WriteZ \in AllowedWrites(r)
  BY <1>1, <1>3, <1>4 DEF WriteX, WriteY, WriteZ
<1> DEFINE W == AllowedWrites(r)
<1> HIDE DEF W
<1>6. AccWrites \in Seq(W)
  BY <1>5 DEF W, AccWrites
<1> QED
  BY <1>5, <1>6 DEF W

LEMMA AccFresh ==
  ASSUME NEW r, Length[r.kind] \in 6..22
  PROVE  /\ handle_buttons_acc(1) \in Seq(FreshSections(r))
         /\ Len(handle_buttons_acc(1)) = 2
         /\ handle_buttons_acc(1)[2].accesses = AccWrites
<1> DEFINE acc == Section("m_acc_mutex", AccWrites)
<1>1. "m_acc_mutex" \in Mutexes
  BY MutexNames
<1>2. acc \in FreshSections(r) /\ acc.accesses = AccWrites
  BY <1>1, AccWritesAllowed DEF Section, FreshSections, AnySections
<1>3. handle_buttons_acc(1) = handle_buttons_only(1) \o <<acc>>
  BY DEF handle_buttons_acc, AccWrites, WriteX, WriteY, WriteZ
<1>4. Len(handle_buttons_only(1)) = 1
  BY DEF handle_buttons_only
<1> HIDE DEF acc
<1>5. <<acc>> \in Seq(FreshSections(r)) /\ Len(<<acc>>) = 1 /\ <<acc>>[1] = acc
  BY <1>2
<1>6. handle_buttons_only(1) \in Seq(FreshSections(r))
  BY ButtonsFresh
<1> DEFINE buttons == handle_buttons_only(1)
<1> HIDE DEF buttons
<1>7. /\ buttons \o <<acc>> \in Seq(FreshSections(r))
      /\ Len(buttons \o <<acc>>) = 2 /\ (buttons \o <<acc>>)[2] = acc
  <2>1. buttons \in Seq(FreshSections(r)) /\ Len(buttons) = 1
    BY <1>4, <1>6 DEF buttons
  <2> DEFINE one == <<acc>>
  <2>2. one \in Seq(FreshSections(r)) /\ Len(one) = 1 /\ one[1] = acc
    BY <1>5
  <2> HIDE DEF one
  <2>3. buttons \o one \in Seq(FreshSections(r)) /\ Len(buttons \o one) = 2
    BY <2>1, <2>2, ConcatProperties
  <2>4. (buttons \o one)[2] = one[1]
    <3>1. \A i \in 1..Len(buttons) + Len(one) :
            (buttons \o one)[i] = IF i <= Len(buttons) THEN buttons[i] ELSE one[i - Len(buttons)]
      BY <2>1, <2>2, ConcatProperties
    <3>2. 2 \in 1..Len(buttons) + Len(one) /\ ~(2 <= Len(buttons)) /\ 2 - Len(buttons) = 1
      BY <2>1, <2>2
    <3> QED
      BY <3>1, <3>2
  <2> QED
    BY <2>2, <2>3, <2>4 DEF one
<1> QED
  BY <1>2, <1>3, <1>7 DEF buttons

LEMMA DotsFresh ==
  ASSUME NEW r, NEW at \in 1..16, NEW initial \in BOOLEAN
  PROVE  /\ handle_ir_data_basic(at) \in Seq(FreshSections(r))
         /\ handle_ir_data_extended(at) \in Seq(FreshSections(r))
         /\ handle_ir_full(at, initial) \in Seq(FreshSections(r))
<1> DEFINE W == PlainWrites(r)
<1>1. "m_ir_mutex" \in Mutexes
  BY MutexNames
<1>2. \A s \in Seq(W) : <<Section("m_ir_mutex", s)>> \in Seq(FreshSections(r))
  BY <1>1, PlainSection
<1>3. \A i \in 1..4, from \in SUBSET (0..44) : Write(Dots[i], from) \in W
  <2>1. \A i \in 1..4 : /\ Dots[i] \in Fields \ Values /\ Dots[i] \notin Acceleration
                        /\ Dots[i] # "gyro_raw"
    BY DEF Dots, Fields, Guard, Values, Acceleration
  <2> QED
    BY <2>1, PlainBytes
<1> HIDE DEF W
<1>4. handle_ir_data_basic(at) \in Seq(FreshSections(r))
  <2>1. \A from \in SUBSET (0..44) : /\ Write("dot1", from) \in W /\ Write("dot2", from) \in W
                                     /\ Write("dot3", from) \in W /\ Write("dot4", from) \in W
    BY <1>3 DEF Dots
  <2>2. {at, at + 1, at + 2} \in SUBSET (0..44) /\ {at + 3, at + 4, at + 2} \in SUBSET (0..44)
    OBVIOUS
  <2>3. \A a \in SUBSET (0..44), b \in SUBSET (0..44) :
          <<Write("dot1", a), Write("dot2", b), Write("dot3", a), Write("dot4", b)>> \in Seq(W)
    BY <2>1
  <2> QED
    BY <1>2, <2>2, <2>3 DEF handle_ir_data_basic
<1>5. handle_ir_data_extended(at) \in Seq(FreshSections(r))
  <2>1. \A i \in 1..4 : (at + 3 * i - 3)..(at + 3 * i - 1) \in SUBSET (0..44)
    OBVIOUS
  <2>2. [i \in 1..4 |-> Write(Dots[i], (at + 3 * i - 3)..(at + 3 * i - 1))] \in [1..4 -> W]
    BY <1>3, <2>1
  <2>3. [i \in 1..4 |-> Write(Dots[i], (at + 3 * i - 3)..(at + 3 * i - 1))] \in Seq(W)
    BY <2>2, NumberedAreSeq
  <2> QED
    BY <1>2, <2>3 DEF handle_ir_data_extended
<1>6. handle_ir_full(at, initial) \in Seq(FreshSections(r))
  <2> DEFINE offset == IF initial THEN 0 ELSE 2
  <2>1. \A i \in 1..2 : /\ (at + 9 * i - 9)..(at + 9 * i - 7) \in SUBSET (0..44)
                        /\ i + offset \in 1..4
    OBVIOUS
  <2> HIDE DEF offset
  <2>2. [i \in 1..2 |-> Write(Dots[i + offset], (at + 9 * i - 9)..(at + 9 * i - 7))]
          \in [1..2 -> W]
    BY <1>3, <2>1
  <2>3. [i \in 1..2 |-> Write(Dots[i + offset], (at + 9 * i - 9)..(at + 9 * i - 7))] \in Seq(W)
    BY <2>2, NumberedAreSeq
  <2> QED
    BY <1>2, <2>3 DEF handle_ir_full, offset
<1> QED
  BY <1>4, <1>5, <1>6

\* One axis, and two bits of another that are ORed into it.
LEMMA InterleavedFresh ==
  ASSUME NEW r, r.kind \in InterleavedKinds
  PROVE  /\ handle_interleaved_a(1) \in Seq(FreshSections(r))
         /\ handle_interleaved_b(1) \in Seq(FreshSections(r))
<1>1. Length[r.kind] = 18
  BY DEF InterleavedKinds, Length
<1>2. /\ {1 + 1} \in SUBSET (0..44) /\ {1 + 2} \in SUBSET (0..44) /\ {1, 1 + 1} \in SUBSET (0..44)
      /\ {1 + 1} \subseteq OwnBytes(r) /\ {1 + 2} \subseteq OwnBytes(r)
      /\ {1, 1 + 1} \subseteq OwnBytes(r)
  BY <1>1 DEF OwnBytes
<1>3. /\ "acc_x" \in Fields \ Values /\ "acc_y" \in Fields \ Values /\ "acc_z" \in Fields \ Values
  BY DEF Fields, Guard, Values
<1> DEFINE W == AllowedWrites(r)
<1>4. Write("acc_x", {1 + 1}) \in W
  BY <1>2, <1>3 DEF Write, AllowedWrites, Writes, MAX_MESSAGE_LENGTH, Acceleration
<1>5. Write("acc_y", {1 + 2}) \in W
  BY <1>2, <1>3 DEF Write, AllowedWrites, Writes, MAX_MESSAGE_LENGTH, Acceleration
<1>6. WriteOr("acc_z", {1, 1 + 1}) \in W
  BY <1>2, <1>3 DEF WriteOr, AllowedWrites, Writes, MAX_MESSAGE_LENGTH, Acceleration
<1> HIDE DEF W
<1>7. /\ <<Write("acc_x", {1 + 1}), WriteOr("acc_z", {1, 1 + 1})>> \in Seq(W)
      /\ <<Write("acc_y", {1 + 2}), WriteOr("acc_z", {1, 1 + 1})>> \in Seq(W)
  BY <1>4, <1>5, <1>6
<1>8. \A s \in Seq(W) : <<Section("m_acc_mutex", s)>> \in Seq(FreshSections(r))
  BY MutexNames DEF Section, FreshSections, AnySections, W
<1>9. /\ handle_ir_full(1 + 4, TRUE) \in Seq(FreshSections(r))
      /\ handle_ir_full(1 + 2 + 4, TRUE) \in Seq(FreshSections(r))
  <2>1. 1 + 4 \in 1..16 /\ 1 + 2 + 4 \in 1..16 /\ TRUE \in BOOLEAN
    OBVIOUS
  <2>2. \A at \in 1..16 : handle_ir_full(at, TRUE) \in Seq(FreshSections(r))
    BY <2>1, DotsFresh
  <2> QED
    BY <2>1, <2>2
<1> DEFINE F == Seq(FreshSections(r))
<1>10. \A s \in F, u \in F : s \o u \in F
  BY FreshInTurn
<1>11. handle_buttons_only(1) \in F
  BY ButtonsFresh
<1> HIDE DEF F
<1> QED
  BY <1>7, <1>8, <1>9, <1>10, <1>11 DEF handle_interleaved_a, handle_interleaved_b, F

\* Where the handlers take the extension bytes from, there is a frame if they find the bit.
LEMMA FramesOfKinds ==
  ASSUME NEW r, NEW at,
         \/ r.kind \in {"BUTTONS_EXT_8B", "BUTTONS_EXT_19B"} /\ at = 3
         \/ r.kind = "BUTTONS_ACC_EXT_16B" /\ at = 6
         \/ r.kind = "BUTTONS_IR_10B_EXTENSION_9B" /\ at = 15
         \/ r.kind = "BUTTONS_ACC_IR_10B_EXTENSION_6B" /\ at = 16
  PROVE  at + 5 \in r.mpls_bits => IsFrame(r, at..(at + 5))
<1>1. /\ PartSize["BUTTONS"] = 2 /\ PartSize["ACC"] = 3 /\ PartSize["IR_10B"] = 10
  BY DEF PartSize
<1>2. CASE r.kind \in {"BUTTONS_EXT_8B", "BUTTONS_EXT_19B"}
  <2>1. Len(Parts[r.kind]) = 2 /\ Parts[r.kind][1] = "BUTTONS"
    BY <1>2 DEF Parts
  <2>2. FrameStart(r.kind) = 3
    BY <1>1, <2>1 DEF FrameStart, PartStart
  <2> QED
    BY <1>2, <2>2 DEF IsFrame
<1>3. CASE r.kind = "BUTTONS_ACC_EXT_16B"
  <2>1. Len(Parts[r.kind]) = 3 /\ Parts[r.kind][1] = "BUTTONS" /\ Parts[r.kind][2] = "ACC"
    BY <1>3 DEF Parts
  <2>2. FrameStart(r.kind) = 6
    BY <1>1, <2>1 DEF FrameStart, PartStart
  <2> QED
    BY <1>3, <2>2 DEF IsFrame
<1>4. CASE r.kind = "BUTTONS_ACC_IR_10B_EXTENSION_6B"
  <2>1. /\ Len(Parts[r.kind]) = 4 /\ Parts[r.kind][1] = "BUTTONS" /\ Parts[r.kind][2] = "ACC"
        /\ Parts[r.kind][3] = "IR_10B"
    BY <1>4 DEF Parts
  <2>2. FrameStart(r.kind) = 16
    BY <1>1, <2>1 DEF FrameStart, PartStart
  <2> QED
    BY <1>4, <2>2 DEF IsFrame
<1>5. CASE r.kind = "BUTTONS_IR_10B_EXTENSION_9B"
  BY <1>5 DEF IsFrame
<1> QED
  BY <1>2, <1>3, <1>4, <1>5

LEMMA ExtensionFresh ==
  ASSUME NEW r, NEW at \in 1..16, at + 5 < Length[r.kind], Length[r.kind] \in 3..22, NEW e, NEW m,
         NEW mpls \in BOOLEAN, mpls => IsFrame(r, at..(at + 5))
  PROVE  handle_extension_data(at, mpls, e, m) \in Seq(FreshSections(r))
<1> DEFINE W == PlainWrites(r)
<1>1. "m_extension_mutex" \in Mutexes
      /\ \A f \in {"nunchuk", "nunchuk_low"} :
           f \in Fields \ Values /\ f \notin Acceleration /\ f # "gyro_raw"
  BY MutexNames DEF Guard, Fields, Values, Acceleration
<1>2. at..(at + 5) \in SUBSET (0..44) /\ {at + 5} \in SUBSET (0..44)
      /\ at..(at + 5) \subseteq OwnBytes(r)
  <2>1. PICK n \in 3..22 : n = Length[r.kind]
    OBVIOUS
  <2>2. OwnBytes(r) = 0..(n - 1)
    BY <2>1, Zenon DEF OwnBytes
  <2>3. at \in 1..16 /\ at + 5 < n
    BY <2>1, Zenon
  <2> HIDE <2>1
  <2>4. at..(at + 5) \in SUBSET (0..44) /\ {at + 5} \in SUBSET (0..44)
    BY <2>3, SMT
  <2>5. at..(at + 5) \subseteq 0..(n - 1)
    BY <2>3, SMT
  <2> QED
    BY <2>2, <2>4, <2>5, Zenon
<1>3. /\ mpls => Write("gyro_raw", at..(at + 5)) \in W
      /\ Write("nunchuk", at..(at + 5)) \in W /\ Write("nunchuk_low", {at + 5}) \in W
  BY <1>1, <1>2, GyroBytes, PlainBytes
<1>4. \A s \in Seq(W) : <<Section("m_extension_mutex", s)>> \in Seq(FreshSections(r))
  BY <1>1, PlainSection
<1> HIDE DEF W
<1>5. /\ mpls => <<Write("gyro_raw", at..(at + 5))>> \in Seq(W)
      /\ <<Write("nunchuk", at..(at + 5))>> \in Seq(W)
      /\ <<Write("nunchuk", at..(at + 5)), Write("nunchuk_low", {at + 5})>> \in Seq(W)
      /\ << >> \in Seq(W)
  BY <1>3
<1> DEFINE active == m \notin {"none", "EXTENSION_ONLY"}
           written ==
             CASE active /\ mpls -> <<Write("gyro_raw", at..(at + 5))>>
               [] active /\ ~mpls /\ e = "NunchukRaw" -> <<Write("nunchuk", at..(at + 5))>>
               [] ~active /\ e = "NunchukRaw" ->
                    <<Write("nunchuk", at..(at + 5)), Write("nunchuk_low", {at + 5})>>
               [] OTHER -> <<>>
<1>6. written \in Seq(W)
  BY <1>5
<1>7. handle_extension_data(at, mpls, e, m) = <<Section("m_extension_mutex", written)>>
  BY DEF handle_extension_data
<1> QED
  BY <1>4, <1>6, <1>7

LEMMA ExtensionsFresh ==
  ASSUME NEW r, Length[r.kind] \in 3..22, NEW e, NEW m, NEW at,
         \/ r.kind \in {"BUTTONS_EXT_8B", "BUTTONS_EXT_19B"} /\ at = 3
         \/ r.kind = "BUTTONS_ACC_EXT_16B" /\ at = 6
         \/ r.kind = "BUTTONS_IR_10B_EXTENSION_9B" /\ at = 15
         \/ r.kind = "BUTTONS_ACC_IR_10B_EXTENSION_6B" /\ at = 16
  PROVE  handle_extension_data(at, at + 5 \in r.mpls_bits, e, m) \in Seq(FreshSections(r))
<1> DEFINE mpls == at + 5 \in r.mpls_bits
<1>1. at \in 1..16 /\ at + 5 < Length[r.kind]
  BY DEF Length
<1>2. mpls => IsFrame(r, at..(at + 5))
  BY FramesOfKinds
<1>3. mpls \in BOOLEAN
  OBVIOUS
<1> HIDE DEF mpls
<1>4. handle_extension_data(at, mpls, e, m) \in Seq(FreshSections(r))
  BY <1>1, <1>2, <1>3, ExtensionFresh
<1> QED
  BY <1>4 DEF mpls

LEMMA DecisionsFresh ==
  ASSUME NEW r, NEW d, d.m_extension \in Extensions,
         d.m_motionplus \in MotionPlus, NEW assigned, NEW was
  PROVE  Decided(d, assigned, was) \in Seq(PlainWrites(r))
<1> DEFINE W == PlainWrites(r)
<1>1. \A f \in {"nunchuk", "nunchuk_low"} :
        f \in Fields \ Values /\ f \notin Acceleration /\ f # "gyro_raw"
  BY DEF Guard, Fields, Values, Acceleration
<1>2. /\ Write("nunchuk", {}) \in W /\ Write("nunchuk_low", {}) \in W
      /\ Write("gyro_raw", {}) \in W
  BY <1>1, PlainBytes, GyroBytes
<1>3. /\ Write("m_extension", d.m_extension) \in W
      /\ Write("m_motionplus", d.m_motionplus) \in W
  <2>1. /\ Write("m_extension", d.m_extension) \in Writes
        /\ Write("m_motionplus", d.m_motionplus) \in Writes
        /\ Write("m_extension", d.m_extension).field \in Values
        /\ Write("m_motionplus", d.m_motionplus).field \in Values
    BY DEF Write, Writes, Values
  <2> QED
    BY <2>1, PlainValues
<1> HIDE DEF W
<1> DEFINE first == IF assigned
                      THEN <<Write("m_extension", d.m_extension), Write("nunchuk", {}),
                             Write("nunchuk_low", {})>>
                      ELSE <<>>
           second == IF d.m_motionplus = was THEN <<>>
                     ELSE IF "none" \in {was, d.m_motionplus}
                       THEN <<Write("m_motionplus", d.m_motionplus), Write("gyro_raw", {})>>
                       ELSE <<Write("m_motionplus", d.m_motionplus)>>
<1>4. first \in Seq(W) /\ second \in Seq(W)
  BY <1>2, <1>3
<1>5. Decided(d, assigned, was) = first \o second
  BY DEF Decided
<1> HIDE DEF first, second
<1> QED
  BY <1>4, <1>5, ConcatProperties DEF W

LEMMA StatusFresh ==
  ASSUME NEW r, r.connected \in BOOLEAN, r.ir_enabled \in BOOLEAN,
         NEW e \in Extensions, NEW m \in MotionPlus
  PROVE  handle_status(3, r, e, m) \in Seq(FreshSections(r))
<1> DEFINE W == PlainWrites(r)
           decided == Decided(OnStatus(r.connected, e, m),
                              OnStatus(r.connected, e, m).m_extension # e, m)
           before == <<Write("battery_very_low", {3})>>
           after == <<Write("ir_enabled", r.ir_enabled), Write("battery_level", {3 + 3})>>
<1>1. decided \in Seq(W)
  <2>1. /\ OnStatus(r.connected, e, m).m_extension \in Extensions
        /\ OnStatus(r.connected, e, m).m_motionplus \in MotionPlus
    BY Decisions DEF ExtensionIds
  <2> QED
    BY <2>1, DecisionsFresh
<1>2. /\ Write("battery_very_low", {3}) \in W /\ Write("battery_level", {3 + 3}) \in W
      /\ Write("ir_enabled", r.ir_enabled) \in W
  <2>1. \A f \in {"battery_very_low", "battery_level"} :
          f \in Fields \ Values /\ f \notin Acceleration /\ f # "gyro_raw"
    BY DEF Guard, Fields, Values, Acceleration
  <2>2. {3} \in SUBSET (0..44) /\ {3 + 3} \in SUBSET (0..44)
    OBVIOUS
  <2>3. Write("ir_enabled", r.ir_enabled) \in Writes
        /\ Write("ir_enabled", r.ir_enabled).field \in Values
    BY DEF Write, Writes, Values
  <2> QED
    BY <2>1, <2>2, <2>3, PlainBytes, PlainValues
<1> HIDE DEF W
<1>3. before \in Seq(W) /\ after \in Seq(W)
  BY <1>2
<1>4. handle_status(3, r, e, m) = <<Section("m_status_mutex", before \o decided \o after)>>
  BY DEF handle_status
<1> HIDE DEF before, decided, after
<1>5. before \o decided \o after \in Seq(W)
  BY <1>1, <1>3, ConcatProperties DEF W
<1> QED
  BY <1>4, <1>5, MutexNames, PlainSection DEF W

LEMMA MemReadFresh ==
  ASSUME NEW r, NEW answer, NEW e \in Extensions, NEW m \in MotionPlus
  PROVE  handle_mem_read(3, answer, e, m) \in Seq(FreshSections(r))
<1>1. CASE answer \in ExtensionIds
  <2>1. /\ OnIdentifier(answer, e, m).m_extension \in Extensions
        /\ OnIdentifier(answer, e, m).m_motionplus \in MotionPlus
    BY <1>1, Decisions
  <2>2. Decided(OnIdentifier(answer, e, m), answer \in AssigningIds, m) \in Seq(PlainWrites(r))
    BY <2>1, DecisionsFresh
  <2> QED
    BY <1>1, <2>2, MutexNames, PlainSection DEF handle_mem_read
<1>2. CASE answer \notin ExtensionIds /\ answer = "wiimote_calibration"
  <2> DEFINE W == PlainWrites(r)
  <2>1. (3 + 3)..(3 + 12) \in SUBSET (0..44)
    OBVIOUS
  <2>2. "acc_calib" \in Fields \ Values /\ "acc_calib" \notin Acceleration
    BY DEF Fields, Guard, Values, Acceleration
  <2>3. Write("acc_calib", (3 + 3)..(3 + 12)) \in W
    BY <2>1, <2>2, PlainBytes
  <2> HIDE DEF W
  <2>4. <<Write("acc_calib", (3 + 3)..(3 + 12))>> \in Seq(W)
    BY <2>3
  <2> QED
    BY <1>2, <2>4, MutexNames, PlainSection DEF handle_mem_read, W
<1>3. CASE answer \notin ExtensionIds /\ answer # "wiimote_calibration"
  BY <1>3, EmptySeq DEF handle_mem_read
<1> QED
  BY <1>1, <1>2, <1>3

LEMMA ReportKinds ==
  ASSUME NEW r \in InputReports
  PROVE  /\ r.kind \in {"STATUS_INFORMATION", "MEMORY_READ"} \cup ExtensionKinds \cup PlainKinds
         /\ Length[r.kind] \in 3..22
         /\ r.kind \in AccKinds => Length[r.kind] \in 6..22
<1>1. r.kind \in {"STATUS_INFORMATION", "MEMORY_READ"} \cup ExtensionKinds \cup PlainKinds
  BY ReportIs
<1> QED
  BY <1>1 DEF ExtensionKinds, PlainKinds, InterleavedKinds, Length, AccKinds

\* What a report leads to, and that the acceleration is written if it has one.
LEMMA HandlersFresh ==
  ASSUME NEW r \in InputReports, NEW e \in Extensions, NEW m \in MotionPlus
  PROVE  Handlers(r, e, m) \in Seq(FreshSections(r))
<1> DEFINE F == Seq(FreshSections(r))
           Ext(at) == handle_extension_data(at, at + 5 \in r.mpls_bits, e, m)
<1>1. handle_buttons_only(1) \in F /\ handle_mem_read(3, r.answer, e, m) \in F
  BY ButtonsFresh, MemReadFresh
<1>2. /\ handle_ir_data_basic(6) \in F /\ handle_ir_data_extended(6) \in F
      /\ handle_ir_data_extended(3) \in F
  <2>1. 3 \in 1..16 /\ 6 \in 1..16 /\ TRUE \in BOOLEAN
    OBVIOUS
  <2>2. \A at \in 1..16 : handle_ir_data_basic(at) \in F /\ handle_ir_data_extended(at) \in F
    BY <2>1, DotsFresh
  <2> QED
    BY <2>1, <2>2
<1>3. r.kind \in AccKinds => handle_buttons_acc(1) \in F
  BY ReportKinds, AccFresh
<1>4. \A s \in F, u \in F : s \o u \in F
  BY FreshInTurn
<1>5. r.kind \in {"STATUS_INFORMATION", "MEMORY_READ"} \cup ExtensionKinds \cup PlainKinds
      /\ Length[r.kind] \in 3..22
  BY ReportKinds
<1>6. r.kind = "STATUS_INFORMATION" => handle_status(3, r, e, m) \in F
  <2> SUFFICES ASSUME r.kind = "STATUS_INFORMATION"
               PROVE  handle_status(3, r, e, m) \in F
    OBVIOUS
  <2>1. r.connected \in BOOLEAN /\ r.ir_enabled \in BOOLEAN
    BY ReportIs
  <2> QED
    BY <2>1, StatusFresh
<1>7. r.kind \in InterleavedKinds => handle_interleaved_a(1) \in F /\ handle_interleaved_b(1) \in F
  BY InterleavedFresh
<1>8. /\ r.kind \in {"BUTTONS_EXT_8B", "BUTTONS_EXT_19B"} => Ext(3) \in F
      /\ r.kind = "BUTTONS_ACC_EXT_16B" => Ext(6) \in F
      /\ r.kind = "BUTTONS_IR_10B_EXTENSION_9B" => Ext(15) \in F
      /\ r.kind = "BUTTONS_ACC_IR_10B_EXTENSION_6B" => Ext(16) \in F
  BY ExtensionsFresh, ReportKinds
<1> HIDE DEF F, Ext
<1>9. CASE r.kind \in {"STATUS_INFORMATION", "MEMORY_READ", "ACK_OUTPUT_REPORT", "BUTTONS",
                       "BUTTONS_ACC"}
  BY <1>1, <1>3, <1>4, <1>6, <1>9 DEF Handlers, AccKinds, F
<1>10. CASE r.kind \in {"BUTTONS_EXT_8B", "BUTTONS_EXT_19B", "BUTTONS_ACC_EXT_16B",
                       "BUTTONS_ACC_IR_12B"}
  BY <1>1, <1>2, <1>3, <1>4, <1>8, <1>10 DEF Handlers, AccKinds, F, Ext
<1>11. CASE r.kind \in {"BUTTONS_IR_10B_EXTENSION_9B", "BUTTONS_ACC_IR_10B_EXTENSION_6B"}
  BY <1>1, <1>2, <1>3, <1>4, <1>8, <1>11 DEF Handlers, AccKinds, F, Ext
<1>12. CASE r.kind \in InterleavedKinds
  BY <1>7, <1>12 DEF Handlers, InterleavedKinds, F
<1> QED
  BY <1>5, <1>9, <1>10, <1>11, <1>12 DEF ExtensionKinds, PlainKinds, F

LEMMA StillThere ==
  ASSUME NEW S, NEW s \in Seq(S), NEW u \in Seq(S), Len(s) = 2, NEW a, s[2].accesses = a
  PROVE  /\ \E i \in 1..Len(s) : s[i].accesses = a
         /\ \E i \in 1..Len(s \o u) : (s \o u)[i].accesses = a
<1>1. Len(u) \in Nat /\ Len(s \o u) = 2 + Len(u)
  <2>1. Len(u) \in Nat
    BY LenProperties
  <2>2. Len(s \o u) = Len(s) + Len(u)
    BY ConcatProperties
  <2> QED
    BY <2>1, <2>2
<1>2. (s \o u)[2] = s[2]
  OBVIOUS
<1> QED
  BY <1>1, <1>2

\* A report with an acceleration leads to its being written.
LEMMA AccComesUp ==
  ASSUME NEW r \in InputReports, NEW e, NEW m, r.kind \in AccKinds
  PROVE  \E i \in 1..Len(Handlers(r, e, m)) : Handlers(r, e, m)[i].accesses = AccWrites
<1> DEFINE F == Seq(FreshSections(r))
           first == handle_buttons_acc(1)
           Ext(at) == handle_extension_data(at, at + 5 \in r.mpls_bits, e, m)
<1>1. first \in F /\ Len(first) = 2 /\ first[2].accesses = AccWrites
  BY ReportKinds, AccFresh
<1>2. /\ \E i \in 1..Len(first) : first[i].accesses = AccWrites
      /\ \A u \in F : \E i \in 1..Len(first \o u) : (first \o u)[i].accesses = AccWrites
  <2>1. <<>> \in F
    OBVIOUS
  <2> HIDE DEF first, F
  <2>2. \A u \in F : /\ \E i \in 1..Len(first) : first[i].accesses = AccWrites
                    /\ \E i \in 1..Len(first \o u) : (first \o u)[i].accesses = AccWrites
    <3> TAKE u \in F
    <3> QED
      BY <1>1, StillThere DEF F
  <2> QED
    BY <2>1, <2>2, Zenon
<1>3. handle_ir_data_basic(6) \in F /\ handle_ir_data_extended(6) \in F
  <2>1. 6 \in 1..16 /\ TRUE \in BOOLEAN
    OBVIOUS
  <2> QED
    BY <2>1, DotsFresh
<1>4. /\ r.kind = "BUTTONS_ACC_EXT_16B" => Ext(6) \in F
      /\ r.kind = "BUTTONS_ACC_IR_10B_EXTENSION_6B" => Ext(16) \in F
  BY ExtensionsFresh, ReportKinds
<1>5. r.kind = "BUTTONS_ACC_IR_10B_EXTENSION_6B" =>
        /\ handle_ir_data_basic(6) \o Ext(16) \in F
        /\ (first \o handle_ir_data_basic(6)) \o Ext(16)
             = first \o (handle_ir_data_basic(6) \o Ext(16))
  <2> DEFINE d == handle_ir_data_basic(6)
             x == Ext(16)
  <2> HIDE DEF first, d, x
  <2>1. \A u \in F, v \in F : u \o v \in F
    BY FreshInTurn
  <2>2. \A u \in F, v \in F : (first \o u) \o v = first \o (u \o v)
    <3> DEFINE S == FreshSections(r)
    <3> HIDE DEF S
    <3> QED
      BY <1>1, ConcatAssociative, SMTT(20) DEF S
  <2> QED
    BY <1>3, <1>4, <2>1, <2>2 DEF d, x
<1> HIDE DEF F, Ext, first
<1>6. CASE r.kind = "BUTTONS_ACC"
  BY <1>2, <1>6 DEF Handlers, first
<1>7. CASE r.kind = "BUTTONS_ACC_IR_12B"
  <2>1. Handlers(r, e, m) = first \o handle_ir_data_extended(6)
    BY <1>7 DEF Handlers, first
  <2> QED
    BY <1>2, <1>3, <2>1
<1>8. CASE r.kind = "BUTTONS_ACC_EXT_16B"
  <2>1. Handlers(r, e, m) = first \o Ext(6)
    BY <1>8 DEF Handlers, first, Ext
  <2> QED
    BY <1>2, <1>4, <1>8, <2>1
<1>9. CASE r.kind = "BUTTONS_ACC_IR_10B_EXTENSION_6B"
  <2>1. Handlers(r, e, m) = (first \o handle_ir_data_basic(6)) \o Ext(16)
    BY <1>9 DEF Handlers, first, Ext
  <2> QED
    BY <1>2, <1>5, <1>9, <2>1
<1> QED
  BY <1>6, <1>7, <1>8, <1>9 DEF AccKinds

-----------------------------------------------------------------------------
(* The sections that are left. *)

\* A section of which the first access is gone, and the sections with it.
LEMMA RestIs ==
  ASSUME NEW T, NEW s \in [mutex : Mutexes, accesses : Seq(T)], s.accesses # <<>>
  PROVE  /\ Head(s.accesses) \in T /\ Head(s.accesses) = s.accesses[1]
         /\ Rest(s) \in [mutex : Mutexes, accesses : Seq(T)]
         /\ Rest(s).accesses = Tail(s.accesses)
         /\ \A j \in 2..Len(s.accesses) :
              j - 1 \in 1..Len(Rest(s).accesses) /\ Rest(s).accesses[j - 1] = s.accesses[j]
<1> DEFINE a == s.accesses
           M == Mutexes
           Q == Seq(T)
<1>1. a \in Seq(T) /\ a # <<>> /\ s.mutex \in M
  OBVIOUS
<1>2. \A x : [s EXCEPT !.accesses = x] = [mutex |-> s.mutex, accesses |-> x]
  BY OtherAccesses
<1>3. Rest(s) = [mutex |-> s.mutex, accesses |-> Tail(a)]
  BY <1>2, Zenon DEF Rest
<1> HIDE DEF a, M
<1>4. /\ Head(a) \in T /\ Head(a) = a[1] /\ Tail(a) \in Seq(T) /\ Len(Tail(a)) = Len(a) - 1
      /\ Len(a) \in Nat /\ \A j \in 1..Len(Tail(a)) : Tail(a)[j] = a[j + 1]
  BY <1>1
<1>5. \A j \in 2..Len(a) : j - 1 \in 1..Len(Tail(a)) /\ Tail(a)[j - 1] = a[j]
  <2> TAKE j \in 2..Len(a)
  <2>1. j - 1 \in 1..Len(Tail(a)) /\ (j - 1) + 1 = j
    BY <1>4
  <2> QED
    BY <1>4, <2>1
<1>6. Rest(s).accesses = Tail(a)
  BY <1>3
<1>7. Rest(s) \in [mutex : M, accesses : Q]
  <2>1. Tail(a) \in Q
    BY <1>4
  <2> HIDE DEF Q
  <2> QED
    BY <1>1, <1>3, <2>1
<1> QED
  BY <1>4, <1>5, <1>6, <1>7 DEF a, M

LEMMA HeadReplaced ==
  ASSUME NEW S, NEW s \in Seq(S), s # <<>>, NEW x \in S
  PROVE  /\ <<x>> \o Tail(s) \in Seq(S) /\ Len(<<x>> \o Tail(s)) = Len(s)
         /\ (<<x>> \o Tail(s))[1] = x /\ Head(s) = s[1] /\ Head(s) \in S
         /\ Len(s) \in Nat /\ 1 \in 1..Len(s)
         /\ \A i \in 2..Len(s) : (<<x>> \o Tail(s))[i] = s[i]
<1>1. /\ Len(s) \in Nat /\ Tail(s) \in Seq(S) /\ Len(Tail(s)) = Len(s) - 1
      /\ Head(s) = s[1] /\ Head(s) \in S /\ 1 \in 1..Len(s)
      /\ \A i \in 1..Len(Tail(s)) : Tail(s)[i] = s[i + 1]
  OBVIOUS
<1>2. <<x>> \in Seq(S) /\ Len(<<x>>) = 1 /\ <<x>>[1] = x
  OBVIOUS
<1>3. <<x>> \o Tail(s) \in Seq(S) /\ Len(<<x>> \o Tail(s)) = Len(s)
  BY <1>1, <1>2, ConcatProperties
<1>4. (<<x>> \o Tail(s))[1] = x
  BY <1>1
<1>5. \A i \in 2..Len(s) : (<<x>> \o Tail(s))[i] = s[i]
  <2> TAKE i \in 2..Len(s)
  <2>1. i - 1 \in 1..Len(Tail(s)) /\ (i - 1) + 1 = i
    BY <1>1
  <2>2. (<<x>> \o Tail(s))[i] = Tail(s)[i - 1]
    BY <1>1
  <2> QED
    BY <1>1, <2>1, <2>2
<1> QED
  BY <1>1, <1>3, <1>4, <1>5

LEMMA AccNotPlain ==
  ASSUME NEW r, NEW s \in Seq(PlainWrites(r))
  PROVE  s \notin Begun /\ s # AccWrites
<1>1. WriteX.field \in Acceleration /\ WriteY.field \in Acceleration /\ WriteZ.field \in Acceleration
  BY WriteParts DEF WriteX, WriteY, WriteZ, Acceleration
<1>2. WriteX \notin PlainWrites(r) /\ WriteY \notin PlainWrites(r) /\ WriteZ \notin PlainWrites(r)
  BY <1>1 DEF PlainWrites
<1> DEFINE P == PlainWrites(r)
<1> HIDE DEF P
<1>3. s # <<>> => s[1] \in P
  BY DEF P
<1>4. /\ <<WriteY, WriteZ>>[1] = WriteY /\ <<WriteZ>>[1] = WriteZ
      /\ <<WriteX, WriteY, WriteZ>>[1] = WriteX
      /\ <<WriteY, WriteZ>> # <<>> /\ <<WriteZ>> # <<>> /\ <<WriteX, WriteY, WriteZ>> # <<>>
  OBVIOUS
<1> QED
  BY <1>2, <1>3, <1>4 DEF Begun, AccWrites, P

\* What is written next, and what is left of its section.
LEMMA RestOfSection ==
  ASSUME NEW r, NEW s \in RestSections(r), s.accesses # <<>>
  PROVE  /\ Head(s.accesses) \in AllowedWrites(r)
         /\ Rest(s) \in RestSections(r) /\ Rest(s).accesses = Tail(s.accesses)
         /\ \/ r.kind \in InterleavedKinds
            \/ /\ Head(s.accesses).field \notin Acceleration
               /\ s.accesses \notin Begun /\ Rest(s).accesses \notin Begun
            \/ /\ s.accesses = AccWrites /\ Head(s.accesses) = WriteX
               /\ Rest(s).accesses = <<WriteY, WriteZ>>
            \/ /\ s.accesses = <<WriteY, WriteZ>> /\ Head(s.accesses) = WriteY
               /\ Rest(s).accesses = <<WriteZ>>
            \/ /\ s.accesses = <<WriteZ>> /\ Head(s.accesses) = WriteZ
               /\ Rest(s).accesses = <<>>
<1> DEFINE A == AllowedWrites(r)
           a == s.accesses
<1>1. s \in [mutex : Mutexes, accesses : Seq(A)] /\ a # <<>>
  BY DEF RestSections, AnySections
<1> HIDE DEF A
<1>2. /\ Head(a) \in A /\ Rest(s) \in [mutex : Mutexes, accesses : Seq(A)]
      /\ Rest(s).accesses = Tail(a)
  BY <1>1, RestIs
<1>3. Head(a) \in AllowedWrites(r)
  BY <1>2 DEF A
<1>4. \A x : [s EXCEPT !.accesses = x] = [mutex |-> s.mutex, accesses |-> x]
  BY <1>1, OtherAccesses
<1>5. Rest(s) \in AnySections(r) /\ Rest(s).accesses = Tail(a) /\ Rest(s).mutex = s.mutex
  <2>1. Rest(s) = [mutex |-> s.mutex, accesses |-> Tail(a)]
    BY <1>4, Zenon DEF Rest
  <2>2. Rest(s) \in AnySections(r)
    BY <1>2 DEF AnySections, A
  <2> QED
    BY <1>2, <2>1, <2>2
<1>6. CASE r.kind \in InterleavedKinds
  BY <1>3, <1>5, <1>6 DEF RestSections
<1>7. CASE a \in Seq(PlainWrites(r))
  <2>1. Head(a) \in PlainWrites(r) /\ Tail(a) \in Seq(PlainWrites(r))
    BY <1>7, HeadTailProperties
  <2>2. a \notin Begun /\ Tail(a) \notin Begun
    BY <1>7, <2>1, AccNotPlain
  <2>3. Head(a).field \notin Acceleration
    BY <2>1 DEF PlainWrites
  <2>4. Rest(s) \in RestSections(r)
    BY <1>5, <2>1 DEF RestSections
  <2> QED
    BY <1>3, <1>5, <2>2, <2>3, <2>4
<1>8. CASE s.mutex = "m_acc_mutex" /\ a \in {AccWrites, <<WriteY, WriteZ>>, <<WriteZ>>, <<>>}
  <2>1. /\ Head(AccWrites) = WriteX /\ Tail(AccWrites) = <<WriteY, WriteZ>>
        /\ Head(<<WriteY, WriteZ>>) = WriteY /\ Tail(<<WriteY, WriteZ>>) = <<WriteZ>>
        /\ Head(<<WriteZ>>) = WriteZ /\ Tail(<<WriteZ>>) = <<>>
    BY DEF AccWrites
  <2>2. Tail(a) \in {AccWrites, <<WriteY, WriteZ>>, <<WriteZ>>, <<>>}
    BY <1>8, <2>1
  <2>3. Rest(s) \in RestSections(r)
    BY <1>5, <1>8, <2>2 DEF RestSections
  <2> QED
    BY <1>3, <1>5, <1>8, <2>1, <2>3
<1> QED
  BY <1>6, <1>7, <1>8 DEF RestSections

LEMMA BegunIsAcc ==
  ASSUME NEW r, r.kind \notin InterleavedKinds, NEW s \in RestSections(r), s.accesses \in Begun
  PROVE  s.mutex = "m_acc_mutex"
  BY AccNotPlain DEF RestSections

LEMMA FreshIsRest ==
  ASSUME NEW r
  PROVE  /\ FreshSections(r) \subseteq RestSections(r)
         /\ r.kind \notin InterleavedKinds => \A s \in FreshSections(r) : s.accesses \notin Begun
<1>1. FreshSections(r) \subseteq RestSections(r)
  BY DEF FreshSections, RestSections
<1>2. AccWrites \notin Begun
  <2>1. Len(AccWrites) = 3 /\ Len(<<WriteY, WriteZ>>) = 2 /\ Len(<<WriteZ>>) = 1
    BY DEF AccWrites
  <2> QED
    BY <2>1 DEF Begun
<1>3. r.kind \notin InterleavedKinds => \A s \in FreshSections(r) : s.accesses \notin Begun
  BY <1>2, AccNotPlain DEF FreshSections
<1> QED
  BY <1>1, <1>3

\* The bytes of the buffer that are of the last report.
LEMMA StoredBytes ==
  ASSUME StateTypes, BufferInv, sent # <<>>, NEW w \in AllowedWrites(LastReport),
         w.field \notin Values
  PROVE  /\ Stored(w) \subseteq SeenBytes
         /\ w.from \subseteq OwnBytes(LastReport) =>
              /\ ReportsOf(Stored(w)) \subseteq {Len(sent)}
              /\ w.from # {} => ReportsOf(Stored(w)) = {Len(sent)}
         /\ BytesOf(Stored(w)) = w.from
<1>1. Stored(w) = {Byte(i) : i \in w.from}
  BY DEF Stored
<1>2. w.from \subseteq 0..(2 * MAX_MESSAGE_LENGTH)
  BY DEF AllowedWrites
<1>3. Len(sent) \in Nat /\ LastReport \in InputReports
  <2>1. sent \in Seq(InputReports)
    BY InputAssumption, SeqMonotonic DEF StateTypes
  <2>2. Len(sent) \in 1..Len(sent) /\ Len(sent) \in Nat
    BY <2>1, LenProperties, EmptySeq
  <2> QED
    BY <2>1, <2>2, ElementOfSeq DEF LastReport
<1>4. \A i \in w.from : Byte(i) \in SeenBytes
  <2> TAKE i \in w.from
  <2>1. (IF i \in DOMAIN buffer THEN buffer[i] ELSE 0) \in 0..Len(sent)
    BY <1>3 DEF StateTypes
  <2> QED
    BY <1>2, <2>1 DEF Byte, SeenBytes
<1>5. ASSUME w.from \subseteq OwnBytes(LastReport), NEW i \in w.from
      PROVE  Byte(i).report = Len(sent)
  <2>1. Length[LastReport.kind] \in 3..22
    BY <1>3, ReportKinds
  <2>2. i \in 0..(Length[LastReport.kind] - 1)
    BY <1>5 DEF OwnBytes
  <2>3. i \in 0..(MAX_MESSAGE_LENGTH - 1)
    <3> DEFINE l == Length[LastReport.kind]
    <3>1. l \in 3..22 /\ i \in 0..(l - 1)
      BY <2>1, <2>2
    <3> HIDE DEF l
    <3>2. l - 1 \in 2..21 /\ i \in Nat /\ i <= l - 1
      BY <3>1, SMT
    <3>3. i \in 0..21
      BY <3>2, SMT
    <3> QED
      BY <3>3, SMT DEF MAX_MESSAGE_LENGTH
  <2>4. i \in DOMAIN buffer
    BY <2>3 DEF StateTypes
  <2>5. buffer[i] = Len(sent)
    BY <1>5 DEF BufferInv
  <2> QED
    BY <2>4, <2>5 DEF Byte
<1>6. w.from \subseteq OwnBytes(LastReport) =>
        /\ ReportsOf(Stored(w)) \subseteq {Len(sent)}
        /\ w.from # {} => ReportsOf(Stored(w)) = {Len(sent)}
  BY <1>1, <1>5 DEF ReportsOf
<1>7. BytesOf(Stored(w)) = w.from
  <2>1. \A i : Byte(i).byte = i
    BY DEF Byte
  <2>2. ASSUME NEW i \in w.from PROVE i \in BytesOf(Stored(w))
    BY <1>1, <2>1 DEF BytesOf
  <2>3. ASSUME NEW b \in BytesOf(Stored(w)) PROVE b \in w.from
    <3>1. PICK s \in Stored(w) : b = s.byte
      BY DEF BytesOf
    <3>2. PICK i \in w.from : s = Byte(i)
      BY <1>1
    <3> QED
      BY <2>1, <3>1, <3>2
  <2> QED
    BY <2>2, <2>3
<1> QED
  BY <1>1, <1>4, <1>6, <1>7

-----------------------------------------------------------------------------
(* The read thread's steps. *)

LEMMA SentGrows ==
  ASSUME StateTypes, NEW r \in Received, NEW s, s = Append(sent, r)
  PROVE  /\ s \in Seq(Received) /\ Len(sent) \in Nat /\ Len(s) = Len(sent) + 1
         /\ s[Len(s)] = r /\ s # <<>>
         /\ \A i \in 1..Len(sent) : s[i] = sent[i]
         /\ DOMAIN sent = 1..Len(sent) /\ DOMAIN s = 1..Len(s)
<1>1. sent \in Seq(Received)
  BY DEF StateTypes
<1> QED
  BY <1>1

LEMMA ReadReportOrigins ==
  ASSUME InputInv, StateOrigins, NEW r \in Received, ReadReport(r)
  PROVE  StateOrigins'
<1> DEFINE n == Len(sent)
<1>1. /\ todo = <<>> /\ n < MaxReports /\ sent' = Append(sent, r)
      /\ buffer' = [i \in DOMAIN buffer |-> IF i < Length[r.kind] THEN n + 1 ELSE buffer[i]]
      /\ todo' = Handlers(r, state["m_extension"], state["m_motionplus"])
      /\ UNCHANGED <<locked, state>>
  BY DEF ReadReport
<1>2. /\ sent' \in Seq(Received) /\ n \in Nat /\ Len(sent') = n + 1
      /\ sent'[Len(sent')] = r /\ sent' # <<>>
      /\ \A i \in 1..n : sent'[i] = sent[i]
      /\ DOMAIN sent = 1..n /\ DOMAIN sent' = 1..(n + 1)
  <2>1. sent \in Seq(Received) /\ sent' = Append(sent, r)
    BY <1>1 DEF StateOrigins, StateTypes
  <2>2. /\ sent' \in Seq(Received) /\ Len(sent) \in Nat /\ Len(sent') = Len(sent) + 1
        /\ sent'[Len(sent')] = r /\ sent' # <<>>
        /\ \A i \in 1..Len(sent) : sent'[i] = sent[i]
        /\ DOMAIN sent = 1..Len(sent) /\ DOMAIN sent' = 1..Len(sent')
    BY <2>1
  <2> QED
    BY <2>2
<1>3. r \in InputReports /\ LastReport' = r
  BY <1>2, InputAssumption DEF LastReport
<1>4. ~locked
  BY <1>1 DEF InputInv, ReadThreadInv
<1>5. state["m_extension"] \in Extensions /\ state["m_motionplus"] \in MotionPlus
  BY DEF InputInv, ReadThreadInv
<1>6. todo' \in Seq(FreshSections(r))
  BY <1>1, <1>3, <1>5, HandlersFresh
<1> HIDE DEF n
<1>7. MaxReports \in Nat
  BY InputAssumption
<1>8. 0..n \subseteq 0..(n + 1) /\ 1..n \subseteq 1..(n + 1) /\ n + 1 \in 0..(n + 1)
  BY <1>2
<1>9. StateTypes'
  <2>1. buffer' \in [0..(MAX_MESSAGE_LENGTH - 1) -> 0..(n + 1)]
    BY <1>1, <1>8 DEF StateOrigins, StateTypes, n
  <2>2. SeenBytes \subseteq SeenBytes'
    BY <1>2, <1>8 DEF SeenBytes, n
  <2>3. n + 1 <= MaxReports
    BY <1>1, <1>2, <1>7 DEF n
  <2> QED
    BY <1>1, <1>2, <1>8, <2>1, <2>2, <2>3 DEF StateOrigins, StateTypes, n
<1>10. BufferInv'
  <2> SUFFICES ASSUME NEW i \in OwnBytes(r) PROVE buffer'[i] = n + 1
    BY <1>2, <1>3 DEF BufferInv, n
  <2>1. i \in 0..(MAX_MESSAGE_LENGTH - 1) /\ i < Length[r.kind]
    BY <1>3, ReportKinds DEF OwnBytes, MAX_MESSAGE_LENGTH
  <2> QED
    BY <1>1, <2>1 DEF StateOrigins, StateTypes
<1>11. NoInterleaved' => NoInterleaved /\ r.kind \notin InterleavedKinds
  <2> SUFFICES ASSUME NoInterleaved' PROVE NoInterleaved /\ r.kind \notin InterleavedKinds
    OBVIOUS
  <2>1. \A i \in 1..(n + 1) : sent'[i].kind \notin InterleavedKinds
    BY <1>2 DEF NoInterleaved
  <2>2. \A i \in 1..n : sent[i].kind \notin InterleavedKinds
    BY <1>2, <1>8, <2>1
  <2>3. n + 1 \in 1..(n + 1)
    BY <1>2
  <2>4. r.kind \notin InterleavedKinds
    BY <1>2, <2>1, <2>3
  <2> QED
    BY <1>2, <2>2, <2>4 DEF NoInterleaved
<1>12. SectionsInv'
  <2>1. todo' \in Seq(RestSections(LastReport'))
    BY <1>3, <1>6, FreshIsRest, SeqMonotonic
  <2>2. ASSUME NoInterleaved', NEW i \in 1..Len(todo') PROVE todo'[i].accesses \notin Begun
    <3>1. todo'[i] \in FreshSections(r)
      BY <1>6, <2>2, ElementOfSeq
    <3> QED
      BY <1>11, <2>2, <3>1, FreshIsRest
  <2> QED
    BY <1>2, <2>1, <2>2 DEF SectionsInv
<1>13. AccInv'
  BY <1>1, <1>4, <1>11 DEF StateOrigins, AccInv, InSection, AccWhole
<1>14. AccSeen'
  <2> SUFFICES ASSUME NEW k \in 1..(n + 1), sent'[k].kind \in AccKinds
               PROVE  \/ \E a \in ReportsOf(state["acc_x"]) : a >= k
                      \/ k = n + 1 /\ \E i \in 1..Len(todo') : todo'[i].accesses = AccWrites
    BY <1>1, <1>2 DEF AccSeen, n
  <2>1. CASE k \in 1..n
    <3>1. ~ \E i \in 1..Len(todo) : todo[i].accesses = AccWrites
      BY <1>1
    <3> QED
      BY <1>2, <2>1, <3>1 DEF StateOrigins, AccSeen, n
  <2>2. CASE k \notin 1..n
    <3>1. k = n + 1
      BY <1>2, <2>2
    <3>2. r.kind \in AccKinds
      BY <1>2, <3>1
    <3>3. \E i \in 1..Len(todo') : todo'[i].accesses = AccWrites
      BY <1>1, <1>3, <3>2, AccComesUp
    <3> QED
      BY <3>1, <3>3
  <2> QED
    BY <2>1, <2>2
<1>15. GyroFromItsFrame'
  BY <1>1, <1>2 DEF StateOrigins, StateTypes, GyroFromItsFrame, n
<1> QED
  BY <1>9, <1>10, <1>12, <1>13, <1>14, <1>15 DEF StateOrigins

LEMMA LockOrigins ==
  ASSUME InputInv, StateOrigins, Lock
  PROVE  StateOrigins'
<1>1. /\ todo # <<>> /\ ~locked /\ locked' = TRUE /\ UNCHANGED <<sent, buffer, todo, state>>
  BY DEF Lock
<1>2. StateTypes' /\ BufferInv' /\ GyroFromItsFrame' /\ AccSeen' /\ (NoInterleaved' <=> NoInterleaved)
  BY <1>1 DEF StateOrigins, StateTypes, SeenBytes, BufferInv, LastReport, GyroFromItsFrame,
              AccSeen, NoInterleaved
<1>3. SectionsInv'
  BY <1>1, <1>2 DEF StateOrigins, SectionsInv, LastReport
<1>4. NoInterleaved => Head(todo).accesses \notin Begun
  <2>1. Head(todo) = todo[1] /\ 1 \in 1..Len(todo)
    <3>1. todo \in Seq(WriteSections)
      BY DEF InputInv, ReadThreadInv
    <3> QED
      BY <1>1, <3>1
  <2> QED
    BY <1>1, <2>1 DEF StateOrigins, SectionsInv
<1>5. AccInv'
  <2> SUFFICES ASSUME NoInterleaved PROVE AccInv'
    BY <1>2 DEF AccInv
  <2>1. AccWhole'
    BY <1>1 DEF StateOrigins, AccInv, InSection, AccWhole
  <2> QED
    BY <1>1, <1>4, <2>1 DEF AccInv, InSection, Begun
<1> QED
  BY <1>2, <1>3, <1>5 DEF StateOrigins

LEMMA UnlockOrigins ==
  ASSUME InputInv, StateOrigins, Unlock
  PROVE  StateOrigins'
<1>1. /\ locked /\ locked' = FALSE /\ UNCHANGED <<sent, buffer, state>>
      /\ Head(todo).accesses = <<>> /\ todo' = Tail(todo)
  BY DEF Unlock
<1>2. todo \in Seq(WriteSections) /\ todo # <<>>
  BY <1>1 DEF InputInv, ReadThreadInv
<1>3. /\ Head(todo) = todo[1] /\ 1 \in 1..Len(todo) /\ Len(todo) \in Nat
      /\ Len(Tail(todo)) = Len(todo) - 1
      /\ \A i \in 1..Len(Tail(todo)) : Tail(todo)[i] = todo[i + 1] /\ i + 1 \in 1..Len(todo)
  BY <1>2
<1>4. <<>> \notin Begun /\ <<>> # AccWrites
  <2>1. Len(AccWrites) = 3 /\ Len(<<WriteY, WriteZ>>) = 2 /\ Len(<<WriteZ>>) = 1 /\ Len(<<>>) = 0
    BY DEF AccWrites
  <2> QED
    BY <2>1 DEF Begun
<1>5. StateTypes' /\ BufferInv' /\ GyroFromItsFrame' /\ (NoInterleaved' <=> NoInterleaved)
  BY <1>1 DEF StateOrigins, StateTypes, SeenBytes, BufferInv, LastReport, GyroFromItsFrame,
              NoInterleaved
<1>6. SectionsInv'
  <2>1. sent # <<>> /\ todo \in Seq(RestSections(LastReport))
    BY <1>2 DEF StateOrigins, SectionsInv
  <2>2. todo' \in Seq(RestSections(LastReport'))
    BY <1>1, <1>2, <2>1, HeadTailProperties DEF LastReport
  <2>3. ASSUME NoInterleaved, NEW i \in 1..Len(todo') PROVE todo'[i].accesses \notin Begun
    <3>1. todo'[i] = todo[i + 1] /\ i + 1 \in 1..Len(todo) /\ i + 1 # 1
      BY <1>1, <1>3
    <3> QED
      BY <2>3, <3>1 DEF StateOrigins, SectionsInv
  <2> QED
    BY <1>1, <1>5, <2>1, <2>2, <2>3 DEF SectionsInv
<1>7. AccInv'
  <2> SUFFICES ASSUME NoInterleaved PROVE AccInv'
    BY <1>5 DEF AccInv
  <2>1. ~InSection(<<WriteY, WriteZ>>) /\ ~InSection(<<WriteZ>>)
    BY <1>1, <1>4 DEF InSection, Begun
  <2>2. AccWhole'
    BY <1>1, <2>1 DEF StateOrigins, AccInv, AccWhole
  <2> QED
    BY <1>1, <2>2 DEF AccInv, InSection
<1>8. AccSeen'
  <2>1. ASSUME NEW i \in 1..Len(todo), todo[i].accesses = AccWrites
        PROVE  \E j \in 1..Len(todo') : todo'[j].accesses = AccWrites
    <3>1. i # 1
      BY <1>1, <1>3, <1>4, <2>1
    <3>2. i - 1 \in 1..Len(Tail(todo)) /\ (i - 1) + 1 = i
      BY <1>3, <3>1
    <3> QED
      BY <1>1, <1>3, <2>1, <3>2
  <2> QED
    BY <1>1, <2>1 DEF StateOrigins, AccSeen
<1> QED
  BY <1>5, <1>6, <1>7, <1>8 DEF StateOrigins

LEMMA WriteFieldOrigins ==
  ASSUME InputInv, StateOrigins, WriteField
  PROVE  StateOrigins'
<1> DEFINE w == Head(Head(todo).accesses)
           value == IF w.keep THEN state[w.field] \cup Stored(w) ELSE Stored(w)
           R == LastReport
           front == Head(todo)
<1>1. /\ UNCHANGED <<sent, buffer, locked>> /\ locked /\ front.accesses # <<>>
      /\ state' = [state EXCEPT ![w.field] = value]
      /\ todo' = <<Rest(front)>> \o Tail(todo)
  BY DEF WriteField
<1>2. todo \in Seq(WriteSections) /\ todo # <<>>
  BY <1>1 DEF InputInv, ReadThreadInv
<1>3. sent # <<>> /\ todo \in Seq(RestSections(R)) /\ Len(sent) \in Nat
      /\ R = sent[Len(sent)] /\ DOMAIN sent = 1..Len(sent) /\ Len(sent) \in 1..Len(sent)
  <2>1. sent # <<>> /\ todo \in Seq(RestSections(R)) /\ sent \in Seq(Received)
    BY <1>2 DEF StateOrigins, SectionsInv, StateTypes
  <2> QED
    BY <2>1 DEF LastReport
<1> HIDE DEF R
<1>4. front \in RestSections(R) /\ front = todo[1] /\ 1 \in 1..Len(todo)
      /\ Tail(todo) \in Seq(RestSections(R))
  BY <1>2, <1>3, HeadTailProperties
<1>5. /\ w \in AllowedWrites(R)
      /\ Rest(front) \in RestSections(R) /\ Rest(front).accesses = Tail(front.accesses)
      /\ \/ R.kind \in InterleavedKinds
         \/ /\ w.field \notin Acceleration
            /\ front.accesses \notin Begun /\ Rest(front).accesses \notin Begun
         \/ /\ front.accesses = AccWrites /\ w = WriteX
            /\ Rest(front).accesses = <<WriteY, WriteZ>>
         \/ /\ front.accesses = <<WriteY, WriteZ>> /\ w = WriteY
            /\ Rest(front).accesses = <<WriteZ>>
         \/ /\ front.accesses = <<WriteZ>> /\ w = WriteZ
            /\ Rest(front).accesses = <<>>
  BY <1>1, <1>4, RestOfSection
<1>6. w \in Writes
  BY <1>5 DEF AllowedWrites
<1>7. w.field \in Fields
  BY <1>6 DEF Writes, Values, Fields, Guard
<1>s. w.field \notin Values =>
        /\ Stored(w) \subseteq SeenBytes
        /\ w.from \subseteq OwnBytes(R) =>
             /\ ReportsOf(Stored(w)) \subseteq {Len(sent)}
             /\ w.from # {} => ReportsOf(Stored(w)) = {Len(sent)}
        /\ BytesOf(Stored(w)) = w.from
  BY <1>3, <1>5, StoredBytes DEF R, StateOrigins
<1>n. \A f \in {"gyro_raw"} \cup Acceleration : f \in Fields \ Values
  BY DEF Fields, Guard, Values, Acceleration
<1>8. /\ todo' \in Seq(RestSections(R)) /\ Len(todo') = Len(todo)
      /\ todo'[1] = Rest(front) /\ Head(todo') = Rest(front)
      /\ \A i \in 2..Len(todo) : todo'[i] = todo[i]
      /\ Len(todo) \in Nat
  <2> DEFINE x == Rest(front)
             S == RestSections(R)
  <2>1. x \in S /\ todo' = <<x>> \o Tail(todo) /\ todo \in Seq(S)
    BY <1>1, <1>3, <1>5
  <2> HIDE DEF x, S
  <2>2. /\ todo' \in Seq(S) /\ Len(todo') = Len(todo) /\ todo'[1] = x
        /\ \A i \in 2..Len(todo) : todo'[i] = todo[i]
        /\ Len(todo) \in Nat /\ 1 \in 1..Len(todo)
    BY <1>2, <2>1, HeadReplaced
  <2>3. Head(todo') = x
    BY <2>2
  <2> QED
    BY <2>2, <2>3 DEF x, S
<1> HIDE DEF value
<1>9. /\ state'[w.field] = value
      /\ \A f \in Fields \ {w.field} : state'[f] = state[f]
  BY <1>1, <1>7 DEF InputInv, ReadThreadInv
<1>10. /\ w.field \in {"gyro_raw", "acc_x"} => value = Stored(w)
       /\ w.field = "ir_enabled" => value \in BOOLEAN
       /\ w.field \notin Values => value \subseteq SeenBytes
  <2>1. w.field = "ir_enabled" => Stored(w) = w.from /\ w.from \in BOOLEAN /\ ~w.keep
    BY <1>6 DEF Stored, Values, Writes
  <2>2. w.field \in {"gyro_raw", "acc_x"} => ~w.keep
    BY <1>5 DEF AllowedWrites
  <2>3. w.field \notin Values => state[w.field] \subseteq SeenBytes
    BY <1>7 DEF StateOrigins, StateTypes
  <2> QED
    BY <1>s, <2>1, <2>2, <2>3 DEF value
<1>11. w.field \in {"gyro_raw"} \cup Acceleration => w.from \subseteq OwnBytes(R)
  BY <1>5 DEF AllowedWrites
<1>12. /\ w.field = "acc_x" => ReportsOf(value) = {Len(sent)}
       /\ w.field = "gyro_raw" => /\ \A s \in value : s.report = Len(sent)
                                  /\ value # {} => /\ ReportsOf(value) = {Len(sent)}
                                                   /\ IsFrame(R, BytesOf(value))
  <2>1. w.field = "acc_x" => w.from # {}
    BY <1>5 DEF AllowedWrites
  <2>2. w.field = "gyro_raw" => w.from = {} \/ IsFrame(R, w.from)
    BY <1>5 DEF AllowedWrites
  <2>3. w.field = "acc_x" => ReportsOf(value) = {Len(sent)}
    BY <1>s, <1>n, <1>10, <1>11, <2>1 DEF Acceleration
  <2>4. ASSUME w.field = "gyro_raw", NEW s \in value PROVE s.report = Len(sent)
    <3>1. s \in Stored(w)
      BY <1>10, <2>4
    <3>2. s.report \in {Len(sent)}
      BY <1>s, <1>n, <1>11, <2>4, <3>1 DEF ReportsOf
    <3> QED
      BY <3>2
  <2>5. ASSUME w.field = "gyro_raw", value # {}
        PROVE  ReportsOf(value) = {Len(sent)} /\ IsFrame(R, BytesOf(value))
    <3>1. value = Stored(w) /\ Stored(w) = {Byte(i) : i \in w.from}
      BY <1>10, <2>5 DEF Stored, Values
    <3>2. w.from # {}
      BY <2>5, <3>1
    <3>3. IsFrame(R, w.from)
      BY <2>2, <2>5, <3>2
    <3>4. BytesOf(value) = w.from /\ ReportsOf(value) = {Len(sent)}
      BY <1>s, <1>n, <1>11, <2>5, <3>1, <3>2
    <3> QED
      BY <3>3, <3>4
  <2> QED
    BY <2>3, <2>4, <2>5
<1> HIDE DEF w, front
<1>13. StateTypes'
  <2>1. SeenBytes' = SeenBytes
    BY <1>1 DEF SeenBytes
  <2>2. state'["ir_enabled"] \in BOOLEAN
    BY <1>9, <1>10 DEF StateOrigins, StateTypes, Fields, Guard
  <2>3. \A f \in Fields \ Values : state'[f] \subseteq SeenBytes
    BY <1>9, <1>10 DEF StateOrigins, StateTypes
  <2>4. \A s \in state'["gyro_raw"] : s.report \in 1..Len(sent)
    BY <1>3, <1>9, <1>12, <1>n DEF StateOrigins, StateTypes
  <2> QED
    BY <1>1, <2>1, <2>2, <2>3, <2>4 DEF StateOrigins, StateTypes
<1>14. BufferInv' /\ (NoInterleaved' <=> NoInterleaved)
  BY <1>1 DEF StateOrigins, BufferInv, LastReport, NoInterleaved
<1>15. GyroFromItsFrame'
  <2> SUFFICES ASSUME state'["gyro_raw"] # {}
               PROVE  \E n \in DOMAIN sent :
                        /\ ReportsOf(state'["gyro_raw"]) = {n}
                        /\ IsFrame(sent[n], BytesOf(state'["gyro_raw"]))
    BY <1>1 DEF GyroFromItsFrame
  <2>1. CASE w.field = "gyro_raw"
    <3>1. /\ ReportsOf(state'["gyro_raw"]) = {Len(sent)}
          /\ IsFrame(R, BytesOf(state'["gyro_raw"]))
      BY <1>9, <1>12, <2>1
    <3>2. Len(sent) \in DOMAIN sent
      BY <1>3 DEF StateOrigins, StateTypes
    <3> QED
      BY <3>1, <3>2 DEF R, LastReport
  <2>2. CASE w.field # "gyro_raw"
    <3>1. state'["gyro_raw"] = state["gyro_raw"]
      BY <1>9, <1>n, <2>2
    <3> QED
      BY <3>1 DEF StateOrigins, GyroFromItsFrame
  <2> QED
    BY <2>1, <2>2
<1>16. SectionsInv'
  <2>1. R' = R
    BY <1>1 DEF R, LastReport
  <2>2. ASSUME NoInterleaved, NEW i \in 1..Len(todo'), todo'[i].accesses \in Begun PROVE i = 1
    BY <1>8, <2>2 DEF StateOrigins, SectionsInv
  <2> QED
    BY <1>1, <1>3, <1>8, <1>14, <2>1, <2>2 DEF SectionsInv, R
<1>17. AccSeen'
  <2> SUFFICES ASSUME NEW k \in 1..Len(sent), sent[k].kind \in AccKinds
               PROVE  \/ \E a \in ReportsOf(state'["acc_x"]) : a >= k
                      \/ k = Len(sent) /\ \E i \in 1..Len(todo') : todo'[i].accesses = AccWrites
    BY <1>1 DEF AccSeen
  <2>1. CASE w.field = "acc_x"
    <3>1. ReportsOf(state'["acc_x"]) = {Len(sent)}
      BY <1>9, <1>12, <2>1
    <3>2. Len(sent) >= k
      BY <1>3
    <3> QED
      BY <3>1, <3>2
  <2>2. CASE w.field # "acc_x"
    <3>1. state'["acc_x"] = state["acc_x"]
      BY <1>9, <1>n, <2>2 DEF Acceleration
    <3>2. ASSUME k = Len(sent), NEW i \in 1..Len(todo), todo[i].accesses = AccWrites
          PROVE  todo'[i].accesses = AccWrites /\ i \in 1..Len(todo')
      <4>1. front.accesses # AccWrites
        <5>1. AccWrites # <<>> /\ Head(AccWrites) = WriteX
          BY DEF AccWrites
        <5>2. WriteX.field = "acc_x"
          BY WriteParts DEF WriteX
        <5> QED
          BY <2>2, <5>1, <5>2 DEF w, front
      <4>2. i # 1
        BY <1>4, <3>2, <4>1
      <4>3. i \in 2..Len(todo)
        BY <1>8, <4>2
      <4> QED
        BY <1>8, <3>2, <4>3
    <3> QED
      BY <3>1, <3>2 DEF StateOrigins, AccSeen
  <2> QED
    BY <2>1, <2>2
<1>18. AccInv'
  <2> SUFFICES ASSUME NoInterleaved PROVE AccInv'
    BY <1>14 DEF AccInv
  <2>1. R.kind \notin InterleavedKinds
    BY <1>3 DEF NoInterleaved
  <2> DEFINE left == Rest(front).accesses
  <2>2. InSection(<<WriteY, WriteZ>>)' <=> left = <<WriteY, WriteZ>>
    BY <1>1, <1>8 DEF InSection
  <2>3. InSection(<<WriteZ>>)' <=> left = <<WriteZ>>
    BY <1>1, <1>8 DEF InSection
  <2>4. InSection(<<WriteY, WriteZ>>) <=> front.accesses = <<WriteY, WriteZ>>
    BY <1>1 DEF InSection, front
  <2>5. InSection(<<WriteZ>>) <=> front.accesses = <<WriteZ>>
    BY <1>1 DEF InSection, front
  <2>6. /\ Len(AccWrites) = 3 /\ Len(<<WriteY, WriteZ>>) = 2 /\ Len(<<WriteZ>>) = 1 /\ Len(<<>>) = 0
    BY DEF AccWrites
  <2>l. Len(sent)' = Len(sent) /\ Len(sent) \in 0..MaxReports
    BY <1>1, <1>3, InputAssumption DEF StateOrigins, StateTypes
  <2>7. CASE /\ w.field \notin Acceleration
             /\ front.accesses \notin Begun /\ left \notin Begun
    <3>1. AccWhole
      BY <2>4, <2>5, <2>7 DEF StateOrigins, AccInv, Begun
    <3>2. \A f \in Acceleration : state'[f] = state[f]
      BY <1>9, <1>n, <2>7
    <3>3. AccWhole'
      BY <3>1, <3>2 DEF AccWhole
    <3> QED
      BY <2>2, <2>3, <2>7, <3>3 DEF AccInv, Begun
  <2>8. CASE front.accesses = AccWrites /\ w = WriteX /\ left = <<WriteY, WriteZ>>
    <3>1. w.field = "acc_x"
      BY <2>8, WriteParts DEF WriteX
    <3>2. ReportsOf(state'["acc_x"]) \subseteq {Len(sent)}
      BY <1>9, <1>12, <3>1
    <3> QED
      BY <2>2, <2>8, <2>l, <3>2 DEF AccInv
  <2>9. CASE front.accesses = <<WriteY, WriteZ>> /\ w = WriteY /\ left = <<WriteZ>>
    <3>1. w.field = "acc_y" /\ ~w.keep
      BY <2>9, WriteParts DEF WriteY
    <3>2. ReportsOf(value) \subseteq {Len(sent)}
      BY <1>s, <1>n, <1>11, <3>1 DEF value, Acceleration
    <3>3. ReportsOf(state["acc_x"]) \subseteq {Len(sent)}
      BY <2>4, <2>5, <2>6, <2>9 DEF StateOrigins, AccInv
    <3>4. state'["acc_x"] = state["acc_x"] /\ state'["acc_y"] = value
      BY <1>9, <1>n, <3>1 DEF Acceleration
    <3> QED
      BY <2>3, <2>9, <2>l, <3>2, <3>3, <3>4 DEF AccInv
  <2>10. CASE front.accesses = <<WriteZ>> /\ w = WriteZ /\ left = <<>>
    <3>1. w.field = "acc_z" /\ ~w.keep
      BY <2>10, WriteParts DEF WriteZ
    <3>2. ReportsOf(value) \subseteq {Len(sent)}
      BY <1>s, <1>n, <1>11, <3>1 DEF value, Acceleration
    <3>3. /\ ReportsOf(state["acc_x"]) \subseteq {Len(sent)}
          /\ ReportsOf(state["acc_y"]) \subseteq {Len(sent)}
      BY <2>4, <2>5, <2>6, <2>10 DEF StateOrigins, AccInv
    <3>4. /\ state'["acc_x"] = state["acc_x"] /\ state'["acc_y"] = state["acc_y"]
          /\ state'["acc_z"] = value
      BY <1>9, <1>n, <3>1 DEF Acceleration
    <3>5. \A f \in Acceleration : ReportsOf(state'[f]) \subseteq {Len(sent)}
      BY <3>2, <3>3, <3>4 DEF Acceleration
    <3>6. AccWhole'
      BY <2>l, <3>5 DEF AccWhole
    <3>7. left # <<WriteY, WriteZ>> /\ left # <<WriteZ>>
      BY <2>6, <2>10
    <3> QED
      BY <2>2, <2>3, <3>6, <3>7 DEF AccInv
  <2> QED
    BY <1>5, <2>1, <2>7, <2>8, <2>9, <2>10
<1> QED
  BY <1>13, <1>14, <1>15, <1>16, <1>17, <1>18 DEF StateOrigins

-----------------------------------------------------------------------------
(* The getters. *)

\* Main's handler takes the mutex of the buttons, then that of the acceleration.
LEMMA ButtonsThenAcc ==
  /\ Len(controller_data) = 4
  /\ controller_data[3].mutex = "m_acc_mutex"
  /\ \A i \in 1..4 : controller_data[i].mutex = "m_button_mutex" => i < 3
<1> DEFINE st == Section("m_status_mutex", <<"battery_very_low", "ir_enabled", "battery_level">>)
           buttons == Section("m_button_mutex", <<"buttons">>)
           acc == Section("m_acc_mutex", <<"acc_calib", "acc_x", "acc_z", "acc_y">>)
           mpls == Section("m_extension_mutex", <<"m_motionplus", "gyro_raw">>)
<1>1. acc.mutex = "m_acc_mutex" /\ mpls.mutex = "m_extension_mutex"
  BY DEF Section
<1>2. /\ get_buttons = <<buttons>> /\ status = <<st>>
      /\ accelerometer = <<acc>> /\ motionplus = <<mpls>>
  BY DEF get_buttons, status, accelerometer, motionplus
<1> HIDE DEF st, buttons, acc, mpls
<1>3. <<st>> \o <<buttons>> \o <<acc>> \o <<mpls>> = <<st, buttons, acc, mpls>>
  <2> DEFINE S == {st, buttons, acc, mpls}
  <2>1. st \in S /\ buttons \in S /\ acc \in S /\ mpls \in S
    OBVIOUS
  <2> HIDE DEF S
  <2> QED
    BY <2>1, FourInTurn
<1>4. controller_data = <<st, buttons, acc, mpls>>
  BY <1>2, <1>3, Zenon DEF controller_data
<1>5. /\ Len(controller_data) = 4 /\ controller_data[3] = acc /\ controller_data[4] = mpls
  BY <1>4
<1>6. \A i \in 1..4 : i < 3 \/ i = 3 \/ i = 4
  OBVIOUS
<1> QED
  BY <1>1, <1>5, <1>6

\* While a getter holds m_acc_mutex, the acceleration is of one report.
LEMMA AccUnderLock ==
  ASSUME InputInv, StateOrigins, NoInterleaved, NEW t \in Callers, holds[t],
         Head(reading[t]).mutex = "m_acc_mutex"
  PROVE  AccWhole
<1>1. CASE ~locked
  BY <1>1 DEF StateOrigins, AccInv, InSection
<1>2. CASE locked
  <2>1. Head(todo).mutex # "m_acc_mutex" /\ todo # <<>>
    BY <1>2 DEF InputInv, KeptApart, ReadThreadInv
  <2>2. sent # <<>> /\ sent \in Seq(Received) /\ todo \in Seq(RestSections(LastReport))
    BY <2>1 DEF StateOrigins, SectionsInv, StateTypes
  <2>3. Head(todo) \in RestSections(LastReport)
    BY <2>1, <2>2, HeadTailProperties
  <2>4. LastReport.kind \notin InterleavedKinds
    <3>1. Len(sent) \in DOMAIN sent
      BY <2>2
    <3> QED
      BY <3>1 DEF NoInterleaved, LastReport
  <2>5. Head(todo).accesses \notin Begun
    BY <2>1, <2>3, <2>4, BegunIsAcc
  <2> QED
    BY <2>5 DEF StateOrigins, AccInv, InSection, Begun
<1> QED
  BY <1>1, <1>2

\* The read thread's steps change nothing of what has been got.
LEMMA ReadThreadCallers ==
  ASSUME StateOrigins, CallOrigins, UNCHANGED callVars,
         UNCHANGED sent \/ \E r \in Received : sent' = Append(sent, r)
  PROVE  CallOrigins'
<1>1. /\ Len(sent) \in Nat /\ Len(sent') \in Nat /\ Len(sent) <= Len(sent')
      /\ \A i \in 1..Len(sent) : sent'[i] = sent[i]
      /\ NoInterleaved' => NoInterleaved
  <2>1. CASE UNCHANGED sent
    <3>1. Len(sent) \in Nat
      BY DEF StateOrigins, StateTypes
    <3> QED
      BY <2>1, <3>1 DEF NoInterleaved
  <2>2. ASSUME NEW r \in Received, sent' = Append(sent, r)
        PROVE  /\ Len(sent) \in Nat /\ Len(sent') \in Nat /\ Len(sent) <= Len(sent')
               /\ \A i \in 1..Len(sent) : sent'[i] = sent[i]
               /\ NoInterleaved' => NoInterleaved
    <3>1. /\ Len(sent) \in Nat /\ Len(sent') = Len(sent) + 1
          /\ \A i \in 1..Len(sent) : sent'[i] = sent[i]
          /\ DOMAIN sent = 1..Len(sent) /\ DOMAIN sent' = 1..Len(sent')
      BY <2>2, SentGrows DEF StateOrigins
    <3>2. Len(sent') \in Nat /\ Len(sent) <= Len(sent') /\ 1..Len(sent) \subseteq 1..Len(sent')
      BY <3>1
    <3>3. NoInterleaved' => NoInterleaved
      BY <3>1, <3>2 DEF NoInterleaved
    <3> QED
      BY <3>1, <3>2, <3>3
  <2> QED
    BY <2>1, <2>2
<1>2. ASSUME NEW t \in Callers PROVE CallerOrigin(t)'
  <2>1. CallerOrigin(t) /\ UNCHANGED <<call, got, reading>>
    BY DEF CallOrigins, callVars
  <2>2. ButtonsFirst(t)'
    BY <2>1 DEF CallerOrigin, ButtonsFirst
  <2>3. ButtonsRead(t)'
    <3>1. 0..Len(sent) \subseteq 0..Len(sent')
      BY <1>1
    <3> QED
      BY <2>1, <3>1 DEF CallerOrigin, ButtonsRead
  <2>4. FromOne(t)'
    BY <1>1, <2>1 DEF CallerOrigin, FromOne
  <2>5. NotBehind(t)'
    <3> SUFFICES ASSUME call[t] = "controller_data", {"buttons", "acc_x"} \subseteq DOMAIN got[t],
                        NEW b \in ReportsOf(got[t]["buttons"]), NEW r \in 1..MaxReports,
                        r < b, sent'[r].kind \in AccKinds
                 PROVE  \E a \in ReportsOf(got[t]["acc_x"]) : a >= r
      BY <2>1 DEF NotBehind
    <3>1. b \in 0..Len(sent)
      BY <2>1 DEF CallerOrigin, ButtonsRead
    <3>2. r \in 1..Len(sent)
      BY <1>1, <3>1, InputAssumption
    <3>3. sent[r].kind \in AccKinds
      BY <1>1, <3>2
    <3> QED
      BY <2>1, <3>3 DEF CallerOrigin, NotBehind
  <2> QED
    BY <2>2, <2>3, <2>4, <2>5 DEF CallerOrigin
<1> QED
  BY <1>2 DEF CallOrigins, callVars

\* A caller whose getter is where it was has what it had.
LEMMA SameCaller ==
  ASSUME NEW t \in Callers, CallerOrigin(t), UNCHANGED readVars,
         call'[t] = call[t], reading'[t] = reading[t], got'[t] = got[t]
  PROVE  CallerOrigin(t)'
  BY DEF CallerOrigin, ButtonsFirst, ButtonsRead, FromOne, NotBehind, NoInterleaved, readVars

LEMMA StateKept ==
  ASSUME StateOrigins, UNCHANGED readVars
  PROVE  StateOrigins'
  BY DEF StateOrigins, StateTypes, SeenBytes, BufferInv, LastReport, SectionsInv, NoInterleaved,
         AccInv, AccWhole, InSection, AccSeen, GyroFromItsFrame, readVars

\* A getter that has read nothing yet.
LEMMA NothingRead ==
  ASSUME NEW t \in Callers, DOMAIN got'[t] = {}, ButtonsFirst(t)'
  PROVE  CallerOrigin(t)'
<1>1. Acceleration # {}
  BY DEF Acceleration
<1> QED
  BY <1>1 DEF CallerOrigin, ButtonsRead, FromOne, NotBehind

LEMMA CallGetterOrigins ==
  ASSUME InputInv, StateOrigins, CallOrigins, NEW t \in Callers, NEW g \in Called, CallGetter(t, g)
  PROVE  CallOrigins'
<1>1. /\ UNCHANGED readVars /\ UNCHANGED <<holds, got>> /\ call[t] = "none"
      /\ call' = [call EXCEPT ![t] = g] /\ reading' = [reading EXCEPT ![t] = Getter[g]]
  BY DEF CallGetter
<1>2. /\ call' \in [Callers -> Called \cup {"none"}] /\ call'[t] = g /\ reading'[t] = Getter[g]
      /\ \A u \in Callers \ {t} : call'[u] = call[u] /\ reading'[u] = reading[u]
  BY <1>1 DEF CallOrigins, InputInv, CallersInv
<1>3. DOMAIN got'[t] = {}
  BY <1>1 DEF InputInv, CallersInv
<1>4. ButtonsFirst(t)'
  <2> SUFFICES ASSUME g = "controller_data",
                      NEW i \in 1..Len(Getter[g]), Getter[g][i].mutex = "m_button_mutex"
               PROVE  \E j \in 1..Len(Getter[g]) : i < j /\ Getter[g][j].mutex = "m_acc_mutex"
    BY <1>2 DEF ButtonsFirst
  <2>1. Getter[g] = controller_data
    BY DEF Getter
  <2>2. 3 \in 1..4
    OBVIOUS
  <2> QED
    BY <2>1, <2>2, ButtonsThenAcc
<1>5. \A u \in Callers \ {t} : CallerOrigin(u)'
  BY <1>1, <1>2, SameCaller DEF CallOrigins
<1> QED
  BY <1>2, <1>3, <1>4, <1>5, NothingRead DEF CallOrigins

LEMMA LockSharedOrigins ==
  ASSUME CallOrigins, NEW t \in Callers, LockShared(t)
  PROVE  CallOrigins'
  BY SameCaller DEF LockShared, CallOrigins

LEMMA UnlockSharedOrigins ==
  ASSUME InputInv, CallOrigins, NEW t \in Callers, UnlockShared(t)
  PROVE  CallOrigins'
<1>1. /\ UNCHANGED readVars /\ holds[t]
      /\ reading' = [reading EXCEPT ![t] = Tail(reading[t])]
      /\ IF Len(reading[t]) = 1
           THEN call' = [call EXCEPT ![t] = "none"] /\ got' = [got EXCEPT ![t] = Nothing]
           ELSE UNCHANGED <<call, got>>
  BY DEF UnlockShared, EndSection
<1>2. reading[t] \in Seq(ReadSections) /\ reading[t] # <<>>
  BY <1>1 DEF InputInv, CallersInv
<1> DEFINE left == Tail(reading[t])
<1>3. /\ Len(left) = Len(reading[t]) - 1
      /\ \A i \in 1..Len(left) : left[i] = reading[t][i + 1]
      /\ Len(reading[t]) \in Nat
  BY <1>2, NextRead, LenProperties
<1> HIDE DEF left
<1>4. /\ call' \in [Callers -> Called \cup {"none"}] /\ reading'[t] = left
      /\ \A u \in Callers \ {t} :
           call'[u] = call[u] /\ reading'[u] = reading[u] /\ got'[u] = got[u]
  BY <1>1 DEF CallOrigins, InputInv, CallersInv, left
<1>5. CallerOrigin(t)'
  <2>1. CASE Len(reading[t]) = 1
    <3>1. call'[t] = "none" /\ got'[t] = Nothing
      BY <1>1, <2>1 DEF CallOrigins, InputInv, CallersInv
    <3>2. DOMAIN got'[t] = {} /\ ButtonsFirst(t)'
      BY <3>1 DEF Nothing, ButtonsFirst
    <3> QED
      BY <3>2, NothingRead
  <2>2. CASE Len(reading[t]) # 1
    <3>1. UNCHANGED <<call, got>> /\ CallerOrigin(t)
      BY <1>1, <2>2 DEF CallOrigins
    <3>2. ButtonsFirst(t)'
      <4> SUFFICES ASSUME call[t] = "controller_data",
                          NEW i \in 1..Len(left), left[i].mutex = "m_button_mutex"
                   PROVE  \E j \in 1..Len(left) : i < j /\ left[j].mutex = "m_acc_mutex"
        BY <1>4, <3>1 DEF ButtonsFirst
      <4>1. i + 1 \in 1..Len(reading[t]) /\ reading[t][i + 1].mutex = "m_button_mutex"
        BY <1>3
      <4>2. PICK k \in 1..Len(reading[t]) : i + 1 < k /\ reading[t][k].mutex = "m_acc_mutex"
        BY <3>1, <4>1 DEF CallerOrigin, ButtonsFirst
      <4>3. k - 1 \in 1..Len(left) /\ i < k - 1 /\ (k - 1) + 1 = k
        BY <1>3, <4>2
      <4> QED
        BY <1>3, <4>2, <4>3
    <3> QED
      BY <1>1, <3>1, <3>2
      DEF CallerOrigin, ButtonsRead, FromOne, NotBehind, NoInterleaved, readVars
  <2> QED
    BY <2>1, <2>2
<1>6. \A u \in Callers \ {t} : CallerOrigin(u)'
  BY <1>1, <1>4, SameCaller DEF CallOrigins
<1> QED
  BY <1>4, <1>5, <1>6 DEF CallOrigins

\* The acceleration is read under its mutex, so it is of one report; the buttons are
\* read before it and are not newer than the last report.
LEMMA ReadFieldOrigins ==
  ASSUME InputInv, StateOrigins, CallOrigins, NEW t \in Callers, ReadField(t)
  PROVE  CallOrigins'
<1> DEFINE f == Head(Head(reading[t]).accesses)
           stop == <<[Head(reading[t]) EXCEPT !.accesses = <<>>]>>
           next == <<Rest(Head(reading[t]))>> \o Tail(reading[t])
<1>1. /\ UNCHANGED readVars /\ UNCHANGED <<call, holds>> /\ holds[t]
      /\ Head(reading[t]).accesses # <<>>
      /\ got' = [got EXCEPT ![t] = [x \in DOMAIN got[t] \cup {f} |->
                                      IF x = f THEN state[f] ELSE got[t][x]]]
      /\ \/ /\ reading' = [reading EXCEPT ![t] = stop]
            /\ ReturnsNothing(call[t], f, state[f])
         \/ reading' = [reading EXCEPT ![t] = next]
  BY DEF ReadField
<1>2. reading[t] \in Seq(ReadSections) /\ reading[t] # <<>>
  BY <1>1 DEF InputInv, CallersInv
<1>3. /\ f \in Fields /\ Guard[f] = Head(reading[t]).mutex
      /\ Head(reading[t]) = reading[t][1] /\ 1 \in 1..Len(reading[t])
      /\ Len(stop) = 1 /\ stop[1].mutex = reading[t][1].mutex
      /\ Len(next) = Len(reading[t])
      /\ \A i \in 1..Len(reading[t]) : next[i].mutex = reading[t][i].mutex
  BY <1>1, <1>2, NextRead
<1> HIDE DEF f, stop, next
<1>4. /\ \/ reading'[t] = stop /\ ReturnsNothing(call[t], f, state[f])
         \/ reading'[t] = next
      /\ \A u \in Callers \ {t} : reading'[u] = reading[u]
  BY <1>1 DEF InputInv, CallersInv
<1>5. /\ DOMAIN got'[t] = DOMAIN got[t] \cup {f} /\ got'[t][f] = state[f]
      /\ \A x \in DOMAIN got[t] \ {f} : got'[t][x] = got[t][x]
      /\ \A u \in Callers \ {t} : got'[u] = got[u]
  BY <1>1 DEF InputInv, CallersInv
<1>6. CallerOrigin(t)
  BY DEF CallOrigins
\* What was read of another field under the same mutex has not changed since.
<1>7. \A x \in DOMAIN got'[t] : Guard[x] = Guard[f] /\ Guard[f] # "m_extension_mutex" =>
        got'[t][x] = state[x]
  <2> SUFFICES ASSUME NEW x \in DOMAIN got[t], x # f, Guard[x] = Guard[f],
                      Guard[f] # "m_extension_mutex"
               PROVE  got[t][x] = state[x]
    BY <1>5
  <2>1. x \in HeldBy(t)
    BY <1>1, <1>3 DEF HeldBy
  <2> QED
    BY <2>1 DEF InputInv, Snapshot
<1>8. ButtonsFirst(t)'
  <2> SUFFICES ASSUME call[t] = "controller_data",
                      NEW i \in 1..Len(reading'[t]), reading'[t][i].mutex = "m_button_mutex"
               PROVE  \E j \in 1..Len(reading'[t]) :
                        i < j /\ reading'[t][j].mutex = "m_acc_mutex"
    BY <1>1 DEF ButtonsFirst
  <2>1. CASE reading'[t] = next
    BY <1>3, <1>6, <2>1 DEF CallerOrigin, ButtonsFirst
  <2>2. CASE reading'[t] = stop /\ ReturnsNothing(call[t], f, state[f])
    <3>1. f = "m_motionplus"
      BY <2>2 DEF ReturnsNothing
    <3>2. stop[1].mutex = "m_extension_mutex"
      BY <1>3, <3>1 DEF Guard
    <3>3. Len(reading'[t]) = 1 /\ \A k \in 1..1 : k = 1
      BY <1>3, <2>2
    <3>4. i = 1
      BY <3>3
    <3> QED
      BY <2>2, <3>2, <3>4
  <2> QED
    BY <1>4, <2>1, <2>2
<1>9. ButtonsRead(t)'
  <2> SUFFICES ASSUME "buttons" \in DOMAIN got'[t]
               PROVE  ReportsOf(got'[t]["buttons"]) \subseteq 0..Len(sent)
    BY <1>1 DEF ButtonsRead, readVars
  <2>1. CASE f = "buttons"
    <3>1. "buttons" \in Fields \ Values
      BY DEF Fields, Guard, Values
    <3>2. state["buttons"] \subseteq SeenBytes
      BY <3>1 DEF StateOrigins, StateTypes
    <3> QED
      BY <1>5, <2>1, <3>2 DEF ReportsOf, SeenBytes
  <2>2. CASE f # "buttons"
    BY <1>5, <1>6, <2>2 DEF CallerOrigin, ButtonsRead
  <2> QED
    BY <2>1, <2>2
<1>10. \A x \in Acceleration : Guard[x] = "m_acc_mutex"
  BY DEF Acceleration, Guard
<1>11. FromOne(t)'
  <2> SUFFICES ASSUME NoInterleaved, Acceleration \subseteq DOMAIN got'[t]
               PROVE  \E n \in 0..MaxReports :
                        \A x \in Acceleration : ReportsOf(got'[t][x]) \subseteq {n}
    BY <1>1 DEF FromOne, NoInterleaved, readVars
  <2>1. CASE f \in Acceleration
    <3>1. AccWhole
      BY <1>1, <1>3, <1>10, <2>1, AccUnderLock
    <3>2. \A x \in Acceleration : got'[t][x] = state[x]
      BY <1>7, <1>10, <2>1
    <3> QED
      BY <3>1, <3>2 DEF AccWhole
  <2>2. CASE f \notin Acceleration
    <3>1. \A x \in Acceleration : x \in DOMAIN got[t] /\ got'[t][x] = got[t][x]
      BY <1>5, <2>2
    <3>2. FromOne(t) /\ Acceleration \subseteq DOMAIN got[t]
      BY <1>6, <3>1 DEF CallerOrigin
    <3> QED
      BY <3>1, <3>2 DEF FromOne
  <2> QED
    BY <2>1, <2>2
<1>12. NotBehind(t)'
  <2> SUFFICES ASSUME call[t] = "controller_data", {"buttons", "acc_x"} \subseteq DOMAIN got'[t],
                      NEW b \in ReportsOf(got'[t]["buttons"]), NEW r \in 1..MaxReports,
                      r < b, sent[r].kind \in AccKinds
               PROVE  \E a \in ReportsOf(got'[t]["acc_x"]) : a >= r
    BY <1>1 DEF NotBehind, readVars
  <2>1. CASE f = "acc_x"
    <3>1. b \in 0..Len(sent)
      BY <1>9, <1>1 DEF ButtonsRead, readVars
    <3>2. Len(sent) \in Nat
      BY DEF StateOrigins, StateTypes
    <3>3. r \in 1..Len(sent) /\ r # Len(sent)
      BY <3>1, <3>2, InputAssumption
    <3>4. \E a \in ReportsOf(state["acc_x"]) : a >= r
      BY <3>3 DEF StateOrigins, AccSeen
    <3> QED
      BY <1>5, <2>1, <3>4
  <2>2. CASE f = "buttons"
    <3>1. reading[t][1].mutex = "m_button_mutex"
      BY <1>3, <2>2 DEF Guard
    <3>2. PICK j \in 1..Len(reading[t]) : 1 < j /\ reading[t][j].mutex = "m_acc_mutex"
      BY <1>3, <1>6, <3>1 DEF CallerOrigin, ButtonsFirst
    <3>3. "acc_x" \in DOMAIN got[t] /\ Guard["acc_x"] = reading[t][j].mutex
      BY <1>5, <2>2, <3>2 DEF Guard
    <3>4. j = 1
      BY <3>3 DEF InputInv, CallersInv
    <3> QED
      BY <3>2, <3>4
  <2>3. CASE f # "acc_x" /\ f # "buttons"
    <3>1. /\ {"buttons", "acc_x"} \subseteq DOMAIN got[t]
          /\ got'[t]["buttons"] = got[t]["buttons"] /\ got'[t]["acc_x"] = got[t]["acc_x"]
      BY <1>5, <2>3
    <3> QED
      BY <1>6, <3>1 DEF CallerOrigin, NotBehind
  <2> QED
    BY <2>1, <2>2, <2>3
<1>13. CallerOrigin(t)'
  BY <1>8, <1>9, <1>11, <1>12 DEF CallerOrigin
<1>14. \A u \in Callers \ {t} : CallerOrigin(u)'
  BY <1>1, <1>4, <1>5, SameCaller DEF CallOrigins
<1> QED
  BY <1>1, <1>13, <1>14 DEF CallOrigins

LEMMA InitOrigins ==
  ASSUME Init
  PROVE  StateOrigins /\ CallOrigins
<1>1. /\ sent = <<>> /\ todo = <<>> /\ ~locked
      /\ buffer = [i \in 0..(MAX_MESSAGE_LENGTH - 1) |-> 0]
      /\ call = [t \in Callers |-> "none"] /\ got = [t \in Callers |-> Nothing]
      /\ \A f \in Fields \ Values : state[f] = {}
      /\ state["ir_enabled"] = FALSE
  <2>1. \A f \in Fields \ Values : f # "m_extension" /\ f # "m_motionplus" /\ f # "ir_enabled"
    BY DEF Values
  <2>2. "ir_enabled" \in Fields
    BY DEF Fields, Guard
  <2> QED
    BY <2>1, <2>2 DEF Init
<1>2. sent \in Seq(Received) /\ Len(sent) = 0 /\ 1..Len(sent) = {} /\ 0 \in 0..MaxReports
  BY <1>1, InputAssumption
<1>3. /\ "gyro_raw" \in Fields \ Values
      /\ \A f \in Acceleration : f \in Fields \ Values
  BY DEF Fields, Guard, Values, Acceleration
<1>4. StateTypes
  <2>1. 0 \in 0..Len(sent) /\ Len(sent) <= MaxReports
    BY <1>2, InputAssumption
  <2>2. buffer \in [0..(MAX_MESSAGE_LENGTH - 1) -> 0..Len(sent)]
    BY <1>1, <2>1
  <2>3. \A f \in Fields \ Values : state[f] \subseteq SeenBytes
    BY <1>1
  <2>4. state["gyro_raw"] = {} /\ state["ir_enabled"] \in BOOLEAN
    BY <1>1, <1>3
  <2> QED
    BY <1>2, <2>1, <2>2, <2>3, <2>4 DEF StateTypes
<1>5. BufferInv /\ SectionsInv /\ AccSeen /\ GyroFromItsFrame
  BY <1>1, <1>2, <1>3 DEF BufferInv, SectionsInv, AccSeen, GyroFromItsFrame
<1>6. AccWhole
  BY <1>1, <1>2, <1>3 DEF AccWhole, ReportsOf
<1>7. AccInv
  BY <1>1, <1>6 DEF AccInv, InSection
<1>8. CallOrigins
  <2> SUFFICES ASSUME NEW t \in Callers PROVE CallerOrigin(t)
    BY <1>1 DEF CallOrigins
  <2>1. call[t] = "none" /\ DOMAIN got[t] = {} /\ Acceleration # {}
    BY <1>1 DEF Nothing, Acceleration
  <2> QED
    BY <2>1 DEF CallerOrigin, ButtonsFirst, ButtonsRead, FromOne, NotBehind
<1> QED
  BY <1>4, <1>5, <1>7, <1>8 DEF StateOrigins

\* Where the fields of the state and what the getters have read come from, through
\* every interleaving of the read thread's sections with the getters.
THEOREM OriginsInvariant == Spec => [](StateOrigins /\ CallOrigins)
<1> DEFINE Origins == StateOrigins /\ CallOrigins
<1>1. ASSUME InputInv, Origins, [Next]_vars PROVE Origins'
  <2>1. CASE UNCHANGED vars
    <3>1. UNCHANGED readVars /\ UNCHANGED callVars
      BY <2>1 DEF vars
    <3>2. UNCHANGED sent
      BY <3>1 DEF readVars
    <3> QED
      BY <1>1, <3>1, <3>2, StateKept, ReadThreadCallers
  <2>2. ASSUME NEW r \in Received, ReadReport(r) PROVE Origins'
    <3>1. UNCHANGED callVars /\ sent' = Append(sent, r)
      BY <2>2 DEF ReadReport
    <3> QED
      BY <1>1, <2>2, <3>1, ReadReportOrigins, ReadThreadCallers
  <2>3. CASE Handle
    <3>1. UNCHANGED callVars /\ UNCHANGED sent
      BY <2>3 DEF Handle, Lock, WriteField, Unlock
    <3>2. StateOrigins'
      BY <1>1, <2>3, LockOrigins, WriteFieldOrigins, UnlockOrigins DEF Handle
    <3> QED
      BY <1>1, <3>1, <3>2, ReadThreadCallers
  <2>4. ASSUME NEW t \in Callers, Get(t) \/ \E g \in Called : CallGetter(t, g) PROVE Origins'
    <3>1. UNCHANGED readVars
      BY <2>4 DEF Get, LockShared, ReadField, UnlockShared, EndSection, CallGetter
    <3>2. CallOrigins'
      BY <1>1, <2>4, LockSharedOrigins, ReadFieldOrigins, UnlockSharedOrigins,
         CallGetterOrigins DEF Get
    <3> QED
      BY <1>1, <3>1, <3>2, StateKept
  <2> QED
    BY <1>1, <2>1, <2>2, <2>3, <2>4 DEF Next
<1>2. Init => Origins
  BY InitOrigins
<1> QED
  BY <1>1, <1>2, InputInvariant, PTL DEF Spec

\* The types of everything the read thread and the getters share, whatever reports
\* arrive: a field is always made of bytes that a buffer of 22 and its end can give.
THEOREM InputTypes == Spec => []TypeOK
<1>1. InputInv /\ StateOrigins /\ CallOrigins => TypeOK
  <2> SUFFICES ASSUME InputInv, StateOrigins, CallOrigins PROVE TypeOK
    OBVIOUS
  <2>1. SeenBytes \subseteq Bytes
    <3>1. Len(sent) \in Nat /\ Len(sent) <= MaxReports
      BY DEF StateOrigins, StateTypes
    <3>2. 0..Len(sent) \subseteq 0..MaxReports
      BY <3>1, InputAssumption
    <3> QED
      BY <3>2 DEF SeenBytes, Bytes
  <2>2. \A f \in Fields \ Values : state[f] \subseteq Bytes
    BY <2>1 DEF StateOrigins, StateTypes
  <2>3. DOMAIN state = Fields
    BY DEF InputInv, ReadThreadInv
  <2> QED
    BY <2>2, <2>3 DEF TypeOK, StateOrigins, StateTypes, CallOrigins, InputInv, ReadThreadInv,
                      CallersInv
<1> QED
  BY <1>1, InputInvariant, OriginsInvariant, PTL

\* What is taken for angular velocity was sent as such (wiimote_handle.cpp:332), also
\* with frames of the nunchuk passed through and reports of every length in between:
\* the six bytes of one report, from where the name of its kind has its frame.
THEOREM GyroComesFromItsFrame == Spec => []GyroFromItsFrame
<1>1. StateOrigins => GyroFromItsFrame
  BY DEF StateOrigins
<1> QED
  BY <1>1, OriginsInvariant, PTL

\* As long as no interleaved report is received, a caller that has read the three axes
\* has them of one report, however the read thread writes them between its reads.
THEOREM AccIsOfOneReport == Spec => []AccFromOneReport
<1>1. CallOrigins => AccFromOneReport
  BY DEF CallOrigins, CallerOrigin, FromOne, NoInterleaved, AccFromOneReport
<1> QED
  BY <1>1, OriginsInvariant, PTL

\* What main.cpp sends to a client has an acceleration that is not older than the last
\* report with one before that of the buttons (main.cpp:68, 83).
THEOREM AccIsNotLeftBehind == Spec => []AccNotLeftBehind
<1>1. CallOrigins => AccNotLeftBehind
  BY DEF CallOrigins, CallerOrigin, NotBehind, AccNotLeftBehind
<1> QED
  BY <1>1, OriginsInvariant, PTL

-----------------------------------------------------------------------------
(***************************************************************************)
(* DecodedAsNamed.  The name of a report's kind says which writes its      *)
(* handling has to make and which it may make, depending on what is        *)
(* plugged in.  What is left to be handled makes no other write of these   *)
(* fields, and a write that has to be made is made or still to come.       *)
(***************************************************************************)
AccNamed == {"BUTTONS_ACC", "BUTTONS_ACC_IR_12B", "BUTTONS_ACC_EXT_16B"}

ButtonsWrite  == Write("buttons", {1, 2})
DotWrite(i)   == Write(Dots[i], (3 * i + 3)..(3 * i + 5))
ExtWrites(at) == {Write("nunchuk", at..(at + 5)), Write("nunchuk_low", {at + 5}),
                  Write("gyro_raw", at..(at + 5))}

MustWrites(kind) ==
  {ButtonsWrite}
    \cup (IF kind \in AccNamed THEN {WriteX, WriteY, WriteZ} ELSE {})
    \cup (IF kind = "BUTTONS_ACC_IR_12B" THEN {DotWrite(i) : i \in 1..4} ELSE {})
MayWrites(kind) ==
  IF kind \in {"BUTTONS_EXT_8B", "BUTTONS_EXT_19B"} THEN ExtWrites(3)
  ELSE IF kind = "BUTTONS_ACC_EXT_16B" THEN ExtWrites(6) ELSE {}
NamedWrites(kind) == MustWrites(kind) \cup MayWrites(kind)

\* The writes that do not contradict the name of the kind.
InKeeping(kind) ==
  {w \in Writes : \A x \in NamedWrites(kind) : w.field = x.field => w = x}
NamedSections(kind) == [mutex : Mutexes, accesses : Seq(InKeeping(kind))]

\* Sections that do not contradict it, and in which all of X comes up.
ComesUp(x, sections) ==
  \E i \in 1..Len(sections) :
    \E j \in 1..Len(sections[i].accesses) : sections[i].accesses[j] = x
Leads(kind, X) == {s \in Seq(NamedSections(kind)) : \A x \in X : ComesUp(x, s)}

Own(x) == {[byte |-> b, report |-> Len(sent)] : b \in x.from}
Done(x) == state[x.field] = Own(x)
Untouched(x) == \A s \in state[x.field] : s.report # Len(sent)
Pending(x) == ComesUp(x, todo)

NamedInv ==
  sent # <<>> =>
    /\ todo # <<>> => todo \in Seq(NamedSections(LastReport.kind))
    /\ \A x \in MustWrites(LastReport.kind) : Done(x) \/ Pending(x)
    /\ \A x \in MayWrites(LastReport.kind) : Done(x) \/ Untouched(x)

LEMMA NamedFields ==
  ASSUME NEW kind, NEW x \in NamedWrites(kind)
  PROVE  /\ x.field \in Fields \ Values /\ ~x.keep /\ x \in Writes
         /\ x = Write(x.field, x.from)
         /\ \/ x = ButtonsWrite /\ x.field = "buttons"
            \/ x \in {WriteX, WriteY, WriteZ} /\ x.field \in Acceleration /\ kind \in AccNamed
            \/ /\ x \in {DotWrite(i) : i \in 1..4} /\ x.field \in {"dot1", "dot2", "dot3", "dot4"}
               /\ kind = "BUTTONS_ACC_IR_12B"
            \/ /\ x \in MayWrites(kind) /\ x.field \in {"nunchuk", "nunchuk_low", "gyro_raw"}
               /\ kind \in {"BUTTONS_EXT_8B", "BUTTONS_EXT_19B", "BUTTONS_ACC_EXT_16B"}
<1>1. ASSUME NEW f \in Fields \ Values, NEW from \in SUBSET Nat
      PROVE  /\ Write(f, from).field = f /\ Write(f, from).from = from /\ ~Write(f, from).keep
             /\ Write(f, from) \in Writes
  BY DEF Write, Writes
<1>2. \A f \in {"buttons", "acc_x", "acc_y", "acc_z", "dot1", "dot2", "dot3", "dot4", "nunchuk",
                "nunchuk_low", "gyro_raw"} : f \in Fields \ Values
  BY DEF Fields, Guard, Values
<1>3. CASE x = ButtonsWrite
  <2>1. {1, 2} \in SUBSET Nat
    OBVIOUS
  <2> QED
    BY <1>1, <1>2, <1>3, <2>1 DEF ButtonsWrite
<1>4. CASE x \in {WriteX, WriteY, WriteZ} /\ kind \in AccNamed
  <2>1. {1, 3} \in SUBSET Nat /\ {2, 4} \in SUBSET Nat /\ {2, 5} \in SUBSET Nat
    OBVIOUS
  <2> QED
    BY <1>1, <1>2, <1>4, <2>1 DEF WriteX, WriteY, WriteZ, Acceleration
<1>5. CASE x \in {DotWrite(i) : i \in 1..4} /\ kind = "BUTTONS_ACC_IR_12B"
  <2>1. PICK i \in 1..4 : x = DotWrite(i)
    BY <1>5
  <2>2. (3 * i + 3)..(3 * i + 5) \in SUBSET Nat
    OBVIOUS
  <2>3. Dots[i] \in {"dot1", "dot2", "dot3", "dot4"}
    BY DEF Dots
  <2> QED
    BY <1>1, <1>2, <1>5, <2>1, <2>2, <2>3 DEF DotWrite
<1>6. CASE x \in MayWrites(kind)
  <2>1. PICK at \in {3, 6} : x \in ExtWrites(at)
    BY <1>6 DEF MayWrites
  <2>2. at..(at + 5) \in SUBSET Nat /\ {at + 5} \in SUBSET Nat
    BY <2>1
  <2>3. kind \in {"BUTTONS_EXT_8B", "BUTTONS_EXT_19B", "BUTTONS_ACC_EXT_16B"}
    BY <1>6 DEF MayWrites
  <2> QED
    BY <1>1, <1>2, <1>6, <2>1, <2>2, <2>3 DEF ExtWrites
<1> QED
  BY <1>3, <1>4, <1>5, <1>6 DEF NamedWrites, MustWrites

\* There is one write for each of the fields.
LEMMA NamedOnce ==
  ASSUME NEW kind, NEW x \in NamedWrites(kind), NEW y \in NamedWrites(kind), x.field = y.field
  PROVE  x = y
<1> DEFINE ext == {"nunchuk", "nunchuk_low", "gyro_raw"}
           dots == {"dot1", "dot2", "dot3", "dot4"}
<1>1. CASE x.field = "buttons"
  BY <1>1, NamedFields DEF Acceleration
<1>2. CASE x.field \in Acceleration
  <2>1. x \in {WriteX, WriteY, WriteZ} /\ y \in {WriteX, WriteY, WriteZ}
    BY <1>2, NamedFields DEF Acceleration
  <2>2. WriteX.field = "acc_x" /\ WriteY.field = "acc_y" /\ WriteZ.field = "acc_z"
    BY WriteParts DEF WriteX, WriteY, WriteZ
  <2> QED
    BY <2>1, <2>2
<1>3. CASE x.field \in dots
  <2>1. x \in {DotWrite(i) : i \in 1..4} /\ y \in {DotWrite(i) : i \in 1..4}
    BY <1>3, NamedFields DEF Acceleration
  <2>2. PICK i \in 1..4, j \in 1..4 : x = DotWrite(i) /\ y = DotWrite(j)
    BY <2>1
  <2>3. Dots[i] = Dots[j]
    BY <2>2, WriteParts DEF DotWrite
  <2>4. i = j
    BY <2>3 DEF Dots
  <2> QED
    BY <2>2, <2>4
<1>4. CASE x.field \in ext
  <2>1. x \in MayWrites(kind) /\ y \in MayWrites(kind)
    BY <1>4, NamedFields DEF Acceleration
  <2>2. PICK at \in {3, 6} : MayWrites(kind) = ExtWrites(at)
    BY <2>1 DEF MayWrites
  <2>3. \A a : /\ Write("nunchuk", a).field = "nunchuk"
               /\ Write("nunchuk_low", a).field = "nunchuk_low"
               /\ Write("gyro_raw", a).field = "gyro_raw"
    BY WriteParts
  <2> QED
    BY <2>1, <2>2, <2>3 DEF ExtWrites
<1> QED
  BY <1>1, <1>2, <1>3, <1>4, NamedFields

LEMMA NamedKept ==
  ASSUME NEW kind
  PROVE  /\ NamedWrites(kind) \subseteq InKeeping(kind)
         /\ ButtonsWrite \in InKeeping(kind)
<1>1. NamedWrites(kind) \subseteq InKeeping(kind)
  BY NamedFields, NamedOnce DEF InKeeping
<1> QED
  BY <1>1 DEF NamedWrites, MustWrites

-----------------------------------------------------------------------------
(* The handlers make the writes that the kind names. *)

LEMMA LeadsInTurn ==
  ASSUME NEW kind, NEW X, NEW Y, NEW s \in Leads(kind, X), NEW u \in Leads(kind, Y)
  PROVE  s \o u \in Leads(kind, X \cup Y)
<1> DEFINE S == NamedSections(kind)
<1>1. s \in Seq(S) /\ u \in Seq(S)
  BY DEF Leads
<1> HIDE DEF S
<1>2. /\ s \o u \in Seq(S) /\ Len(s \o u) = Len(s) + Len(u)
      /\ Len(s) \in Nat /\ Len(u) \in Nat
      /\ \A i \in 1..Len(s) + Len(u) :
           (s \o u)[i] = IF i <= Len(s) THEN s[i] ELSE u[i - Len(s)]
  BY <1>1, ConcatProperties, LenProperties
<1>3. ASSUME NEW i \in 1..Len(s)
      PROVE  i \in 1..Len(s \o u) /\ (s \o u)[i] = s[i]
  <2>1. i \in 1..Len(s) + Len(u) /\ i <= Len(s)
    BY <1>2
  <2> QED
    BY <1>2, <2>1
<1>4. ASSUME NEW i \in 1..Len(u)
      PROVE  Len(s) + i \in 1..Len(s \o u) /\ (s \o u)[Len(s) + i] = u[i]
  <2>1. Len(s) + i \in 1..Len(s) + Len(u) /\ ~(Len(s) + i <= Len(s)) /\ (Len(s) + i) - Len(s) = i
    BY <1>2
  <2> QED
    BY <1>2, <2>1
<1>5. \A x \in X : ComesUp(x, s \o u)
  BY <1>3 DEF Leads, ComesUp
<1>6. ASSUME NEW x \in Y PROVE ComesUp(x, s \o u)
  <2>1. PICK i \in 1..Len(u) : \E j \in 1..Len(u[i].accesses) : u[i].accesses[j] = x
    BY DEF Leads, ComesUp
  <2>2. Len(s) + i \in 1..Len(s \o u) /\ (s \o u)[Len(s) + i] = u[i]
    BY <1>4
  <2> DEFINE k == Len(s) + i
             both == s \o u
  <2> HIDE DEF k, both
  <2>3. k \in 1..Len(both) /\ \E j \in 1..Len(both[k].accesses) : both[k].accesses[j] = x
    BY <2>1, <2>2 DEF k, both
  <2> QED
    BY <2>3 DEF ComesUp, both
<1> QED
  BY <1>2, <1>5, <1>6 DEF Leads, S

\* A section of which every write is named, or of which none is.
LEMMA NamedSection ==
  ASSUME NEW kind, NEW mutex \in Mutexes, NEW s \in Seq(InKeeping(kind)),
         NEW X, \A x \in X : \E j \in 1..Len(s) : s[j] = x
  PROVE  <<Section(mutex, s)>> \in Leads(kind, X)
<1> DEFINE one == Section(mutex, s)
<1>1. one \in NamedSections(kind) /\ one.accesses = s
  BY DEF Section, NamedSections
<1> DEFINE S == NamedSections(kind)
<1> HIDE DEF one, S
<1>2. <<one>> \in Seq(S) /\ Len(<<one>>) = 1 /\ <<one>>[1] = one /\ 1 \in 1..1
  BY <1>1 DEF S
<1>3. \A x \in X : ComesUp(x, <<one>>)
  BY <1>1, <1>2 DEF ComesUp
<1> QED
  BY <1>2, <1>3 DEF Leads, one, S

LEMMA OtherSection ==
  ASSUME NEW kind, NEW mutex, NEW s, <<Section(mutex, s)>> \in Seq(WriteSections),
         \A x \in NamedWrites(kind) : Guard[x.field] \notin {mutex, "m_extension_mutex"}
  PROVE  <<Section(mutex, s)>> \in Leads(kind, {})
<1> DEFINE one == Section(mutex, s)
<1>1. one \in WriteSections
  <2> DEFINE S == WriteSections
  <2> HIDE DEF one, S
  <2>1. <<one>> \in Seq(S) /\ Len(<<one>>) = 1 /\ <<one>>[1] = one
    BY DEF one, S
  <2> QED
    BY <2>1 DEF S
<1>2. one.mutex = mutex /\ one.accesses = s
  BY DEF Section
<1> HIDE DEF one
<1>3. mutex \in Mutexes /\ s \in Seq(WritesUnder(mutex))
  BY <1>1, <1>2 DEF WriteSections
<1>4. WritesUnder(mutex) \subseteq InKeeping(kind)
  BY DEF WritesUnder, InKeeping
<1>5. s \in Seq(InKeeping(kind))
  BY <1>3, <1>4, SeqMonotonic
<1> QED
  BY <1>3, <1>5, NamedSection

LEMMA ButtonsLead ==
  ASSUME NEW kind
  PROVE  handle_buttons_only(1) \in Leads(kind, {ButtonsWrite})
<1> DEFINE W == InKeeping(kind)
<1>1. "m_button_mutex" \in Mutexes /\ ButtonsWrite \in W
  BY MutexNames, NamedKept
<1>2. handle_buttons_only(1) = <<Section("m_button_mutex", <<ButtonsWrite>>)>>
  BY DEF handle_buttons_only, ButtonsWrite
<1> DEFINE s == <<ButtonsWrite>>
<1>3. s \in Seq(W) /\ Len(s) = 1 /\ s[1] = ButtonsWrite /\ 1 \in 1..1
  <2> HIDE DEF W
  <2> QED
    BY <1>1
<1> HIDE DEF W, s
<1>4. \A x \in {ButtonsWrite} : \E j \in 1..Len(s) : s[j] = x
  BY <1>3
<1> QED
  BY <1>1, <1>2, <1>3, <1>4, NamedSection DEF W, s

LEMMA AccLeads ==
  ASSUME NEW kind \in AccNamed
  PROVE  handle_buttons_acc(1) \in Leads(kind, {ButtonsWrite} \cup {WriteX, WriteY, WriteZ})
<1> DEFINE W == InKeeping(kind)
<1>1. "m_acc_mutex" \in Mutexes /\ WriteX \in W /\ WriteY \in W /\ WriteZ \in W
  BY MutexNames, NamedKept DEF NamedWrites, MustWrites
<1>2. AccWrites \in Seq(W) /\ Len(AccWrites) = 3
      /\ AccWrites[1] = WriteX /\ AccWrites[2] = WriteY /\ AccWrites[3] = WriteZ
  <2> HIDE DEF W
  <2> QED
    BY <1>1 DEF AccWrites
<1> HIDE DEF W
<1>3. \A x \in {WriteX, WriteY, WriteZ} : \E j \in 1..Len(AccWrites) : AccWrites[j] = x
  BY <1>2
<1>4. <<Section("m_acc_mutex", AccWrites)>> \in Leads(kind, {WriteX, WriteY, WriteZ})
  BY <1>1, <1>2, <1>3, NamedSection DEF W
<1> DEFINE acc == <<Section("m_acc_mutex", AccWrites)>>
           buttons == handle_buttons_only(1)
<1>5. handle_buttons_acc(1) = buttons \o acc
  BY DEF handle_buttons_acc, AccWrites, WriteX, WriteY, WriteZ
<1>6. buttons \in Leads(kind, {ButtonsWrite}) /\ acc \in Leads(kind, {WriteX, WriteY, WriteZ})
  BY <1>4, ButtonsLead
<1> HIDE DEF acc, buttons
<1>7. buttons \o acc \in Leads(kind, {ButtonsWrite} \cup {WriteX, WriteY, WriteZ})
  BY <1>6, LeadsInTurn
<1> QED
  BY <1>5, <1>7, Zenon

LEMMA DotsLead ==
  ASSUME NEW kind, kind = "BUTTONS_ACC_IR_12B"
  PROVE  handle_ir_data_extended(6) \in Leads(kind, {DotWrite(i) : i \in 1..4})
<1> DEFINE W == InKeeping(kind)
           s == [i \in 1..4 |-> DotWrite(i)]
<1>1. "m_ir_mutex" \in Mutexes /\ \A i \in 1..4 : DotWrite(i) \in W
  BY MutexNames, NamedKept DEF NamedWrites, MustWrites
<1>2. s \in [1..4 -> W] /\ DOMAIN s = 1..4
  BY <1>1
<1>3. \A x \in {DotWrite(i) : i \in 1..4} : \E j \in 1..4 : s[j] = x
  OBVIOUS
<1>4. [i \in 1..4 |-> Write(Dots[i], (6 + 3 * i - 3)..(6 + 3 * i - 1))] = s
  <2>1. \A i \in 1..4 : 6 + 3 * i - 3 = 3 * i + 3 /\ 6 + 3 * i - 1 = 3 * i + 5
    OBVIOUS
  <2>2. \A i \in 1..4 : Write(Dots[i], (6 + 3 * i - 3)..(6 + 3 * i - 1)) = DotWrite(i)
    BY <2>1, Zenon DEF DotWrite
  <2> QED
    BY <2>2, Zenon
<1>5. handle_ir_data_extended(6) = <<Section("m_ir_mutex", s)>>
  BY <1>4, Zenon DEF handle_ir_data_extended
<1> HIDE DEF W, s
<1>6. s \in Seq(W) /\ Len(s) = 4
  <2>1. s \in Seq(W)
    BY <1>2, NumberedAreSeq
  <2> QED
    BY <1>2, <2>1, LenProperties
<1>7. \A x \in {DotWrite(i) : i \in 1..4} : \E j \in 1..Len(s) : s[j] = x
  BY <1>3, <1>6
<1> QED
  BY <1>1, <1>5, <1>6, <1>7, NamedSection DEF W

LEMMA ExtensionLeads ==
  ASSUME NEW kind, NEW at \in {3, 6}, MayWrites(kind) = ExtWrites(at), NEW mpls, NEW e, NEW m
  PROVE  handle_extension_data(at, mpls, e, m) \in Leads(kind, {})
<1> DEFINE W == InKeeping(kind)
<1>1. "m_extension_mutex" \in Mutexes
  BY MutexNames
<1>2. /\ Write("gyro_raw", at..(at + 5)) \in W
      /\ Write("nunchuk", at..(at + 5)) \in W /\ Write("nunchuk_low", {at + 5}) \in W
  BY NamedKept DEF NamedWrites, ExtWrites
<1>3. \A s \in Seq(W) : <<Section("m_extension_mutex", s)>> \in Leads(kind, {})
  BY <1>1, NamedSection
<1> HIDE DEF W
<1>4. /\ <<Write("gyro_raw", at..(at + 5))>> \in Seq(W)
      /\ <<Write("nunchuk", at..(at + 5))>> \in Seq(W)
      /\ <<Write("nunchuk", at..(at + 5)), Write("nunchuk_low", {at + 5})>> \in Seq(W)
      /\ << >> \in Seq(W)
  BY <1>2
<1> DEFINE active == m \notin {"none", "EXTENSION_ONLY"}
           written ==
             CASE active /\ mpls -> <<Write("gyro_raw", at..(at + 5))>>
               [] active /\ ~mpls /\ e = "NunchukRaw" -> <<Write("nunchuk", at..(at + 5))>>
               [] ~active /\ e = "NunchukRaw" ->
                    <<Write("nunchuk", at..(at + 5)), Write("nunchuk_low", {at + 5})>>
               [] OTHER -> <<>>
<1>5. written \in Seq(W)
  BY <1>4
<1>6. handle_extension_data(at, mpls, e, m) = <<Section("m_extension_mutex", written)>>
  BY DEF handle_extension_data
<1> QED
  BY <1>3, <1>5, <1>6

\* The kinds whose names promise the buttons only.
ButtonsOnly(kind) == NamedWrites(kind) = {ButtonsWrite}

LEMMA OtherHandlersLead ==
  ASSUME NEW kind, ButtonsOnly(kind), NEW e \in Extensions, NEW m \in MotionPlus
  PROVE  /\ \A r : (r.connected \in BOOLEAN /\ r.ir_enabled \in BOOLEAN) =>
              handle_status(3, r, e, m) \in Leads(kind, {})
         /\ \A answer : handle_mem_read(3, answer, e, m) \in Leads(kind, {})
         /\ \A at \in Nat : \A mpls :
              handle_extension_data(at, mpls, e, m) \in Leads(kind, {})
         /\ \A at \in Nat : /\ handle_ir_data_basic(at) \in Leads(kind, {})
                            /\ handle_ir_data_extended(at) \in Leads(kind, {})
                            /\ handle_ir_full(at, TRUE) \in Leads(kind, {})
         /\ handle_buttons_acc(1) \in Leads(kind, {ButtonsWrite})
         /\ handle_interleaved_a(1) \in Leads(kind, {ButtonsWrite})
         /\ handle_interleaved_b(1) \in Leads(kind, {ButtonsWrite})
<1> DEFINE L == Leads(kind, {})
           B == Leads(kind, {ButtonsWrite})
           others == {"m_acc_mutex", "m_ir_mutex", "m_status_mutex", "m_extension_mutex"}
<1>1. ASSUME NEW mutex \in others, NEW s, <<Section(mutex, s)>> \in Seq(WriteSections)
      PROVE  <<Section(mutex, s)>> \in L
  <2>1. ButtonsWrite.field = "buttons"
    BY WriteParts DEF ButtonsWrite
  <2>2. \A x \in NamedWrites(kind) : Guard[x.field] \notin {mutex, "m_extension_mutex"}
    BY <2>1 DEF ButtonsOnly, Guard
  <2> QED
    BY <1>1, <2>2, OtherSection
<1>2. ASSUME NEW s \in B, NEW u \in L PROVE s \o u \in B
  <2>1. s \o u \in Leads(kind, {ButtonsWrite} \cup {})
    BY <1>2, LeadsInTurn
  <2>2. {ButtonsWrite} \cup {} = {ButtonsWrite}
    OBVIOUS
  <2> QED
    BY <2>1, <2>2
<1>3. handle_buttons_only(1) \in B
  BY ButtonsLead
<1> HIDE DEF L, B
<1>4. ASSUME NEW r, r.connected \in BOOLEAN, r.ir_enabled \in BOOLEAN
      PROVE  handle_status(3, r, e, m) \in L
  <2>1. 3 \in Nat /\ handle_status(3, r, e, m) \in Seq(WriteSections)
    BY <1>4, StatusWritten
  <2> QED
    BY <1>1, <2>1 DEF handle_status
<1>5. ASSUME NEW answer PROVE handle_mem_read(3, answer, e, m) \in L
  <2>1. 3 \in Nat /\ handle_mem_read(3, answer, e, m) \in Seq(WriteSections)
    BY MemReadWritten
  <2>2. <<>> \in L
    BY EmptySeq DEF L, Leads
  <2> QED
    BY <1>1, <2>1, <2>2 DEF handle_mem_read
<1>6. ASSUME NEW at \in Nat, NEW mpls PROVE handle_extension_data(at, mpls, e, m) \in L
  <2>1. handle_extension_data(at, mpls, e, m) \in Seq(WriteSections)
    BY ExtensionBytesWritten
  <2> DEFINE active == m \notin {"none", "EXTENSION_ONLY"}
             written ==
               CASE active /\ mpls -> <<Write("gyro_raw", at..(at + 5))>>
                 [] active /\ ~mpls /\ e = "NunchukRaw" -> <<Write("nunchuk", at..(at + 5))>>
                 [] ~active /\ e = "NunchukRaw" ->
                      <<Write("nunchuk", at..(at + 5)), Write("nunchuk_low", {at + 5})>>
                 [] OTHER -> <<>>
  <2>2. handle_extension_data(at, mpls, e, m) = <<Section("m_extension_mutex", written)>>
    BY DEF handle_extension_data
  <2> HIDE DEF written
  <2> QED
    BY <1>1, <2>1, <2>2
<1>7. ASSUME NEW at \in Nat
      PROVE  /\ handle_ir_data_basic(at) \in L /\ handle_ir_data_extended(at) \in L
             /\ handle_ir_full(at, TRUE) \in L
  <2>1. /\ handle_ir_data_basic(at) \in Seq(WriteSections)
        /\ handle_ir_data_extended(at) \in Seq(WriteSections)
        /\ handle_ir_full(at, TRUE) \in Seq(WriteSections)
    BY DotHandlersWrite
  <2>2. handle_ir_data_basic(at) \in L
    BY <1>1, <2>1 DEF handle_ir_data_basic
  <2>3. handle_ir_data_extended(at) \in L
    BY <1>1, <2>1 DEF handle_ir_data_extended
  <2>4. handle_ir_full(at, TRUE) \in L
    BY <1>1, <2>1 DEF handle_ir_full
  <2> QED
    BY <2>2, <2>3, <2>4
<1>8. ASSUME NEW x \in SUBSET Nat, NEW y \in SUBSET Nat, NEW z \in SUBSET Nat
      PROVE  /\ <<Section("m_acc_mutex", <<Write("acc_x", x), Write("acc_y", y),
                                           Write("acc_z", z)>>)>> \in L
             /\ <<Section("m_acc_mutex", <<Write("acc_x", x), WriteOr("acc_z", z)>>)>> \in L
             /\ <<Section("m_acc_mutex", <<Write("acc_y", y), WriteOr("acc_z", z)>>)>> \in L
  BY <1>1, AccWritten
<1>9. /\ {1, 1 + 2} \in SUBSET Nat /\ {1 + 1, 1 + 3} \in SUBSET Nat
      /\ {1 + 1, 1 + 4} \in SUBSET Nat /\ {1 + 1} \in SUBSET Nat /\ {1 + 2} \in SUBSET Nat
      /\ {1, 1 + 1} \in SUBSET Nat /\ 1 + 4 \in Nat /\ 1 + 2 + 4 \in Nat
  OBVIOUS
<1>10. handle_buttons_acc(1) \in B
  BY <1>2, <1>3, <1>8, <1>9 DEF handle_buttons_acc
<1>11. handle_interleaved_a(1) \in B
  BY <1>2, <1>3, <1>7, <1>8, <1>9 DEF handle_interleaved_a
<1>12. handle_interleaved_b(1) \in B
  BY <1>2, <1>3, <1>7, <1>8, <1>9 DEF handle_interleaved_b
<1>13. /\ \A r : (r.connected \in BOOLEAN /\ r.ir_enabled \in BOOLEAN) =>
              handle_status(3, r, e, m) \in L
       /\ \A answer : handle_mem_read(3, answer, e, m) \in L
       /\ \A at \in Nat : \A mpls : handle_extension_data(at, mpls, e, m) \in L
  BY <1>4, <1>5, <1>6
<1>14. \A at \in Nat : /\ handle_ir_data_basic(at) \in L /\ handle_ir_data_extended(at) \in L
                       /\ handle_ir_full(at, TRUE) \in L
  BY <1>7
<1> QED
  BY <1>10, <1>11, <1>12, <1>13, <1>14, Zenon DEF L, B

LEMMA PromisesOf ==
  ASSUME NEW kind
  PROVE  /\ kind \notin AccNamed => MustWrites(kind) = {ButtonsWrite}
         /\ kind \notin AccNamed \cup {"BUTTONS_EXT_8B", "BUTTONS_EXT_19B"} =>
              MustWrites(kind) = {ButtonsWrite} /\ MayWrites(kind) = {} /\ ButtonsOnly(kind)
         /\ kind \in {"BUTTONS_ACC", "BUTTONS_ACC_EXT_16B"} =>
              MustWrites(kind) = {ButtonsWrite} \cup {WriteX, WriteY, WriteZ}
         /\ kind = "BUTTONS_ACC_IR_12B" =>
              MustWrites(kind) = {ButtonsWrite} \cup {WriteX, WriteY, WriteZ}
                                   \cup {DotWrite(i) : i \in 1..4}
         /\ kind \in {"BUTTONS_EXT_8B", "BUTTONS_EXT_19B"} => MayWrites(kind) = ExtWrites(3)
         /\ kind = "BUTTONS_ACC_EXT_16B" => MayWrites(kind) = ExtWrites(6)
         /\ kind \in {"BUTTONS_ACC", "BUTTONS_ACC_IR_12B"} => MayWrites(kind) = {}
<1> DEFINE acc == {WriteX, WriteY, WriteZ}
           dots == {DotWrite(i) : i \in 1..4}
           ext(at) == ExtWrites(at)
<1>1. /\ MustWrites(kind) = {ButtonsWrite} \cup (IF kind \in AccNamed THEN acc ELSE {})
                              \cup (IF kind = "BUTTONS_ACC_IR_12B" THEN dots ELSE {})
      /\ MayWrites(kind) = IF kind \in {"BUTTONS_EXT_8B", "BUTTONS_EXT_19B"} THEN ext(3)
                           ELSE IF kind = "BUTTONS_ACC_EXT_16B" THEN ext(6) ELSE {}
  BY DEF MustWrites, MayWrites
<1> HIDE DEF acc, dots, ext
<1>2. /\ kind \notin AccNamed => MustWrites(kind) = {ButtonsWrite}
      /\ kind \in {"BUTTONS_ACC", "BUTTONS_ACC_EXT_16B"} =>
           MustWrites(kind) = {ButtonsWrite} \cup acc
      /\ kind = "BUTTONS_ACC_IR_12B" => MustWrites(kind) = {ButtonsWrite} \cup acc \cup dots
  BY <1>1 DEF AccNamed
<1>3. /\ kind \in {"BUTTONS_EXT_8B", "BUTTONS_EXT_19B"} => MayWrites(kind) = ext(3)
      /\ kind = "BUTTONS_ACC_EXT_16B" => MayWrites(kind) = ext(6)
      /\ kind \in {"BUTTONS_ACC", "BUTTONS_ACC_IR_12B"} => MayWrites(kind) = {}
      /\ kind \notin AccNamed \cup {"BUTTONS_EXT_8B", "BUTTONS_EXT_19B"} => MayWrites(kind) = {}
  BY <1>1 DEF AccNamed
<1> QED
  BY <1>2, <1>3 DEF acc, dots, ext, ButtonsOnly, NamedWrites

\* What a report's name says is what its handlers do.
LEMMA HandlersLead ==
  ASSUME NEW r \in InputReports, NEW e \in Extensions, NEW m \in MotionPlus
  PROVE  Handlers(r, e, m) \in Leads(r.kind, MustWrites(r.kind))
<1> DEFINE kind == r.kind
           Ext(at) == handle_extension_data(at, at + 5 \in r.mpls_bits, e, m)
           dots == {DotWrite(i) : i \in 1..4}
           acc == {ButtonsWrite} \cup {WriteX, WriteY, WriteZ}
           only == {ButtonsWrite}
           L(X) == Leads(kind, X)
<1>1. kind \in {"STATUS_INFORMATION", "MEMORY_READ"} \cup ExtensionKinds \cup PlainKinds
  BY ReportKinds
<1>2. handle_buttons_only(1) \in L(only)
  BY ButtonsLead
<1>3. \A X, Y : \A s \in L(X), u \in L(Y) : s \o u \in L(X \cup Y)
  BY LeadsInTurn
<1>4. /\ only \cup {} = only /\ acc \cup {} = acc
  OBVIOUS
<1>5. kind = "STATUS_INFORMATION" => r.connected \in BOOLEAN /\ r.ir_enabled \in BOOLEAN
  BY ReportIs
<1>6. 3 \in Nat /\ 6 \in Nat /\ 15 \in Nat /\ 16 \in Nat
  OBVIOUS
<1>7. ASSUME kind \notin AccNamed \cup {"BUTTONS_EXT_8B", "BUTTONS_EXT_19B"}
      PROVE  Handlers(r, e, m) \in L(only)
  <2>1. /\ kind = "STATUS_INFORMATION" => handle_status(3, r, e, m) \in L({})
        /\ handle_mem_read(3, r.answer, e, m) \in L({})
        /\ Ext(15) \in L({}) /\ Ext(16) \in L({})
        /\ handle_ir_data_extended(3) \in L({}) /\ handle_ir_data_basic(6) \in L({})
        /\ handle_buttons_acc(1) \in L(only)
        /\ handle_interleaved_a(1) \in L(only) /\ handle_interleaved_b(1) \in L(only)
    BY <1>5, <1>6, <1>7, PromisesOf, OtherHandlersLead
  <2>2. \A s \in L(only), u \in L({}) : s \o u \in L(only)
    BY <1>3, <1>4
  <2> HIDE DEF L, only, Ext
  <2>3. CASE kind \in {"STATUS_INFORMATION", "MEMORY_READ", "ACK_OUTPUT_REPORT", "BUTTONS"}
    BY <1>2, <2>1, <2>2, <2>3 DEF Handlers
  <2>4. CASE kind \in {"BUTTONS_IR_10B_EXTENSION_9B", "BUTTONS_ACC_IR_10B_EXTENSION_6B"}
    BY <1>2, <2>1, <2>2, <2>4 DEF Handlers, Ext
  <2>5. CASE kind \in InterleavedKinds
    BY <2>1, <2>5 DEF Handlers, InterleavedKinds
  <2> QED
    BY <1>1, <1>7, <2>3, <2>4, <2>5 DEF ExtensionKinds, PlainKinds, AccNamed
<1>8. ASSUME kind \in {"BUTTONS_EXT_8B", "BUTTONS_EXT_19B"}
      PROVE  Handlers(r, e, m) \in L(only)
  <2>1. Ext(3) \in L({})
    BY <1>8, PromisesOf, ExtensionLeads
  <2>2. Handlers(r, e, m) = handle_buttons_only(1) \o Ext(3)
    BY <1>8 DEF Handlers
  <2> HIDE DEF L, only, Ext
  <2>3. handle_buttons_only(1) \o Ext(3) \in L(only \cup {})
    BY <1>2, <1>3, <2>1
  <2> QED
    BY <1>4, <2>2, <2>3
<1>9. ASSUME kind = "BUTTONS_ACC"
      PROVE  Handlers(r, e, m) \in L(acc)
  BY <1>9, AccLeads DEF Handlers, AccNamed
<1>10. ASSUME kind = "BUTTONS_ACC_EXT_16B"
       PROVE  Handlers(r, e, m) \in L(acc)
  <2>1. Ext(6) \in L({})
    BY <1>10, PromisesOf, ExtensionLeads
  <2>2. Handlers(r, e, m) = handle_buttons_acc(1) \o Ext(6)
    BY <1>10 DEF Handlers
  <2>3. handle_buttons_acc(1) \in L(acc)
    BY <1>10, AccLeads DEF AccNamed
  <2> HIDE DEF L, acc, Ext
  <2>4. handle_buttons_acc(1) \o Ext(6) \in L(acc \cup {})
    BY <1>3, <2>1, <2>3
  <2> QED
    BY <1>4, <2>2, <2>4
<1>11. ASSUME kind = "BUTTONS_ACC_IR_12B"
       PROVE  Handlers(r, e, m) \in L(acc \cup dots)
  <2>1. Handlers(r, e, m) = handle_buttons_acc(1) \o handle_ir_data_extended(6)
    BY <1>11 DEF Handlers
  <2>2. handle_buttons_acc(1) \in L(acc) /\ handle_ir_data_extended(6) \in L(dots)
    BY <1>11, AccLeads, DotsLead DEF AccNamed
  <2> HIDE DEF L, acc, dots
  <2> QED
    BY <1>3, <2>1, <2>2
<1>12. /\ kind \notin AccNamed => MustWrites(kind) = only
       /\ kind \in {"BUTTONS_ACC", "BUTTONS_ACC_EXT_16B"} => MustWrites(kind) = acc
       /\ kind = "BUTTONS_ACC_IR_12B" => MustWrites(kind) = acc \cup dots
  BY PromisesOf
<1>13. L(MustWrites(kind)) = Leads(r.kind, MustWrites(r.kind))
  OBVIOUS
<1> HIDE DEF L, acc, dots, only, kind
<1> QED
  BY <1>7, <1>8, <1>9, <1>10, <1>11, <1>12, <1>13 DEF AccNamed

-----------------------------------------------------------------------------
(* The read thread's steps, and what is left of the named writes. *)

\* The bytes of a named write are in every report of the kind.
LEMMA NamedBytes ==
  ASSUME NEW r \in InputReports, NEW x \in NamedWrites(r.kind)
  PROVE  x.from \subseteq OwnBytes(r)
<1> DEFINE kind == r.kind
           last == Length[kind] - 1
<1>1. last \in 2..21 /\ OwnBytes(r) = 0..last
  <2>1. Length[kind] \in 3..22
    BY ReportKinds
  <2> DEFINE l == Length[kind]
  <2> HIDE DEF l
  <2>2. l - 1 \in 2..21
    BY <2>1 DEF l
  <2> QED
    BY <2>2 DEF OwnBytes, l
<1>2. /\ kind = "BUTTONS_ACC" => last = 5
      /\ kind = "BUTTONS_EXT_8B" => last = 10
      /\ kind = "BUTTONS_ACC_IR_12B" => last = 17
      /\ kind \in {"BUTTONS_EXT_19B", "BUTTONS_ACC_EXT_16B"} => last = 21
  BY DEF Length
<1> HIDE DEF last
<1>3. CASE x = ButtonsWrite
  <2>1. x.from = {1, 2}
    BY <1>3, WriteParts DEF ButtonsWrite
  <2> QED
    BY <1>1, <2>1
<1>4. CASE x \in {WriteX, WriteY, WriteZ} /\ kind \in AccNamed
  <2>1. x.from \in {{1, 3}, {2, 4}, {2, 5}}
    BY <1>4, WriteParts DEF WriteX, WriteY, WriteZ
  <2>2. last \in {5, 17, 21}
    BY <1>2, <1>4 DEF AccNamed
  <2> QED
    BY <1>1, <2>1, <2>2
<1>5. CASE x \in {DotWrite(i) : i \in 1..4} /\ kind = "BUTTONS_ACC_IR_12B"
  <2>1. PICK i \in 1..4 : x = DotWrite(i)
    BY <1>5
  <2>2. x.from = (3 * i + 3)..(3 * i + 5)
    BY <2>1, WriteParts DEF DotWrite
  <2>3. 3 * i + 5 <= 17 /\ last = 17
    BY <1>2, <1>5
  <2> QED
    BY <1>1, <2>2, <2>3
<1>6. CASE x \in MayWrites(kind)
  <2>1. PICK at \in {3, 6} : x \in ExtWrites(at) /\ at + 5 <= last
    <3>1. CASE kind = "BUTTONS_EXT_8B"
      BY <1>2, <1>6, <3>1 DEF MayWrites
    <3>2. CASE kind \in {"BUTTONS_EXT_19B", "BUTTONS_ACC_EXT_16B"}
      <4>1. \E at \in {3, 6} : x \in ExtWrites(at)
        BY <1>6 DEF MayWrites
      <4>2. last = 21 /\ \A at \in {3, 6} : at + 5 <= 21
        BY <1>2, <3>2
      <4> QED
        BY <4>1, <4>2
    <3> QED
      BY <1>6, <3>1, <3>2 DEF MayWrites
  <2>2. x.from \in {at..(at + 5), {at + 5}}
    BY <2>1, WriteParts DEF ExtWrites
  <2>3. \A b \in at..(at + 5) : b \in 0..last
    BY <1>1, <2>1
  <2>4. at + 5 \in 0..last
    BY <1>1, <2>1
  <2> QED
    BY <1>1, <2>2, <2>3, <2>4
<1> QED
  BY <1>3, <1>4, <1>5, <1>6 DEF NamedWrites, MustWrites

LEMMA LastReportKind ==
  ASSUME StateTypes, sent # <<>>
  PROVE  Len(sent) \in Nat /\ Len(sent) # 0 /\ LastReport \in InputReports
<1>1. sent \in Seq(InputReports)
  BY InputAssumption, SeqMonotonic DEF StateTypes
<1>2. Len(sent) \in 1..Len(sent) /\ Len(sent) \in Nat
  BY <1>1, LenProperties, EmptySeq
<1> QED
  BY <1>1, <1>2, ElementOfSeq DEF LastReport

LEMMA ReadReportNamed ==
  ASSUME InputInv, StateOrigins, NEW r \in Received, ReadReport(r)
  PROVE  NamedInv'
<1>1. /\ sent' = Append(sent, r) /\ UNCHANGED state
      /\ todo' = Handlers(r, state["m_extension"], state["m_motionplus"])
  BY DEF ReadReport
<1>2. Len(sent') = Len(sent) + 1 /\ sent'[Len(sent')] = r /\ Len(sent) \in Nat
  BY <1>1, SentGrows DEF StateOrigins
<1>3. LastReport' = r /\ r \in InputReports
  BY <1>2, InputAssumption DEF LastReport
<1>4. state["m_extension"] \in Extensions /\ state["m_motionplus"] \in MotionPlus
  BY DEF InputInv, ReadThreadInv
<1>5. todo' \in Leads(r.kind, MustWrites(r.kind))
  BY <1>1, <1>3, <1>4, HandlersLead
<1>6. ASSUME NEW x \in MayWrites(r.kind) PROVE Untouched(x)'
  <2>1. x.field \in Fields \ Values
    BY NamedFields DEF NamedWrites
  <2>2. \A s \in state[x.field] : s.report \in 0..Len(sent)
    BY <2>1 DEF StateOrigins, StateTypes, SeenBytes
  <2> QED
    BY <1>1, <1>2, <2>2 DEF Untouched
<1> QED
  BY <1>3, <1>5, <1>6 DEF NamedInv, Leads, Pending

LEMMA UnlockNamed ==
  ASSUME InputInv, NamedInv, Unlock
  PROVE  NamedInv'
<1>1. /\ locked /\ UNCHANGED <<sent, state>> /\ Head(todo).accesses = <<>> /\ todo' = Tail(todo)
  BY DEF Unlock
<1>2. todo \in Seq(WriteSections) /\ todo # <<>>
  BY <1>1 DEF InputInv, ReadThreadInv
<1>3. /\ Head(todo) = todo[1] /\ Len(todo) \in Nat
      /\ Len(Tail(todo)) = Len(todo) - 1
      /\ \A i \in 1..Len(Tail(todo)) : Tail(todo)[i] = todo[i + 1]
  BY <1>2
<1> SUFFICES ASSUME sent # <<>> PROVE NamedInv'
  BY <1>1 DEF NamedInv
<1> DEFINE kind == LastReport.kind
<1>4. LastReport' = LastReport
  BY <1>1 DEF LastReport
<1>5. todo' \in Seq(NamedSections(kind))
  <2>1. todo \in Seq(NamedSections(kind))
    BY <1>2 DEF NamedInv
  <2> QED
    BY <1>1, <1>2, <2>1, HeadTailProperties
<1>6. ASSUME NEW x, Pending(x) PROVE Pending(x)'
  <2>1. PICK i \in 1..Len(todo) : \E j \in 1..Len(todo[i].accesses) : todo[i].accesses[j] = x
    BY <1>6 DEF Pending, ComesUp
  <2>2. i # 1
    <3>1. Len(<<>>) = 0
      OBVIOUS
    <3>2. 1..Len(Head(todo).accesses) = {}
      BY <1>1, <3>1
    <3> QED
      BY <1>3, <2>1, <3>2
  <2>3. i - 1 \in 1..Len(todo') /\ todo'[i - 1] = todo[i]
    <3>1. i - 1 \in 1..Len(Tail(todo)) /\ (i - 1) + 1 = i
      BY <1>3, <2>2
    <3> QED
      BY <1>1, <1>3, <3>1
  <2> QED
    BY <2>1, <2>3 DEF Pending, ComesUp
<1>7. \A x : /\ Done(x)' <=> Done(x)
             /\ Untouched(x)' <=> Untouched(x)
  BY <1>1 DEF Done, Untouched, Own
<1> QED
  BY <1>4, <1>5, <1>6, <1>7 DEF NamedInv

LEMMA OthersNamed ==
  ASSUME NamedInv, UNCHANGED <<sent, todo, state>>
  PROVE  NamedInv'
<1>1. LastReport' = LastReport
  BY DEF LastReport
<1>2. \A x : /\ Done(x)' <=> Done(x)
             /\ Untouched(x)' <=> Untouched(x)
             /\ Pending(x)' <=> Pending(x)
  BY DEF Done, Untouched, Own, Pending
<1> QED
  BY <1>1, <1>2 DEF NamedInv

\* A named write stores the report's own bytes.
LEMMA NamedStored ==
  ASSUME StateTypes, BufferInv, sent # <<>>, NEW x \in NamedWrites(LastReport.kind)
  PROVE  Stored(x) = Own(x)
<1>1. LastReport \in InputReports
  BY LastReportKind
<1>2. x.from \subseteq OwnBytes(LastReport)
  BY <1>1, NamedBytes
<1>3. \A i \in OwnBytes(LastReport) : i \in 0..(MAX_MESSAGE_LENGTH - 1)
  <2>1. Length[LastReport.kind] \in 3..22
    BY <1>1, ReportKinds
  <2> DEFINE l == Length[LastReport.kind]
  <2>2. l \in 3..22 /\ MAX_MESSAGE_LENGTH = 22
    BY <2>1 DEF MAX_MESSAGE_LENGTH
  <2> HIDE DEF l
  <2>3. \A i \in 0..(l - 1) : i \in 0..(22 - 1)
    BY <2>2
  <2> QED
    BY <2>2, <2>3 DEF OwnBytes, l
<1>4. \A i \in x.from : i \in DOMAIN buffer /\ buffer[i] = Len(sent)
  BY <1>2, <1>3 DEF StateTypes, BufferInv
<1>5. \A i \in x.from : Byte(i) = [byte |-> i, report |-> Len(sent)]
  BY <1>4, Zenon DEF Byte
<1>6. x.field \notin Values
  BY NamedFields
<1> QED
  BY <1>5, <1>6 DEF Stored, Own

\* Each write is a named one, which is then done, or leaves the named fields alone.
LEMMA WriteFieldNamed ==
  ASSUME InputInv, StateOrigins, NamedInv, WriteField
  PROVE  NamedInv'
<1> DEFINE front == Head(todo)
           w == Head(front.accesses)
           value == IF w.keep THEN state[w.field] \cup Stored(w) ELSE Stored(w)
           kind == LastReport.kind
           N == NamedSections(kind)
           left == Rest(front)
<1>1. /\ UNCHANGED <<sent, buffer, locked>> /\ locked /\ front.accesses # <<>>
      /\ state' = [state EXCEPT ![w.field] = value]
      /\ todo' = <<left>> \o Tail(todo)
  BY DEF WriteField
<1>2. todo # <<>> /\ DOMAIN state = Fields
  BY <1>1 DEF InputInv, ReadThreadInv
<1>3. sent # <<>>
  BY <1>2 DEF StateOrigins, SectionsInv
<1>4. todo \in Seq(N)
  BY <1>2, <1>3 DEF NamedInv
<1>5. front \in N /\ N = [mutex : Mutexes, accesses : Seq(InKeeping(kind))]
  BY <1>2, <1>4, HeadTailProperties DEF NamedSections
<1>6. /\ w \in InKeeping(kind) /\ w = front.accesses[1] /\ left \in N
      /\ \A j \in 2..Len(front.accesses) :
           j - 1 \in 1..Len(left.accesses) /\ left.accesses[j - 1] = front.accesses[j]
  <2> DEFINE K == InKeeping(kind)
  <2>1. front \in [mutex : Mutexes, accesses : Seq(K)] /\ front.accesses # <<>>
    BY <1>1, <1>5
  <2> HIDE DEF K, front, N
  <2>2. /\ Head(front.accesses) \in K /\ Head(front.accesses) = front.accesses[1]
        /\ Rest(front) \in [mutex : Mutexes, accesses : Seq(K)]
        /\ \A j \in 2..Len(front.accesses) :
             j - 1 \in 1..Len(Rest(front).accesses)
             /\ Rest(front).accesses[j - 1] = front.accesses[j]
    BY <2>1, RestIs
  <2> QED
    BY <1>5, <2>2 DEF K
<1> HIDE DEF N, left
<1>7. /\ todo' \in Seq(N) /\ Len(todo') = Len(todo) /\ todo'[1] = left
      /\ front = todo[1] /\ Len(todo) \in Nat /\ 1 \in 1..Len(todo)
      /\ \A i \in 2..Len(todo) : todo'[i] = todo[i]
  BY <1>1, <1>2, <1>4, <1>6, HeadReplaced
<1> HIDE DEF value, w, front
<1>8. w \in Writes /\ w.field \in Fields
  BY <1>6 DEF InKeeping, Writes, Values, Fields, Guard
<1>9. /\ state'[w.field] = value
      /\ \A f \in Fields \ {w.field} : state'[f] = state[f]
  BY <1>1, <1>2, <1>8
<1>10. \A x : Own(x)' = Own(x)
  BY <1>1 DEF Own
<1>11. ASSUME NEW x \in NamedWrites(kind), w.field = x.field PROVE Done(x)'
  <2>1. w = x
    BY <1>6, <1>11 DEF InKeeping
  <2>2. ~x.keep
    BY NamedFields
  <2>3. Stored(x) = Own(x)
    BY <1>3, NamedStored DEF StateOrigins
  <2> QED
    BY <1>9, <1>10, <2>1, <2>2, <2>3 DEF Done, value
<1>12. ASSUME NEW x \in NamedWrites(kind), w.field # x.field
       PROVE  (Done(x) => Done(x)') /\ (Untouched(x) => Untouched(x)')
  <2>1. state'[x.field] = state[x.field]
    <3>1. x.field \in Fields
      BY NamedFields
    <3> QED
      BY <1>9, <1>12, <3>1
  <2> QED
    BY <1>1, <1>10, <2>1 DEF Done, Untouched
<1>13. ASSUME NEW x \in NamedWrites(kind), w.field # x.field, Pending(x) PROVE Pending(x)'
  <2>1. PICK i \in 1..Len(todo) : \E j \in 1..Len(todo[i].accesses) : todo[i].accesses[j] = x
    BY <1>13 DEF Pending, ComesUp
  <2>2. CASE i = 1
    <3>1. PICK j \in 1..Len(front.accesses) : front.accesses[j] = x
      BY <1>7, <2>1, <2>2
    <3>2. j # 1
      BY <1>6, <1>13, <3>1
    <3>3. j \in 2..Len(front.accesses)
      BY <3>1, <3>2
    <3>4. j - 1 \in 1..Len(left.accesses) /\ left.accesses[j - 1] = x
      BY <1>6, <3>1, <3>3
    <3>5. 1 \in 1..Len(todo') /\ todo'[1] = left
      BY <1>7
    <3> QED
      BY <3>4, <3>5 DEF Pending, ComesUp
  <2>3. CASE i # 1
    <3>1. i \in 2..Len(todo) /\ i \in 1..Len(todo')
      BY <1>7, <2>3
    <3>2. todo'[i] = todo[i]
      BY <1>7, <3>1
    <3> QED
      BY <2>1, <3>1, <3>2 DEF Pending, ComesUp
  <2> QED
    BY <2>2, <2>3
<1>14. LastReport' = LastReport /\ sent' = sent
  BY <1>1 DEF LastReport
<1>15. \A x \in MustWrites(kind) : Done(x)' \/ Pending(x)'
  BY <1>3, <1>11, <1>12, <1>13 DEF NamedInv, NamedWrites
<1>16. \A x \in MayWrites(kind) : Done(x)' \/ Untouched(x)'
  BY <1>3, <1>11, <1>12 DEF NamedInv, NamedWrites
<1> QED
  BY <1>7, <1>14, <1>15, <1>16 DEF NamedInv, N

-----------------------------------------------------------------------------
(* The layout that the names promise, as writes. *)

LEMMA BytesOfParts ==
  /\ PartBytes("BUTTONS", 1) = [buttons |-> {1, 2}]
  /\ PartBytes("ACC", 3) = [acc_x |-> {1, 3}, acc_y |-> {2, 4}, acc_z |-> {2, 5}]
  /\ PartBytes("IR_12B", 6) = [dot1 |-> 6..8, dot2 |-> 9..11, dot3 |-> 12..14, dot4 |-> 15..17]
  /\ \A part \in {"EXT_8B", "EXT_16B", "EXT_19B"}, at \in {3, 6} :
       PartBytes(part, at) = [nunchuk |-> at..(at + 5), nunchuk_low |-> {at + 5},
                              gyro_raw |-> at..(at + 5)]
<1>1. PartBytes("BUTTONS", 1) = [buttons |-> {1, 2}]
  <2>1. 1..(1 + 2 - 1) = {1, 2}
    OBVIOUS
  <2>2. PartBytes("BUTTONS", 1) = [buttons |-> 1..(1 + 2 - 1)]
    BY DEF PartBytes
  <2> QED
    BY <2>1, <2>2, Zenon
<1>2. PartBytes("ACC", 3) = [acc_x |-> {1, 3}, acc_y |-> {2, 4}, acc_z |-> {2, 5}]
  <2>1. 3 + 1 = 4 /\ 3 + 2 = 5
    OBVIOUS
  <2>2. PartBytes("ACC", 3) = [acc_x |-> {1, 3}, acc_y |-> {2, 3 + 1}, acc_z |-> {2, 3 + 2}]
    BY DEF PartBytes
  <2> QED
    BY <2>1, <2>2, Zenon
<1>3. PartBytes("IR_12B", 6)
        = [dot1 |-> 6..8, dot2 |-> 9..11, dot3 |-> 12..14, dot4 |-> 15..17]
  <2>1. /\ 6 + 2 = 8 /\ 6 + 3 = 9 /\ 6 + 5 = 11 /\ 6 + 6 = 12 /\ 6 + 8 = 14 /\ 6 + 9 = 15
        /\ 6 + 11 = 17
    OBVIOUS
  <2>2. PartBytes("IR_12B", 6)
          = [dot1 |-> 6..(6 + 2), dot2 |-> (6 + 3)..(6 + 5), dot3 |-> (6 + 6)..(6 + 8),
             dot4 |-> (6 + 9)..(6 + 11)]
    BY DEF PartBytes
  <2> QED
    BY <2>1, <2>2, Zenon
<1>4. ASSUME NEW part \in {"EXT_8B", "EXT_16B", "EXT_19B"}, NEW at \in {3, 6}
      PROVE  PartBytes(part, at) = [nunchuk |-> at..(at + 5), nunchuk_low |-> {at + 5},
                                    gyro_raw |-> at..(at + 5)]
  <2>1. at + 6 - 1 = at + 5
    OBVIOUS
  <2>2. PartBytes(part, at) = [nunchuk |-> at..(at + 6 - 1), nunchuk_low |-> {at + 5},
                               gyro_raw |-> at..(at + 6 - 1)]
    BY DEF PartBytes
  <2> QED
    BY <2>1, <2>2, Zenon
<1> QED
  BY <1>1, <1>2, <1>3, <1>4

\* Where the parts of the kinds that are decoded by their names start.
LEMMA PartsOfKinds ==
  ASSUME NEW kind, NEW i \in DOMAIN NamedParts(kind)
  PROVE  \/ i = 1 /\ NamedParts(kind)[i] = "BUTTONS"
         \/ /\ i = 2 /\ NamedParts(kind)[i] = "ACC" /\ PartStart(kind, i) = 3
            /\ kind \in AccNamed
         \/ /\ i = 3 /\ NamedParts(kind)[i] = "IR_12B" /\ PartStart(kind, i) = 6
            /\ kind = "BUTTONS_ACC_IR_12B"
         \/ /\ i = 2 /\ NamedParts(kind)[i] \in {"EXT_8B", "EXT_19B"} /\ PartStart(kind, i) = 3
            /\ MayWrites(kind) = ExtWrites(3)
         \/ /\ i = 3 /\ NamedParts(kind)[i] = "EXT_16B" /\ PartStart(kind, i) = 6
            /\ MayWrites(kind) = ExtWrites(6)
<1> DEFINE named == {"BUTTONS", "BUTTONS_ACC", "BUTTONS_EXT_8B", "BUTTONS_ACC_IR_12B",
                     "BUTTONS_EXT_19B", "BUTTONS_ACC_EXT_16B"}
<1>1. DOMAIN Parts \ MisreadKinds = named
  BY DEF Parts, MisreadKinds
<1>2. kind \notin named => NamedParts(kind) = <<"BUTTONS">>
  BY <1>1 DEF NamedParts
<1>3. kind \in named => NamedParts(kind) = Parts[kind]
  BY <1>1 DEF NamedParts
<1>4. /\ Parts["BUTTONS"] = <<"BUTTONS">> /\ Parts["BUTTONS_ACC"] = <<"BUTTONS", "ACC">>
      /\ Parts["BUTTONS_EXT_8B"] = <<"BUTTONS", "EXT_8B">>
      /\ Parts["BUTTONS_EXT_19B"] = <<"BUTTONS", "EXT_19B">>
      /\ Parts["BUTTONS_ACC_IR_12B"] = <<"BUTTONS", "ACC", "IR_12B">>
      /\ Parts["BUTTONS_ACC_EXT_16B"] = <<"BUTTONS", "ACC", "EXT_16B">>
  BY DEF Parts
<1>5. /\ PartSize["BUTTONS"] = 2 /\ PartSize["ACC"] = 3
  BY DEF PartSize
<1>6. CASE kind \notin named \/ kind = "BUTTONS"
  BY <1>2, <1>3, <1>4, <1>6
<1>7. CASE kind \in {"BUTTONS_ACC", "BUTTONS_EXT_8B", "BUTTONS_EXT_19B"}
  <2>1. /\ NamedParts(kind)[1] = "BUTTONS" /\ i \in {1, 2}
        /\ kind = "BUTTONS_ACC" => NamedParts(kind)[2] = "ACC"
        /\ kind # "BUTTONS_ACC" => NamedParts(kind)[2] \in {"EXT_8B", "EXT_19B"}
        /\ Parts[kind][1] = "BUTTONS"
    BY <1>3, <1>4, <1>7
  <2>2. PartStart(kind, 2) = 3
    BY <1>5, <2>1 DEF PartStart
  <2> QED
    BY <1>7, <2>1, <2>2, PromisesOf DEF AccNamed
<1>8. CASE kind \in {"BUTTONS_ACC_IR_12B", "BUTTONS_ACC_EXT_16B"}
  <2>1. /\ NamedParts(kind)[1] = "BUTTONS" /\ NamedParts(kind)[2] = "ACC" /\ i \in {1, 2, 3}
        /\ kind = "BUTTONS_ACC_IR_12B" => NamedParts(kind)[3] = "IR_12B"
        /\ kind = "BUTTONS_ACC_EXT_16B" => NamedParts(kind)[3] = "EXT_16B"
        /\ Parts[kind][1] = "BUTTONS" /\ Parts[kind][2] = "ACC"
    BY <1>3, <1>4, <1>8
  <2>2. PartStart(kind, 2) = 3 /\ PartStart(kind, 3) = 6
    BY <1>5, <2>1 DEF PartStart
  <2> QED
    BY <1>8, <2>1, <2>2, PromisesOf DEF AccNamed
<1> QED
  BY <1>6, <1>7, <1>8

LEMMA PartsAreNamed ==
  ASSUME NEW kind, NEW i \in DOMAIN NamedParts(kind), NEW start,
         start = IF i = 1 THEN 1 ELSE PartStart(kind, i),
         NEW f \in DOMAIN PartBytes(NamedParts(kind)[i], start)
  PROVE  LET x == Write(f, PartBytes(NamedParts(kind)[i], start)[f])
         IN  \/ x \in MustWrites(kind)
             \/ x \in MayWrites(kind) /\ f \in {"nunchuk", "nunchuk_low", "gyro_raw"}
<1> DEFINE part == NamedParts(kind)[i]
           from == PartBytes(part, start)[f]
           x == Write(f, from)
<1>1. CASE i = 1 /\ part = "BUTTONS"
  <2>1. PartBytes(part, start) = [buttons |-> {1, 2}]
    BY <1>1, BytesOfParts
  <2>2. f = "buttons" /\ from = {1, 2}
    BY <2>1
  <2> QED
    BY <2>2 DEF MustWrites, ButtonsWrite
<1>2. CASE i = 2 /\ part = "ACC" /\ start = 3 /\ kind \in AccNamed
  <2>1. PartBytes(part, start) = [acc_x |-> {1, 3}, acc_y |-> {2, 4}, acc_z |-> {2, 5}]
    BY <1>2, BytesOfParts
  <2>2. \/ f = "acc_x" /\ from = {1, 3}
        \/ f = "acc_y" /\ from = {2, 4}
        \/ f = "acc_z" /\ from = {2, 5}
    BY <2>1
  <2> QED
    BY <1>2, <2>2 DEF MustWrites, WriteX, WriteY, WriteZ
<1>3. CASE i = 3 /\ part = "IR_12B" /\ start = 6 /\ kind = "BUTTONS_ACC_IR_12B"
  <2>1. PartBytes(part, start)
          = [dot1 |-> 6..8, dot2 |-> 9..11, dot3 |-> 12..14, dot4 |-> 15..17]
    BY <1>3, BytesOfParts
  <2>2. \/ f = "dot1" /\ from = 6..8
        \/ f = "dot2" /\ from = 9..11
        \/ f = "dot3" /\ from = 12..14
        \/ f = "dot4" /\ from = 15..17
    BY <2>1
  <2>3. /\ DotWrite(1) = Write("dot1", 6..8) /\ DotWrite(2) = Write("dot2", 9..11)
        /\ DotWrite(3) = Write("dot3", 12..14) /\ DotWrite(4) = Write("dot4", 15..17)
    <3>1. /\ Dots[1] = "dot1" /\ Dots[2] = "dot2" /\ Dots[3] = "dot3" /\ Dots[4] = "dot4"
      BY DEF Dots
    <3>2. /\ 3 * 1 + 3 = 6 /\ 3 * 1 + 5 = 8 /\ 3 * 2 + 3 = 9 /\ 3 * 2 + 5 = 11
          /\ 3 * 3 + 3 = 12 /\ 3 * 3 + 5 = 14 /\ 3 * 4 + 3 = 15 /\ 3 * 4 + 5 = 17
      OBVIOUS
    <3> QED
      BY <3>1, <3>2, Zenon DEF DotWrite
  <2>4. \E k \in 1..4 : x = DotWrite(k)
    <3>1. 1 \in 1..4 /\ 2 \in 1..4 /\ 3 \in 1..4 /\ 4 \in 1..4
      OBVIOUS
    <3> QED
      BY <2>2, <2>3, <3>1, Zenon
  <2> QED
    BY <1>3, <2>4 DEF MustWrites
<1>4. CASE /\ part \in {"EXT_8B", "EXT_16B", "EXT_19B"} /\ start \in {3, 6}
           /\ MayWrites(kind) = ExtWrites(start)
  <2>1. PartBytes(part, start) = [nunchuk |-> start..(start + 5), nunchuk_low |-> {start + 5},
                                  gyro_raw |-> start..(start + 5)]
    BY <1>4, BytesOfParts
  <2>2. \/ f = "nunchuk" /\ from = start..(start + 5)
        \/ f = "nunchuk_low" /\ from = {start + 5}
        \/ f = "gyro_raw" /\ from = start..(start + 5)
    BY <2>1
  <2> QED
    BY <1>4, <2>2 DEF ExtWrites
<1> QED
  BY <1>1, <1>2, <1>3, <1>4, PartsOfKinds

\* Whatever was in the buffer and in the fields before, and whatever getters do
\* meanwhile: a report that has been handled has each field of which its name tells
\* (reports.hpp:18-33) from exactly the bytes that the name tells, but for the two
\* kinds of MisreadKinds.
THEOREM FieldsDecodedAsNamed == Spec => []DecodedAsNamed
<1>1. ASSUME InputInv, StateOrigins, NamedInv, [Next]_vars PROVE NamedInv'
  <2>1. CASE UNCHANGED <<sent, todo, state>>
    BY <1>1, <2>1, OthersNamed
  <2>2. ASSUME NEW r \in Received, ReadReport(r) PROVE NamedInv'
    BY <1>1, <2>2, ReadReportNamed
  <2>3. CASE Lock
    BY <2>1, <2>3 DEF Lock
  <2>4. CASE WriteField \/ Unlock
    BY <1>1, <2>4, WriteFieldNamed, UnlockNamed
  <2>5. ASSUME NEW t \in Callers, Get(t) \/ \E g \in Called : CallGetter(t, g) PROVE NamedInv'
    <3>1. UNCHANGED readVars
      BY <2>5 DEF Get, LockShared, ReadField, UnlockShared, EndSection, CallGetter
    <3> QED
      BY <2>1, <3>1 DEF readVars
  <2>6. CASE UNCHANGED vars
    BY <2>1, <2>6 DEF vars, readVars
  <2> QED
    BY <1>1, <2>2, <2>3, <2>4, <2>5, <2>6 DEF Next, Handle
<1>2. Init => NamedInv
  BY DEF Init, NamedInv
<1>3. ASSUME NamedInv PROVE DecodedAsNamed
  <2> DEFINE n == Len(sent)
             kind == LastReport.kind
  <2> SUFFICES ASSUME todo = <<>>, sent # <<>>,
                      NEW i \in DOMAIN NamedParts(kind), NEW start,
                      start = IF i = 1 THEN 1 ELSE PartStart(kind, i),
                      NEW f \in DOMAIN PartBytes(NamedParts(kind)[i], start)
               PROVE  LET from == PartBytes(NamedParts(kind)[i], start)[f]
                      IN  \/ state[f] = {[byte |-> b, report |-> n] : b \in from}
                          \/ /\ f \in {"nunchuk", "nunchuk_low", "gyro_raw"}
                             /\ \A s \in state[f] : s.report # n
    BY DEF DecodedAsNamed, LastReport
  <2> DEFINE from == PartBytes(NamedParts(kind)[i], start)[f]
             x == Write(f, from)
  <2>1. x.field = f /\ x.from = from
    BY WriteParts
  <2>2. \/ x \in MustWrites(kind)
        \/ x \in MayWrites(kind) /\ f \in {"nunchuk", "nunchuk_low", "gyro_raw"}
    BY PartsAreNamed
  <2> HIDE DEF from, x, kind
  <2>3. ~Pending(x)
    BY DEF Pending, ComesUp
  <2>4. Done(x) \/ (Untouched(x) /\ f \in {"nunchuk", "nunchuk_low", "gyro_raw"})
    BY <1>3, <2>2, <2>3 DEF NamedInv, kind
  <2>5. Done(x) => state[f] = {[byte |-> b, report |-> n] : b \in from}
    BY <2>1 DEF Done, Own
  <2>6. Untouched(x) => \A s \in state[f] : s.report # n
    BY <2>1 DEF Untouched
  <2> QED
    BY <2>4, <2>5, <2>6 DEF from
<1> QED
  BY <1>1, <1>2, <1>3, InputInvariant, OriginsInvariant, PTL DEF Spec

=============================================================================
