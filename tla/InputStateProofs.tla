-------------------------- MODULE InputStateProofs --------------------------
(***************************************************************************)
(* What a getter has read under a mutex stands until it unlocks it, for    *)
(* any input reports, any number of them and any callers.  The argument    *)
(* has two parts: every handler and every getter touches a field only      *)
(* under the mutex declared for it, but for handle_status, and the locks   *)
(* keep the read thread and the getters apart.                             *)
(***************************************************************************)
EXTENDS InputState, SequenceTheorems, TLAPS

\* The writes handlers make, and those allowed under a mutex: handle_status makes
\* those guarded by m_extension_mutex under another one.
Writes ==
  [field : Fields \ Values, from : SUBSET Nat, keep : BOOLEAN]
    \cup [field : {"m_extension"}, from : Extensions, keep : {FALSE}]
    \cup [field : {"m_motionplus"}, from : MotionPlus, keep : {FALSE}]
    \cup [field : {"ir_enabled"}, from : BOOLEAN, keep : {FALSE}]

WritesUnder(mutex) == {w \in Writes : Guard[w.field] \in {mutex, "m_extension_mutex"}}

WriteSections ==
  UNION {[mutex : {mutex}, accesses : Seq(WritesUnder(mutex))] : mutex \in Mutexes}

\* The reads getters make, each under the field's mutex.
ReadsUnder(mutex) == {f \in Fields : Guard[f] = mutex}

ReadSections ==
  UNION {[mutex : {mutex}, accesses : Seq(ReadsUnder(mutex))] : mutex \in Mutexes}

-----------------------------------------------------------------------------
(* What handlers write. *)

LEMMA MutexNames ==
  Mutexes = {"m_button_mutex", "m_acc_mutex", "m_ir_mutex", "m_status_mutex",
             "m_extension_mutex"}
  BY DEF Mutexes, Fields, Guard

LEMMA BytesWritten ==
  ASSUME NEW mutex \in Mutexes, NEW f \in Fields \ Values, Guard[f] = mutex,
         NEW from \in SUBSET Nat
  PROVE  Write(f, from) \in WritesUnder(mutex) /\ WriteOr(f, from) \in WritesUnder(mutex)
  BY DEF Write, WriteOr, WritesUnder, Writes

LEMMA SectionWritten ==
  ASSUME NEW mutex \in Mutexes, NEW s \in Seq(WritesUnder(mutex))
  PROVE  <<Section(mutex, s)>> \in Seq(WriteSections)
  BY DEF Section, WriteSections

LEMMA ButtonsWritten ==
  ASSUME NEW at \in Nat
  PROVE  handle_buttons_only(at) \in Seq(WriteSections)
<1>1. "m_button_mutex" \in Mutexes /\ Guard["buttons"] = "m_button_mutex"
      /\ "buttons" \in Fields \ Values
  BY MutexNames DEF Guard, Fields, Values
<1>2. Write("buttons", {at, at + 1}) \in WritesUnder("m_button_mutex")
  BY <1>1, BytesWritten
<1>3. <<Write("buttons", {at, at + 1})>> \in Seq(WritesUnder("m_button_mutex"))
  BY <1>2
<1> QED
  BY <1>1, <1>3, SectionWritten DEF handle_buttons_only

LEMMA AccWritten ==
  ASSUME NEW x \in SUBSET Nat, NEW y \in SUBSET Nat, NEW z \in SUBSET Nat
  PROVE  /\ <<Section("m_acc_mutex", <<Write("acc_x", x), Write("acc_y", y),
                                       Write("acc_z", z)>>)>> \in Seq(WriteSections)
         /\ <<Section("m_acc_mutex", <<Write("acc_x", x), WriteOr("acc_z", z)>>)>>
              \in Seq(WriteSections)
         /\ <<Section("m_acc_mutex", <<Write("acc_y", y), WriteOr("acc_z", z)>>)>>
              \in Seq(WriteSections)
         /\ <<Section("m_acc_mutex", <<Write("acc_calib", x)>>)>> \in Seq(WriteSections)
<1>1. "m_acc_mutex" \in Mutexes
      /\ \A f \in {"acc_x", "acc_y", "acc_z", "acc_calib"} :
           f \in Fields \ Values /\ Guard[f] = "m_acc_mutex"
  BY MutexNames DEF Guard, Fields, Values
<1>2. \A f \in {"acc_x", "acc_y", "acc_z", "acc_calib"}, from \in SUBSET Nat :
        /\ Write(f, from) \in WritesUnder("m_acc_mutex")
        /\ WriteOr(f, from) \in WritesUnder("m_acc_mutex")
  BY <1>1, BytesWritten
<1>3. /\ <<Write("acc_x", x), Write("acc_y", y), Write("acc_z", z)>>
           \in Seq(WritesUnder("m_acc_mutex"))
      /\ <<Write("acc_x", x), WriteOr("acc_z", z)>> \in Seq(WritesUnder("m_acc_mutex"))
      /\ <<Write("acc_y", y), WriteOr("acc_z", z)>> \in Seq(WritesUnder("m_acc_mutex"))
      /\ <<Write("acc_calib", x)>> \in Seq(WritesUnder("m_acc_mutex"))
  BY <1>2
<1> QED
  BY <1>1, <1>3, SectionWritten

LEMMA DotsWritten ==
  ASSUME NEW s \in Seq([field : {Dots[i] : i \in 1..4}, from : SUBSET Nat, keep : {FALSE}])
  PROVE  <<Section("m_ir_mutex", s)>> \in Seq(WriteSections)
<1>1. "m_ir_mutex" \in Mutexes
      /\ \A i \in 1..4 : Dots[i] \in Fields \ Values /\ Guard[Dots[i]] = "m_ir_mutex"
  BY MutexNames DEF Guard, Fields, Values, Dots
<1>2. [field : {Dots[i] : i \in 1..4}, from : SUBSET Nat, keep : {FALSE}]
        \subseteq WritesUnder("m_ir_mutex")
  BY <1>1 DEF WritesUnder, Writes
<1>3. s \in Seq(WritesUnder("m_ir_mutex"))
  BY <1>2, SeqMonotonic
<1> QED
  BY <1>1, <1>3, SectionWritten

LEMMA NumberedAreSeq ==
  ASSUME NEW S, NEW n \in Nat, NEW s \in [1..n -> S]
  PROVE  s \in Seq(S)
  OBVIOUS

LEMMA DotHandlersWrite ==
  ASSUME NEW at \in Nat, NEW initial \in BOOLEAN
  PROVE  /\ handle_ir_data_basic(at) \in Seq(WriteSections)
         /\ handle_ir_data_extended(at) \in Seq(WriteSections)
         /\ handle_ir_full(at, initial) \in Seq(WriteSections)
<1> DEFINE W == [field : {Dots[i] : i \in 1..4}, from : SUBSET Nat, keep : {FALSE}]
<1>1. \A i \in 1..4, from \in SUBSET Nat : Write(Dots[i], from) \in W
  BY DEF Write
<1>2. handle_ir_data_basic(at) \in Seq(WriteSections)
  <2>1. \A a \in SUBSET Nat, b \in SUBSET Nat :
          <<Write("dot1", a), Write("dot2", b), Write("dot3", a), Write("dot4", b)>> \in Seq(W)
    <3>1. \A from \in SUBSET Nat, i \in 1..4 : Write(Dots[i], from) \in W
      BY <1>1
    <3> HIDE DEF W
    <3>2. \A from \in SUBSET Nat : /\ Write("dot1", from) \in W /\ Write("dot2", from) \in W
                                   /\ Write("dot3", from) \in W /\ Write("dot4", from) \in W
      BY <3>1 DEF Dots
    <3> QED
      BY <3>2
  <2>2. {at, at + 1, at + 2} \in SUBSET Nat /\ {at + 3, at + 4, at + 2} \in SUBSET Nat
    OBVIOUS
  <2> QED
    BY <2>1, <2>2, DotsWritten DEF handle_ir_data_basic
<1>3. handle_ir_data_extended(at) \in Seq(WriteSections)
  <2>1. \A i \in 1..4 : (at + 3 * i - 3)..(at + 3 * i - 1) \in SUBSET Nat
    OBVIOUS
  <2>2. \A i \in 1..4 : Write(Dots[i], (at + 3 * i - 3)..(at + 3 * i - 1)) \in W
    BY <1>1, <2>1
  <2> HIDE DEF W
  <2>3. [i \in 1..4 |-> Write(Dots[i], (at + 3 * i - 3)..(at + 3 * i - 1))] \in [1..4 -> W]
    BY <2>2
  <2>4. [i \in 1..4 |-> Write(Dots[i], (at + 3 * i - 3)..(at + 3 * i - 1))] \in Seq(W)
    BY <2>3, NumberedAreSeq
  <2> QED
    BY <2>4, DotsWritten DEF handle_ir_data_extended, W
<1>4. handle_ir_full(at, initial) \in Seq(WriteSections)
  <2> DEFINE offset == IF initial THEN 0 ELSE 2
  <2>1. \A i \in 1..2 : /\ (at + 9 * i - 9)..(at + 9 * i - 7) \in SUBSET Nat
                        /\ i + offset \in 1..4
    OBVIOUS
  <2> HIDE DEF offset
  <2>2. \A i \in 1..2 : Write(Dots[i + offset], (at + 9 * i - 9)..(at + 9 * i - 7)) \in W
    BY <1>1, <2>1
  <2> HIDE DEF W
  <2>3. [i \in 1..2 |-> Write(Dots[i + offset], (at + 9 * i - 9)..(at + 9 * i - 7))]
          \in [1..2 -> W]
    BY <2>2
  <2>4. [i \in 1..2 |-> Write(Dots[i + offset], (at + 9 * i - 9)..(at + 9 * i - 7))] \in Seq(W)
    BY <2>3, NumberedAreSeq
  <2> QED
    BY <2>4, DotsWritten DEF handle_ir_full, offset, W
<1> QED
  BY <1>2, <1>3, <1>4

\* One handler after the other.
LEMMA InTurn ==
  ASSUME NEW s \in Seq(WriteSections), NEW u \in Seq(WriteSections)
  PROVE  s \o u \in Seq(WriteSections)
  BY ConcatProperties

LEMMA InterleavedWrite ==
  ASSUME NEW at \in Nat
  PROVE  /\ handle_interleaved_a(at) \in Seq(WriteSections)
         /\ handle_interleaved_b(at) \in Seq(WriteSections)
         /\ handle_buttons_acc(at) \in Seq(WriteSections)
<1>1. /\ at + 4 \in Nat /\ at + 2 + 4 \in Nat
      /\ {at + 1} \in SUBSET Nat /\ {at + 2} \in SUBSET Nat /\ {at, at + 1} \in SUBSET Nat
      /\ {at, at + 2} \in SUBSET Nat /\ {at + 1, at + 3} \in SUBSET Nat
      /\ {at + 1, at + 4} \in SUBSET Nat
  OBVIOUS
<1>2. /\ handle_buttons_only(at) \in Seq(WriteSections)
      /\ handle_ir_full(at + 4, TRUE) \in Seq(WriteSections)
      /\ handle_ir_full(at + 2 + 4, TRUE) \in Seq(WriteSections)
  BY <1>1, ButtonsWritten, DotHandlersWrite
<1>3. /\ <<Section("m_acc_mutex", <<Write("acc_x", {at + 1}), WriteOr("acc_z", {at, at + 1})>>)>>
           \in Seq(WriteSections)
      /\ <<Section("m_acc_mutex", <<Write("acc_y", {at + 2}), WriteOr("acc_z", {at, at + 1})>>)>>
           \in Seq(WriteSections)
      /\ <<Section("m_acc_mutex", <<Write("acc_x", {at, at + 2}), Write("acc_y", {at + 1, at + 3}),
                                    Write("acc_z", {at + 1, at + 4})>>)>> \in Seq(WriteSections)
  BY <1>1, AccWritten
<1> QED
  BY <1>2, <1>3, InTurn DEF handle_interleaved_a, handle_interleaved_b, handle_buttons_acc

LEMMA ExtensionBytesWritten ==
  ASSUME NEW at \in Nat, NEW mpls, NEW e, NEW m
  PROVE  handle_extension_data(at, mpls, e, m) \in Seq(WriteSections)
<1>1. "m_extension_mutex" \in Mutexes
      /\ \A f \in {"nunchuk", "nunchuk_low", "gyro_raw"} :
           f \in Fields \ Values /\ Guard[f] = "m_extension_mutex"
  BY MutexNames DEF Guard, Fields, Values
<1>2. at..(at + 5) \in SUBSET Nat /\ {at + 5} \in SUBSET Nat
  OBVIOUS
<1> DEFINE W == WritesUnder("m_extension_mutex")
<1>3. /\ Write("gyro_raw", at..(at + 5)) \in W /\ Write("nunchuk", at..(at + 5)) \in W
      /\ Write("nunchuk_low", {at + 5}) \in W
  BY <1>1, <1>2, BytesWritten
<1> HIDE DEF W
<1>4. /\ <<Write("gyro_raw", at..(at + 5))>> \in Seq(W)
      /\ <<Write("nunchuk", at..(at + 5))>> \in Seq(W)
      /\ <<Write("nunchuk", at..(at + 5)), Write("nunchuk_low", {at + 5})>> \in Seq(W)
      /\ << >> \in Seq(W)
  BY <1>3
<1>5. \A s \in Seq(W) : <<Section("m_extension_mutex", s)>> \in Seq(WriteSections)
  BY <1>1, SectionWritten DEF W
<1> HIDE DEF W
<1> DEFINE active == m \notin {"none", "EXTENSION_ONLY"}
           written ==
             CASE active /\ mpls -> <<Write("gyro_raw", at..(at + 5))>>
               [] active /\ ~mpls /\ e = "NunchukRaw" -> <<Write("nunchuk", at..(at + 5))>>
               [] ~active /\ e = "NunchukRaw" ->
                    <<Write("nunchuk", at..(at + 5)), Write("nunchuk_low", {at + 5})>>
               [] OTHER -> <<>>
<1>6. written \in Seq(W)
  BY <1>4
<1>7. handle_extension_data(at, mpls, e, m) = <<Section("m_extension_mutex", written)>>
  BY DEF handle_extension_data
<1> QED
  BY <1>5, <1>6, <1>7

\* What is decided is written to m_extension and m_motionplus, under whichever mutex.
LEMMA DecisionsWritten ==
  ASSUME NEW mutex \in Mutexes, NEW d, d.m_extension \in Extensions,
         d.m_motionplus \in MotionPlus, NEW assigned, NEW was
  PROVE  Decided(d, assigned, was) \in Seq(WritesUnder(mutex))
<1> DEFINE W == WritesUnder(mutex)
<1>1. \A f \in {"nunchuk", "nunchuk_low", "gyro_raw"} :
        f \in Fields \ Values /\ Guard[f] = "m_extension_mutex"
  BY DEF Guard, Fields, Values
<1>2. /\ Write("nunchuk", {}) \in W /\ Write("nunchuk_low", {}) \in W
      /\ Write("gyro_raw", {}) \in W
  BY <1>1 DEF Write, WritesUnder, Writes
<1>3. /\ Write("m_extension", d.m_extension) \in W
      /\ Write("m_motionplus", d.m_motionplus) \in W
  BY DEF Write, WritesUnder, Writes, Guard
<1> HIDE DEF W
<1> DEFINE first == IF assigned
                      THEN <<Write("m_extension", d.m_extension), Write("nunchuk", {}),
                             Write("nunchuk_low", {})>>
                      ELSE <<>>
           second == IF d.m_motionplus = was THEN <<>>
                     ELSE IF "none" \in {was, d.m_motionplus}
                       THEN <<Write("m_motionplus", d.m_motionplus), Write("gyro_raw", {})>>
                       ELSE <<Write("m_motionplus", d.m_motionplus)>>
<1>4. first \in Seq(W) /\ second \in Seq(W)
  BY <1>2, <1>3
<1>5. Decided(d, assigned, was) = first \o second
  BY DEF Decided
<1> HIDE DEF first, second
<1> QED
  BY <1>4, <1>5, ConcatProperties DEF W

\* What the two rules decide.
LEMMA Decisions ==
  ASSUME NEW e \in Extensions, NEW m \in MotionPlus, NEW plugged \in BOOLEAN,
         NEW id \in ExtensionIds
  PROVE  /\ OnStatus(plugged, e, m).m_extension \in Extensions
         /\ OnStatus(plugged, e, m).m_motionplus \in MotionPlus
         /\ OnIdentifier(id, e, m).m_extension \in Extensions
         /\ OnIdentifier(id, e, m).m_motionplus \in MotionPlus
<1>1. /\ \A x \in {"monostate", "NunchukRaw", "ClassicController"} : x \in Extensions
      /\ \A y \in {"none", "MOTIONPLUS_ONLY", "EXTENSION_ONLY", "NUNCHUK_PASSTHROUGH"} :
           y \in MotionPlus
  BY DEF Extensions, MotionPlus
<1>2. \A x, y, calls : /\ Decision(x, y, calls).m_extension = x
                      /\ Decision(x, y, calls).m_motionplus = y
  BY DEF Decision
<1> QED
  BY <1>1, <1>2 DEF OnStatus, OnIdentifier

LEMMA StatusWritten ==
  ASSUME NEW at \in Nat, NEW r, r.connected \in BOOLEAN, r.ir_enabled \in BOOLEAN,
         NEW e \in Extensions, NEW m \in MotionPlus
  PROVE  handle_status(at, r, e, m) \in Seq(WriteSections)
<1> DEFINE W == WritesUnder("m_status_mutex")
           decided == Decided(OnStatus(r.connected, e, m),
                              OnStatus(r.connected, e, m).m_extension # e, m)
           before == <<Write("battery_very_low", {at})>>
           after == <<Write("ir_enabled", r.ir_enabled), Write("battery_level", {at + 3})>>
<1>1. "m_status_mutex" \in Mutexes
  BY MutexNames
<1>2. decided \in Seq(W)
  <2>1. /\ OnStatus(r.connected, e, m).m_extension \in Extensions
        /\ OnStatus(r.connected, e, m).m_motionplus \in MotionPlus
    BY Decisions DEF ExtensionIds
  <2> QED
    BY <1>1, <2>1, DecisionsWritten
<1>3. before \in Seq(W)
  <2>1. Write("battery_very_low", {at}) \in W
    <3>1. "battery_very_low" \in Fields \ Values /\ Guard["battery_very_low"] = "m_status_mutex"
      BY DEF Guard, Fields, Values
    <3> QED
      BY <1>1, <3>1, BytesWritten
  <2> HIDE DEF W
  <2> QED
    BY <2>1
<1>4. after \in Seq(W)
  <2>1. Write("battery_level", {at + 3}) \in W
    <3>1. "battery_level" \in Fields \ Values /\ Guard["battery_level"] = "m_status_mutex"
      BY DEF Guard, Fields, Values
    <3>2. {at + 3} \in SUBSET Nat
      OBVIOUS
    <3> QED
      BY <1>1, <3>1, <3>2, BytesWritten
  <2>2. Write("ir_enabled", r.ir_enabled) \in W
    BY DEF Write, WritesUnder, Writes, Guard
  <2> HIDE DEF W
  <2> QED
    BY <2>1, <2>2
<1>5. handle_status(at, r, e, m) = <<Section("m_status_mutex", before \o decided \o after)>>
  BY DEF handle_status
<1> HIDE DEF before, decided, after, W
<1>6. before \o decided \o after \in Seq(W)
  BY <1>2, <1>3, <1>4, ConcatProperties
<1> QED
  BY <1>1, <1>5, <1>6, SectionWritten DEF W

LEMMA MemReadWritten ==
  ASSUME NEW at \in Nat, NEW answer, NEW e \in Extensions, NEW m \in MotionPlus
  PROVE  handle_mem_read(at, answer, e, m) \in Seq(WriteSections)
<1>1. CASE answer \in ExtensionIds
  <2>1. /\ OnIdentifier(answer, e, m).m_extension \in Extensions
        /\ OnIdentifier(answer, e, m).m_motionplus \in MotionPlus
    BY <1>1, Decisions
  <2>2. "m_extension_mutex" \in Mutexes
    BY MutexNames
  <2>3. Decided(OnIdentifier(answer, e, m), answer \in AssigningIds, m)
          \in Seq(WritesUnder("m_extension_mutex"))
    BY <2>1, <2>2, DecisionsWritten
  <2> QED
    BY <1>1, <2>2, <2>3, SectionWritten DEF handle_mem_read
<1>2. CASE answer \notin ExtensionIds /\ answer = "wiimote_calibration"
  <2>1. (at + 3)..(at + 12) \in SUBSET Nat
    OBVIOUS
  <2> QED
    BY <1>2, <2>1, AccWritten DEF handle_mem_read
<1>3. CASE answer \notin ExtensionIds /\ answer # "wiimote_calibration"
  BY <1>3, EmptySeq DEF handle_mem_read
<1> QED
  BY <1>1, <1>2, <1>3

\* What a report has, by its kind.
LEMMA ReportIs ==
  ASSUME NEW r \in InputReports
  PROVE  /\ r.kind \in {"STATUS_INFORMATION", "MEMORY_READ"} \cup ExtensionKinds \cup PlainKinds
         /\ r.kind = "STATUS_INFORMATION" => r.connected \in BOOLEAN /\ r.ir_enabled \in BOOLEAN
<1>1. CASE r \notin ExtensionReports
  BY <1>1 DEF InputReports, PlainKinds, InterleavedKinds
<1>2. CASE r \in ExtensionReports
  <2>1. PICK k \in ExtensionKinds : r \in [kind : {k}, mpls_bits : SUBSET MplsBytes[k]]
    BY <1>2, Zenon DEF ExtensionReports
  <2>2. r.kind \in ExtensionKinds
    BY <2>1
  <2> QED
    BY <2>2 DEF ExtensionKinds
<1> QED
  BY <1>1, <1>2

\* Every report leads to sections that write what their mutex guards.
LEMMA HandlersWrite ==
  ASSUME NEW r \in InputReports, NEW e \in Extensions, NEW m \in MotionPlus
  PROVE  Handlers(r, e, m) \in Seq(WriteSections)
<1>1. \A at \in Nat : /\ handle_buttons_only(at) \in Seq(WriteSections)
                      /\ handle_buttons_acc(at) \in Seq(WriteSections)
                      /\ handle_interleaved_a(at) \in Seq(WriteSections)
                      /\ handle_interleaved_b(at) \in Seq(WriteSections)
                      /\ handle_ir_data_basic(at) \in Seq(WriteSections)
                      /\ handle_ir_data_extended(at) \in Seq(WriteSections)
  BY ButtonsWritten, InterleavedWrite, DotHandlersWrite
<1>2. \A at \in Nat :
        handle_extension_data(at, at + 5 \in r.mpls_bits, e, m) \in Seq(WriteSections)
  BY ExtensionBytesWritten
<1>3. \A at \in Nat : handle_mem_read(at, r.answer, e, m) \in Seq(WriteSections)
  BY MemReadWritten
<1>4. r.kind = "STATUS_INFORMATION" => handle_status(3, r, e, m) \in Seq(WriteSections)
  <2> SUFFICES ASSUME r.kind = "STATUS_INFORMATION"
               PROVE  handle_status(3, r, e, m) \in Seq(WriteSections)
    OBVIOUS
  <2>1. r.connected \in BOOLEAN /\ r.ir_enabled \in BOOLEAN
    BY ReportIs
  <2> QED
    BY <2>1, StatusWritten
<1> DEFINE S == Seq(WriteSections)
<1>5. \A s \in S, u \in S : s \o u \in S
  BY InTurn
<1>6. 1 \in Nat /\ 3 \in Nat /\ 6 \in Nat /\ 15 \in Nat /\ 16 \in Nat
  OBVIOUS
<1>7. r.kind \in {"STATUS_INFORMATION", "MEMORY_READ"} \cup ExtensionKinds \cup PlainKinds
  BY ReportIs
<1> HIDE DEF S
<1>8. CASE r.kind \in {"STATUS_INFORMATION", "MEMORY_READ", "ACK_OUTPUT_REPORT", "BUTTONS",
                       "BUTTONS_ACC"}
  BY <1>1, <1>3, <1>4, <1>5, <1>6, <1>8 DEF Handlers, S
<1>9. CASE r.kind \in {"BUTTONS_EXT_8B", "BUTTONS_EXT_19B", "BUTTONS_ACC_EXT_16B",
                       "BUTTONS_ACC_IR_12B"}
  BY <1>1, <1>2, <1>5, <1>6, <1>9 DEF Handlers, S
<1>10. CASE r.kind \in {"BUTTONS_IR_10B_EXTENSION_9B", "BUTTONS_ACC_IR_10B_EXTENSION_6B"}
  BY <1>1, <1>2, <1>5, <1>6, <1>10 DEF Handlers, S
<1>11. CASE r.kind \in InterleavedKinds
  BY <1>1, <1>11 DEF Handlers, InterleavedKinds
<1> QED
  BY <1>7, <1>8, <1>9, <1>10, <1>11 DEF ExtensionKinds, PlainKinds

-----------------------------------------------------------------------------
(* What getters read. *)

\* A getter reads under each mutex once.
Once(sections) ==
  \A i \in 1..Len(sections), j \in 1..Len(sections) :
    i # j => sections[i].mutex # sections[j].mutex

LEMMA ReadSection ==
  ASSUME NEW mutex \in Mutexes, NEW s \in Seq(ReadsUnder(mutex))
  PROVE  Section(mutex, s) \in ReadSections /\ Section(mutex, s).mutex = mutex
  BY DEF Section, ReadSections

\* Four getters called one after the other.
LEMMA FourInTurn ==
  ASSUME NEW S, NEW a \in S, NEW b \in S, NEW c \in S, NEW d \in S
  PROVE  <<a>> \o <<b>> \o <<c>> \o <<d>> = <<a, b, c, d>>
<1> DEFINE s == <<a>> \o <<b>> \o <<c>> \o <<d>>
           t == <<a, b, c, d>>
<1>1. /\ <<a>> \in Seq(S) /\ <<b>> \in Seq(S) /\ <<c>> \in Seq(S) /\ <<d>> \in Seq(S)
      /\ t \in Seq(S) /\ Len(t) = 4 /\ t[1] = a /\ t[2] = b /\ t[3] = c /\ t[4] = d
  OBVIOUS
<1>2. s \in Seq(S) /\ Len(s) = 4
  BY <1>1
<1>3. s[1] = a /\ s[2] = b /\ s[3] = c /\ s[4] = d
  BY <1>1
<1> HIDE DEF s, t
<1>4. \A i \in 1..Len(s) : s[i] = t[i]
  BY <1>1, <1>2, <1>3
<1>5. s = t
  BY <1>1, <1>2, <1>4, SeqEqual
<1> QED
  BY <1>5 DEF s, t

LEMMA GettersRead ==
  ASSUME NEW g \in DOMAIN Getter
  PROVE  Getter[g] \in Seq(ReadSections) /\ Once(Getter[g])
<1> DEFINE buttons == Section("m_button_mutex", <<"buttons">>)
           enabled == Section("m_status_mutex", <<"ir_enabled">>)
           dots == Section("m_ir_mutex", Dots)
           st == Section("m_status_mutex", <<"battery_very_low", "ir_enabled", "battery_level">>)
           acc == Section("m_acc_mutex", <<"acc_calib", "acc_x", "acc_z", "acc_y">>)
           mpls == Section("m_extension_mutex", <<"m_motionplus", "gyro_raw">>)
<1>3. buttons \in ReadSections /\ buttons.mutex = "m_button_mutex"
  <2> DEFINE R == ReadsUnder("m_button_mutex")
  <2>1. "buttons" \in R
    BY DEF ReadsUnder, Fields, Guard
  <2> HIDE DEF R
  <2>2. <<"buttons">> \in Seq(R)
    BY <2>1
  <2> QED
    BY <2>2, MutexNames, ReadSection DEF R
<1>4. /\ enabled \in ReadSections /\ enabled.mutex = "m_status_mutex"
      /\ st \in ReadSections /\ st.mutex = "m_status_mutex"
  <2> DEFINE R == ReadsUnder("m_status_mutex")
  <2>1. \A f \in {"battery_very_low", "ir_enabled", "battery_level"} : f \in R
    BY DEF ReadsUnder, Fields, Guard
  <2> HIDE DEF R
  <2>2. <<"ir_enabled">> \in Seq(R) /\ <<"battery_very_low", "ir_enabled", "battery_level">> \in Seq(R)
    BY <2>1
  <2> QED
    BY <2>2, MutexNames, ReadSection DEF R
<1>5. dots \in ReadSections /\ dots.mutex = "m_ir_mutex"
  <2> DEFINE R == ReadsUnder("m_ir_mutex")
  <2>1. \A f \in {"dot1", "dot2", "dot3", "dot4"} : f \in R
    BY DEF ReadsUnder, Fields, Guard
  <2> HIDE DEF R
  <2>2. Dots \in Seq(R)
    BY <2>1 DEF Dots
  <2> QED
    BY <2>2, MutexNames, ReadSection DEF R
<1>6. acc \in ReadSections /\ acc.mutex = "m_acc_mutex"
  <2> DEFINE R == ReadsUnder("m_acc_mutex")
  <2>1. \A f \in {"acc_calib", "acc_x", "acc_z", "acc_y"} : f \in R
    BY DEF ReadsUnder, Fields, Guard
  <2> HIDE DEF R
  <2>2. <<"acc_calib", "acc_x", "acc_z", "acc_y">> \in Seq(R)
    BY <2>1
  <2> QED
    BY <2>2, MutexNames, ReadSection DEF R
<1>7. mpls \in ReadSections /\ mpls.mutex = "m_extension_mutex"
  <2> DEFINE R == ReadsUnder("m_extension_mutex")
  <2>1. "m_motionplus" \in R /\ "gyro_raw" \in R
    BY DEF ReadsUnder, Fields, Guard
  <2> HIDE DEF R
  <2>2. <<"m_motionplus", "gyro_raw">> \in Seq(R)
    BY <2>1
  <2> QED
    BY <2>2, MutexNames, ReadSection DEF R
<1>8. /\ get_buttons = <<buttons>> /\ ir_dots = <<enabled, dots>> /\ status = <<st>>
      /\ accelerometer = <<acc>> /\ motionplus = <<mpls>>
  BY DEF get_buttons, ir_dots, status, accelerometer, motionplus
<1> HIDE DEF buttons, enabled, dots, st, acc, mpls
<1>9. controller_data = <<st, buttons, acc, mpls>>
  <2>1. <<st>> \o <<buttons>> \o <<acc>> \o <<mpls>> = <<st, buttons, acc, mpls>>
    BY <1>3, <1>4, <1>6, <1>7, FourInTurn
  <2> QED
    BY <1>8, <2>1, Zenon DEF controller_data
<1>10. Getter[g] \in {<<buttons>>, <<enabled, dots>>, <<st>>, <<acc>>, <<mpls>>,
                      <<st, buttons, acc, mpls>>}
  BY <1>8, <1>9 DEF Getter
<1>11. /\ <<buttons>> \in Seq(ReadSections) /\ <<st>> \in Seq(ReadSections)
       /\ <<acc>> \in Seq(ReadSections) /\ <<mpls>> \in Seq(ReadSections)
       /\ <<enabled, dots>> \in Seq(ReadSections)
       /\ <<st, buttons, acc, mpls>> \in Seq(ReadSections)
  BY <1>3, <1>4, <1>5, <1>6, <1>7
<1>12. /\ Once(<<buttons>>) /\ Once(<<st>>) /\ Once(<<acc>>) /\ Once(<<mpls>>)
       /\ Once(<<enabled, dots>>)
  BY <1>4, <1>5 DEF Once
<1>13. Once(<<st, buttons, acc, mpls>>)
  BY <1>3, <1>4, <1>6, <1>7 DEF Once
<1> QED
  BY <1>10, <1>11, <1>12, <1>13

\* Every getter has something to read.
LEMMA GetterReads ==
  ASSUME NEW g \in DOMAIN Getter
  PROVE  g # "none" /\ Getter[g] # <<>>
<1>1. g \in {"get_buttons", "ir_dots", "status", "accelerometer", "motionplus",
             "controller_data"}
  BY DEF Getter
<1>2. /\ get_buttons # <<>> /\ ir_dots # <<>> /\ status # <<>> /\ accelerometer # <<>>
      /\ motionplus # <<>> /\ controller_data # <<>>
  BY DEF get_buttons, ir_dots, status, accelerometer, motionplus, controller_data
<1> QED
  BY <1>1, <1>2 DEF Getter

-----------------------------------------------------------------------------
(* The locks. *)

ReadThreadInv ==
  /\ todo \in Seq(WriteSections)
  /\ locked \in BOOLEAN /\ (locked => todo # <<>>)
  /\ state = [f \in Fields |-> state[f]]
  /\ state["m_extension"] \in Extensions /\ state["m_motionplus"] \in MotionPlus

\* What a getter has read, it has read under a mutex that is not to be locked by it
\* again: the one it holds or one it has unlocked.
CallersInv ==
  /\ reading \in [Callers -> Seq(ReadSections)]
  /\ holds \in [Callers -> BOOLEAN]
  /\ call = [t \in Callers |-> call[t]] /\ got = [t \in Callers |-> got[t]]
  /\ \A t \in Callers :
       /\ holds[t] => reading[t] # <<>>
       /\ Once(reading[t])
       /\ DOMAIN got[t] \subseteq Fields
       /\ call[t] = "none" => reading[t] = <<>> /\ DOMAIN got[t] = {} /\ ~holds[t]
       /\ reading[t] = <<>> => call[t] = "none"
       /\ \A f \in DOMAIN got[t], i \in 1..Len(reading[t]) :
            Guard[f] = reading[t][i].mutex => i = 1 /\ holds[t]

\* The read thread and a getter never hold the same mutex.
KeptApart ==
  \A t \in Callers : (holds[t] /\ locked) => Head(reading[t]).mutex # Head(todo).mutex

InputInv == ReadThreadInv /\ CallersInv /\ KeptApart /\ Snapshot

\* A section with other accesses.
LEMMA OtherAccesses ==
  ASSUME NEW S, NEW T, NEW section \in [mutex : S, accesses : T], NEW a
  PROVE  [section EXCEPT !.accesses = a] = [mutex |-> section.mutex, accesses |-> a]
  OBVIOUS

\* The next section, its accesses and what follows it.
LEMMA NextWrite ==
  ASSUME todo \in Seq(WriteSections), todo # <<>>
  PROVE  /\ Tail(todo) \in Seq(WriteSections)
         /\ Head(todo).accesses # <<>> =>
              LET w == Head(Head(todo).accesses) IN
                /\ w \in Writes /\ Guard[w.field] \in {Head(todo).mutex, "m_extension_mutex"}
                /\ Rest(Head(todo)).mutex = Head(todo).mutex
                /\ <<Rest(Head(todo))>> \o Tail(todo) \in Seq(WriteSections)
                /\ <<Rest(Head(todo))>> \o Tail(todo) # <<>>
                /\ Head(<<Rest(Head(todo))>> \o Tail(todo)) = Rest(Head(todo))
<1> DEFINE section == Head(todo)
<1>1. section \in WriteSections /\ Tail(todo) \in Seq(WriteSections)
  BY HeadTailProperties
<1>2. PICK mutex \in Mutexes :
        section \in [mutex : {mutex}, accesses : Seq(WritesUnder(mutex))]
  BY <1>1 DEF WriteSections
<1> HIDE DEF section
<1>3. section.mutex = mutex /\ section.accesses \in Seq(WritesUnder(mutex))
  BY <1>2
<1> SUFFICES ASSUME section.accesses # <<>>
             PROVE  LET w == Head(section.accesses) IN
                /\ w \in Writes /\ Guard[w.field] \in {section.mutex, "m_extension_mutex"}
                /\ Rest(section).mutex = section.mutex
                /\ <<Rest(section)>> \o Tail(todo) \in Seq(WriteSections)
                /\ <<Rest(section)>> \o Tail(todo) # <<>>
                /\ Head(<<Rest(section)>> \o Tail(todo)) = Rest(section)
  BY <1>1 DEF section
<1>4. /\ Head(section.accesses) \in WritesUnder(mutex)
      /\ Tail(section.accesses) \in Seq(WritesUnder(mutex))
  BY <1>3, HeadTailProperties
<1>5. Rest(section) = [mutex |-> mutex, accesses |-> Tail(section.accesses)]
  <2> DEFINE T == Seq(WritesUnder(mutex))
  <2>1. section \in [mutex : {mutex}, accesses : T]
    BY <1>2
  <2> HIDE DEF T
  <2>2. \A a : [section EXCEPT !.accesses = a] = [mutex |-> section.mutex, accesses |-> a]
    BY <2>1, OtherAccesses
  <2> QED
    BY <1>3, <2>2, Zenon DEF Rest
<1>6. Rest(section) \in WriteSections
  BY <1>4, <1>5 DEF WriteSections
<1>7. /\ <<Rest(section)>> \o Tail(todo) \in Seq(WriteSections)
      /\ <<Rest(section)>> \o Tail(todo) # <<>>
      /\ Head(<<Rest(section)>> \o Tail(todo)) = Rest(section)
  BY <1>1, <1>6
<1>8. Rest(section).mutex = section.mutex
  BY <1>3, <1>5
<1>9. /\ Head(section.accesses) \in Writes
      /\ Guard[Head(section.accesses).field] \in {section.mutex, "m_extension_mutex"}
  BY <1>3, <1>4 DEF WritesUnder
<1> QED
  BY <1>7, <1>8, <1>9

\* A section of a getter that is replaced by a shorter one with the same mutex.
LEMMA NextRead ==
  ASSUME NEW s \in Seq(ReadSections), s # <<>>
  PROVE  /\ Tail(s) \in Seq(ReadSections) /\ Head(s) = s[1] /\ 1 \in 1..Len(s)
         /\ Len(Tail(s)) = Len(s) - 1 /\ \A i \in 1..Len(Tail(s)) : Tail(s)[i] = s[i + 1]
         /\ Head(s).accesses # <<>> =>
              LET f == Head(Head(s).accesses)
                  stop == <<[Head(s) EXCEPT !.accesses = <<>>]>>
                  next == <<Rest(Head(s))>> \o Tail(s)
              IN /\ f \in Fields /\ Guard[f] = Head(s).mutex
                 /\ stop \in Seq(ReadSections) /\ next \in Seq(ReadSections)
                 /\ Len(stop) = 1 /\ stop[1].mutex = s[1].mutex
                 /\ Len(next) = Len(s) /\ \A i \in 1..Len(s) : next[i].mutex = s[i].mutex
<1> DEFINE section == Head(s)
<1>1. /\ section \in ReadSections /\ Tail(s) \in Seq(ReadSections) /\ section = s[1]
      /\ Len(Tail(s)) = Len(s) - 1 /\ \A i \in 1..Len(Tail(s)) : Tail(s)[i] = s[i + 1]
      /\ Len(s) \in Nat /\ 1 \in 1..Len(s)
  BY HeadTailProperties, EmptySeq, LenProperties
<1>2. PICK mutex \in Mutexes :
        section \in [mutex : {mutex}, accesses : Seq(ReadsUnder(mutex))]
  BY <1>1 DEF ReadSections
<1> HIDE DEF section
<1>3. section.mutex = mutex /\ section.accesses \in Seq(ReadsUnder(mutex))
  BY <1>2
<1> SUFFICES ASSUME section.accesses # <<>>
             PROVE  LET f == Head(section.accesses)
                        stop == <<[section EXCEPT !.accesses = <<>>]>>
                        next == <<Rest(section)>> \o Tail(s)
                    IN /\ f \in Fields /\ Guard[f] = section.mutex
                       /\ stop \in Seq(ReadSections) /\ next \in Seq(ReadSections)
                       /\ Len(stop) = 1 /\ stop[1].mutex = s[1].mutex
                       /\ Len(next) = Len(s) /\ \A i \in 1..Len(s) : next[i].mutex = s[i].mutex
  BY <1>1 DEF section
<1>4. /\ Head(section.accesses) \in ReadsUnder(mutex)
      /\ Tail(section.accesses) \in Seq(ReadsUnder(mutex))
      /\ << >> \in Seq(ReadsUnder(mutex))
  BY <1>3, HeadTailProperties, EmptySeq
<1> DEFINE stopped == [section EXCEPT !.accesses = <<>>]
           rest == Rest(section)
<1>5. /\ stopped = [mutex |-> mutex, accesses |-> <<>>]
      /\ rest = [mutex |-> mutex, accesses |-> Tail(section.accesses)]
  <2> DEFINE T == Seq(ReadsUnder(mutex))
  <2>1. section \in [mutex : {mutex}, accesses : T]
    BY <1>2
  <2> HIDE DEF T
  <2>2. \A a : [section EXCEPT !.accesses = a] = [mutex |-> section.mutex, accesses |-> a]
    BY <2>1, OtherAccesses
  <2> QED
    BY <1>3, <2>2, Zenon DEF Rest
<1> HIDE DEF stopped, rest
<1>6. /\ stopped \in ReadSections /\ rest \in ReadSections
      /\ stopped.mutex = mutex /\ rest.mutex = mutex
  BY <1>4, <1>5 DEF ReadSections
<1>7. <<stopped>> \in Seq(ReadSections) /\ Len(<<stopped>>) = 1 /\ <<stopped>>[1] = stopped
  BY <1>6
<1> DEFINE next == <<rest>> \o Tail(s)
<1>8. /\ next \in Seq(ReadSections) /\ Len(next) = Len(s) /\ next[1] = rest
      /\ \A i \in 2..Len(s) : next[i] = Tail(s)[i - 1]
  BY <1>1, <1>6
<1> HIDE DEF next
<1>9. \A i \in 1..Len(s) : next[i].mutex = s[i].mutex
  <2> TAKE i \in 1..Len(s)
  <2>1. CASE i = 1
    BY <1>1, <1>3, <1>6, <1>8, <2>1
  <2>2. CASE i # 1
    <3>1. i \in 2..Len(s) /\ i - 1 \in 1..Len(Tail(s)) /\ i - 1 + 1 = i
      BY <1>1, <2>2
    <3> QED
      BY <1>1, <1>8, <3>1
  <2> QED
    BY <2>1, <2>2
<1>10. Head(section.accesses) \in Fields /\ Guard[Head(section.accesses)] = section.mutex
  BY <1>3, <1>4 DEF ReadsUnder
<1> QED
  BY <1>1, <1>3, <1>6, <1>7, <1>8, <1>9, <1>10 DEF stopped, rest, next

LEMMA InitInputInv == Init => InputInv
<1> SUFFICES ASSUME Init PROVE InputInv
  OBVIOUS
<1>1. todo \in Seq(WriteSections) /\ locked \in BOOLEAN /\ ~locked
  BY EmptySeq DEF Init
<1>2. "m_extension" \in Fields /\ "m_motionplus" \in Fields
  BY DEF Fields, Guard
<1>3. /\ state = [f \in Fields |-> state[f]]
      /\ state["m_extension"] = "monostate" /\ state["m_motionplus"] = "none"
  BY <1>2 DEF Init
<1>4. state["m_extension"] \in Extensions /\ state["m_motionplus"] \in MotionPlus
  BY <1>3 DEF Extensions, MotionPlus
<1>5. /\ reading \in [Callers -> Seq(ReadSections)] /\ holds \in [Callers -> BOOLEAN]
      /\ call = [t \in Callers |-> call[t]] /\ got = [t \in Callers |-> got[t]]
  BY EmptySeq DEF Init
<1>6. \A t \in Callers : reading[t] = <<>> /\ ~holds[t] /\ DOMAIN got[t] = {} /\ call[t] = "none"
  BY DEF Init, Nothing
<1>7. \A t \in Callers : Len(reading[t]) = 0
  BY <1>6
<1> HIDE DEF Init
<1>8. CallersInv
  BY <1>5, <1>6, <1>7 DEF CallersInv, Once
<1>9. KeptApart /\ Snapshot
  BY <1>6 DEF KeptApart, Snapshot, HeldBy
<1> QED
  BY <1>1, <1>3, <1>4, <1>8, <1>9 DEF InputInv, ReadThreadInv

\* The read thread's steps leave the callers alone.
LEMMA CallersKept ==
  ASSUME CallersInv, UNCHANGED callVars
  PROVE  CallersInv'
  BY DEF CallersInv, callVars, Once

LEMMA ReadReportKeepsInv ==
  ASSUME InputInv, NEW r \in Received, ReadReport(r)
  PROVE  InputInv'
<1>1. UNCHANGED <<locked, state>> /\ UNCHANGED callVars /\ todo = <<>>
  BY DEF ReadReport
<1>2. todo' \in Seq(WriteSections)
  BY InputAssumption, HandlersWrite DEF ReadReport, InputInv, ReadThreadInv
<1>3. ~locked /\ ReadThreadInv'
  BY <1>1, <1>2 DEF InputInv, ReadThreadInv
<1>4. KeptApart' /\ Snapshot'
  BY <1>1, <1>3 DEF KeptApart, Snapshot, HeldBy, callVars, InputInv
<1> QED
  BY <1>1, <1>3, <1>4, CallersKept DEF InputInv

LEMMA LockKeepsInv ==
  ASSUME InputInv, Lock
  PROVE  InputInv'
<1>1. UNCHANGED <<todo, state>> /\ UNCHANGED callVars /\ todo # <<>> /\ locked' = TRUE
  BY DEF Lock
<1>2. ReadThreadInv'
  BY <1>1 DEF InputInv, ReadThreadInv
<1>3. KeptApart'
  BY <1>1 DEF Lock, KeptApart, callVars
<1>4. Snapshot'
  BY <1>1 DEF Snapshot, HeldBy, callVars, InputInv
<1> QED
  BY <1>1, <1>2, <1>3, <1>4, CallersKept DEF InputInv

LEMMA UnlockKeepsInv ==
  ASSUME InputInv, Unlock
  PROVE  InputInv'
<1>1. UNCHANGED state /\ UNCHANGED callVars /\ locked' = FALSE /\ todo' = Tail(todo) /\ todo # <<>>
  BY DEF Unlock, InputInv, ReadThreadInv
<1>2. ReadThreadInv'
  BY <1>1, HeadTailProperties DEF InputInv, ReadThreadInv
<1>3. KeptApart' /\ Snapshot'
  BY <1>1 DEF KeptApart, Snapshot, HeldBy, callVars, InputInv
<1> QED
  BY <1>1, <1>2, <1>3, CallersKept DEF InputInv

\* A write is to a field whose mutex no getter holds, or of the extension.
LEMMA WriteFieldKeepsInv ==
  ASSUME InputInv, WriteField
  PROVE  InputInv'
<1> DEFINE w == Head(Head(todo).accesses)
           value == IF w.keep THEN state[w.field] \cup Stored(w) ELSE Stored(w)
<1>1. /\ UNCHANGED locked /\ UNCHANGED callVars /\ locked /\ Head(todo).accesses # <<>>
      /\ state' = [state EXCEPT ![w.field] = value]
      /\ todo' = <<Rest(Head(todo))>> \o Tail(todo)
  BY DEF WriteField
<1>2. todo \in Seq(WriteSections) /\ todo # <<>>
  BY <1>1 DEF InputInv, ReadThreadInv
<1>3. /\ w \in Writes /\ Guard[w.field] \in {Head(todo).mutex, "m_extension_mutex"}
      /\ todo' \in Seq(WriteSections) /\ todo' # <<>> /\ Head(todo').mutex = Head(todo).mutex
  BY <1>1, <1>2, NextWrite
<1>4. /\ w.field \in Fields
      /\ w.field = "m_extension" => value \in Extensions
      /\ w.field = "m_motionplus" => value \in MotionPlus
  <2>1. /\ w.field \in Fields
        /\ w.field = "m_extension" => w.from \in Extensions /\ ~w.keep
        /\ w.field = "m_motionplus" => w.from \in MotionPlus /\ ~w.keep
    BY <1>3 DEF Writes, Values, Fields, Guard
  <2> QED
    BY <2>1 DEF Stored, Values
<1> HIDE DEF value
<1>5. /\ state' = [f \in Fields |-> state'[f]] /\ state'[w.field] = value
      /\ \A f \in Fields \ {w.field} : state'[f] = state[f]
  BY <1>1, <1>4 DEF InputInv, ReadThreadInv
<1>6. "m_extension" \in Fields /\ "m_motionplus" \in Fields
  BY DEF Fields, Guard
<1> HIDE DEF w
<1>7. ReadThreadInv'
  BY <1>1, <1>3, <1>4, <1>5, <1>6 DEF InputInv, ReadThreadInv
<1>8. KeptApart'
  BY <1>1, <1>3 DEF KeptApart, callVars, InputInv
<1>9. Snapshot'
  <2> SUFFICES ASSUME NEW t \in Callers, NEW f \in HeldBy(t), Guard[f] # "m_extension_mutex"
               PROVE  got[t][f] = state'[f]
    BY <1>1 DEF Snapshot, HeldBy, callVars
  <2>1. holds[t] /\ Guard[f] = Head(reading[t]).mutex /\ f \in Fields
    BY DEF HeldBy, InputInv, CallersInv
  <2>2. Guard[f] # Head(todo).mutex
    BY <1>1, <2>1 DEF InputInv, KeptApart
  <2>3. f # w.field
    BY <1>3, <2>2
  <2> QED
    BY <1>5, <2>1, <2>3 DEF InputInv, Snapshot
<1> QED
  BY <1>1, <1>7, <1>8, <1>9, CallersKept DEF InputInv

\* The getters' steps leave the read thread alone.
LEMMA ReadThreadKept ==
  ASSUME ReadThreadInv, UNCHANGED readVars
  PROVE  ReadThreadInv'
  BY DEF ReadThreadInv, readVars

LEMMA CallGetterKeepsInv ==
  ASSUME InputInv, NEW t \in Callers, NEW g \in Called, CallGetter(t, g)
  PROVE  InputInv'
<1>1. /\ UNCHANGED readVars /\ UNCHANGED <<holds, got>> /\ call[t] = "none"
      /\ call' = [call EXCEPT ![t] = g] /\ reading' = [reading EXCEPT ![t] = Getter[g]]
  BY DEF CallGetter
<1>2. Getter[g] \in Seq(ReadSections) /\ Once(Getter[g]) /\ g # "none" /\ Getter[g] # <<>>
  <2>1. g \in DOMAIN Getter
    BY InputAssumption
  <2>2. Getter[g] \in Seq(ReadSections) /\ Once(Getter[g])
    BY <2>1, GettersRead
  <2>3. g # "none" /\ Getter[g] # <<>>
    BY <2>1, GetterReads
  <2> QED
    BY <2>2, <2>3
<1>3. DOMAIN got[t] = {} /\ ~holds[t]
  BY <1>1 DEF InputInv, CallersInv
<1>4. CallersInv'
  <2>1. /\ reading' \in [Callers -> Seq(ReadSections)] /\ holds' \in [Callers -> BOOLEAN]
        /\ call' = [u \in Callers |-> call'[u]] /\ got' = [u \in Callers |-> got'[u]]
        /\ call'[t] = g /\ reading'[t] = Getter[g]
        /\ \A u \in Callers \ {t} : call'[u] = call[u] /\ reading'[u] = reading[u]
    BY <1>1, <1>2 DEF InputInv, CallersInv
  <2> QED
    BY <1>1, <1>2, <1>3, <2>1 DEF InputInv, CallersInv
<1>5. KeptApart' /\ Snapshot'
  BY <1>1, <1>3 DEF InputInv, CallersInv, KeptApart, Snapshot, HeldBy, readVars
<1> QED
  BY <1>1, <1>4, <1>5, ReadThreadKept DEF InputInv

LEMMA LockSharedKeepsInv ==
  ASSUME InputInv, NEW t \in Callers, LockShared(t)
  PROVE  InputInv'
<1>1. /\ UNCHANGED readVars /\ UNCHANGED <<call, reading, got>>
      /\ reading[t] # <<>> /\ ~holds[t] /\ holds' = [holds EXCEPT ![t] = TRUE]
      /\ locked => Head(todo).mutex # Head(reading[t]).mutex
  BY DEF LockShared
<1>2. /\ holds' \in [Callers -> BOOLEAN] /\ holds'[t]
      /\ \A u \in Callers \ {t} : holds'[u] = holds[u]
      /\ call[t] # "none"
  BY <1>1 DEF InputInv, CallersInv
<1>3. CallersInv'
  <2>1. \A u \in Callers : (holds'[u] => reading[u] # <<>>) /\ (call[u] = "none" => ~holds'[u])
    BY <1>1, <1>2 DEF InputInv, CallersInv
  <2>2. \A u \in Callers : holds[u] => holds'[u]
    BY <1>2
  <2>3. \A u \in Callers : \A f \in DOMAIN got[u], i \in 1..Len(reading[u]) :
          Guard[f] = reading[u][i].mutex => i = 1 /\ holds'[u]
    BY <2>2 DEF InputInv, CallersInv
  <2> QED
    BY <1>1, <1>2, <2>1, <2>3 DEF InputInv, CallersInv, Once
<1>4. KeptApart'
  BY <1>1 DEF InputInv, CallersInv, KeptApart, readVars
<1>5. Snapshot'
  <2> SUFFICES ASSUME NEW u \in Callers, NEW f \in HeldBy(u)', Guard[f] # "m_extension_mutex"
               PROVE  got[u][f] = state[f]
    BY <1>1 DEF Snapshot, readVars
  <2>1. CASE u = t
    <3>1. f \in DOMAIN got[t] /\ Guard[f] = Head(reading[t]).mutex
      BY <1>1, <2>1 DEF HeldBy
    <3>2. 1 \in 1..Len(reading[t]) /\ Head(reading[t]) = reading[t][1]
      BY <1>1, NextRead DEF InputInv, CallersInv
    <3>3. Guard[f] = reading[t][1].mutex
      BY <3>1, <3>2
    <3>4. holds[t]
      BY <3>1, <3>2, <3>3 DEF InputInv, CallersInv
    <3> QED
      BY <1>1, <3>4
  <2>2. CASE u # t
    <3>1. f \in HeldBy(u)
      BY <1>1, <2>2 DEF HeldBy, InputInv, CallersInv
    <3> QED
      BY <3>1 DEF InputInv, Snapshot
  <2> QED
    BY <2>1, <2>2
<1> QED
  BY <1>1, <1>3, <1>4, <1>5, ReadThreadKept DEF InputInv

\* A field is read under its mutex, and as it is.
LEMMA ReadFieldKeepsInv ==
  ASSUME InputInv, NEW t \in Callers, ReadField(t)
  PROVE  InputInv'
<1> DEFINE f == Head(Head(reading[t]).accesses)
           stop == <<[Head(reading[t]) EXCEPT !.accesses = <<>>]>>
           next == <<Rest(Head(reading[t]))>> \o Tail(reading[t])
<1>1. /\ UNCHANGED readVars /\ UNCHANGED <<call, holds>> /\ holds[t]
      /\ Head(reading[t]).accesses # <<>>
      /\ got' = [got EXCEPT ![t] = [x \in DOMAIN got[t] \cup {f} |->
                                      IF x = f THEN state[f] ELSE got[t][x]]]
      /\ \/ reading' = [reading EXCEPT ![t] = stop]
         \/ reading' = [reading EXCEPT ![t] = next]
  BY DEF ReadField
<1>2. reading[t] \in Seq(ReadSections) /\ reading[t] # <<>> /\ call[t] # "none"
  BY <1>1 DEF InputInv, CallersInv
<1>3. /\ f \in Fields /\ Guard[f] = Head(reading[t]).mutex
      /\ Head(reading[t]) = reading[t][1] /\ 1 \in 1..Len(reading[t])
      /\ stop \in Seq(ReadSections) /\ next \in Seq(ReadSections)
      /\ Len(stop) = 1 /\ stop[1].mutex = reading[t][1].mutex
      /\ Len(next) = Len(reading[t])
      /\ \A i \in 1..Len(reading[t]) : next[i].mutex = reading[t][i].mutex
  BY <1>1, <1>2, NextRead
<1> HIDE DEF f, stop, next
<1> DEFINE left == reading'[t]
<1>4. /\ left \in {stop, next} /\ \A u \in Callers \ {t} : reading'[u] = reading[u]
      /\ reading' = [u \in Callers |-> reading'[u]]
  BY <1>1 DEF InputInv, CallersInv
<1>5. /\ left \in Seq(ReadSections) /\ left # <<>> /\ Head(left) = left[1]
      /\ Len(left) \in Nat /\ Len(left) <= Len(reading[t]) /\ 1 \in 1..Len(left)
      /\ \A i \in 1..Len(left) : left[i].mutex = reading[t][i].mutex
  <2>1. left \in Seq(ReadSections) /\ Len(left) \in Nat /\ Len(left) <= Len(reading[t])
        /\ 1 \in 1..Len(left) /\ \A i \in 1..Len(left) : left[i].mutex = reading[t][i].mutex
    <3>1. CASE left = stop
      <4>1. \A i \in 1..1 : i = 1
        OBVIOUS
      <4>2. Len(reading[t]) \in Nat /\ 1 <= Len(reading[t])
        BY <1>2, <1>3, LenProperties
      <4> HIDE DEF left
      <4>3. \A i \in 1..Len(left) : left[i].mutex = reading[t][i].mutex
        BY <1>3, <3>1, <4>1
      <4>4. left \in Seq(ReadSections) /\ Len(left) = 1
        BY <1>3, <3>1
      <4>5. Len(left) \in Nat /\ Len(left) <= Len(reading[t]) /\ 1 \in 1..Len(left)
        BY <4>2, <4>4
      <4> QED
        BY <4>3, <4>4, <4>5
    <3>2. CASE left = next
      <4>1. Len(reading[t]) \in Nat
        BY <1>2, LenProperties
      <4> QED
        BY <1>3, <3>2, <4>1
    <3> HIDE DEF left
    <3> QED
      BY <1>4, <3>1, <3>2
  <2> HIDE DEF left
  <2>2. left # <<>>
    BY <2>1
  <2> QED
    BY <2>1, <2>2, NextRead
<1>6. /\ DOMAIN got'[t] = DOMAIN got[t] \cup {f} /\ got'[t][f] = state[f]
      /\ \A x \in DOMAIN got[t] \ {f} : got'[t][x] = got[t][x]
      /\ \A u \in Callers \ {t} : got'[u] = got[u]
      /\ got' = [u \in Callers |-> got'[u]]
  BY <1>1 DEF InputInv, CallersInv
<1> HIDE DEF left
<1>7. CallersInv'
  <2>1. reading' \in [Callers -> Seq(ReadSections)]
    <3>1. \A u \in Callers : reading[u] \in Seq(ReadSections)
      BY DEF InputInv, CallersInv
    <3>2. reading'[t] \in Seq(ReadSections)
      BY <1>5 DEF left
    <3> QED
      BY <1>4, <3>1, <3>2
  <2>2. Once(left)
    <3> SUFFICES ASSUME NEW i \in 1..Len(left), NEW j \in 1..Len(left), i # j
                 PROVE  left[i].mutex # left[j].mutex
      BY DEF Once
    <3>1. i \in 1..Len(reading[t]) /\ j \in 1..Len(reading[t])
      BY <1>2, <1>5, LenProperties
    <3>2. reading[t][i].mutex # reading[t][j].mutex
      BY <3>1 DEF InputInv, CallersInv, Once
    <3> QED
      BY <1>5, <3>2
  <2>3. \A x \in DOMAIN got'[t], i \in 1..Len(left) : Guard[x] = left[i].mutex => i = 1
    <3> SUFFICES ASSUME NEW x \in DOMAIN got'[t], NEW i \in 1..Len(left),
                        Guard[x] = left[i].mutex
                 PROVE  i = 1
      OBVIOUS
    <3>1. i \in 1..Len(reading[t]) /\ Guard[x] = reading[t][i].mutex
      BY <1>2, <1>5, LenProperties
    <3>2. CASE x \in DOMAIN got[t]
      BY <3>1, <3>2 DEF InputInv, CallersInv
    <3>3. CASE x = f
      <4>1. 1 \in 1..Len(reading[t]) /\ reading[t][1].mutex = reading[t][i].mutex
        BY <1>3, <3>1, <3>3
      <4>2. Once(reading[t])
        BY DEF InputInv, CallersInv
      <4> QED
        BY <3>1, <4>1, <4>2 DEF Once
    <3> QED
      BY <1>6, <3>2, <3>3
  <2>4. DOMAIN got'[t] \subseteq Fields
    BY <1>3, <1>6 DEF InputInv, CallersInv
  <2> QED
    BY <1>1, <1>2, <1>4, <1>5, <1>6, <2>1, <2>2, <2>3, <2>4 DEF left, InputInv, CallersInv
<1>8. Head(reading'[t]).mutex = Head(reading[t]).mutex
  BY <1>3, <1>5 DEF left
<1>9. KeptApart'
  BY <1>1, <1>4, <1>8 DEF InputInv, KeptApart, readVars
<1>10. Snapshot'
  <2> SUFFICES ASSUME NEW u \in Callers, NEW x \in HeldBy(u)', Guard[x] # "m_extension_mutex"
               PROVE  got'[u][x] = state[x]
    BY <1>1 DEF Snapshot, readVars
  <2>1. CASE u = t
    <3>1. x \in DOMAIN got'[t] /\ Guard[x] = Head(reading[t]).mutex
      BY <1>8, <2>1 DEF HeldBy
    <3>2. CASE x = f
      BY <1>6, <2>1, <3>2
    <3>3. CASE x # f
      <4>1. x \in HeldBy(t)
        BY <1>1, <1>6, <3>1, <3>3 DEF HeldBy
      <4> QED
        BY <1>6, <2>1, <3>1, <3>3, <4>1 DEF InputInv, Snapshot
    <3> QED
      BY <3>2, <3>3
  <2>2. CASE u # t
    <3>1. x \in HeldBy(u)
      BY <1>1, <1>4, <1>6, <2>2 DEF HeldBy
    <3> QED
      BY <1>6, <2>2, <3>1 DEF InputInv, Snapshot
  <2> QED
    BY <2>1, <2>2
<1> QED
  BY <1>1, <1>7, <1>9, <1>10, ReadThreadKept DEF InputInv

\* What was read under a mutex is not read under it again.
LEMMA UnlockSharedKeepsInv ==
  ASSUME InputInv, NEW t \in Callers, UnlockShared(t)
  PROVE  InputInv'
<1>1. /\ UNCHANGED readVars /\ holds[t]
      /\ holds' = [holds EXCEPT ![t] = FALSE]
      /\ reading' = [reading EXCEPT ![t] = Tail(reading[t])]
      /\ IF Len(reading[t]) = 1
           THEN call' = [call EXCEPT ![t] = "none"] /\ got' = [got EXCEPT ![t] = Nothing]
           ELSE UNCHANGED <<call, got>>
  BY DEF UnlockShared, EndSection
<1>2. reading[t] \in Seq(ReadSections) /\ reading[t] # <<>> /\ call[t] # "none"
  BY <1>1 DEF InputInv, CallersInv
<1> DEFINE left == Tail(reading[t])
<1>3. /\ left \in Seq(ReadSections) /\ Len(left) = Len(reading[t]) - 1
      /\ \A i \in 1..Len(left) : left[i] = reading[t][i + 1]
      /\ Len(reading[t]) \in Nat
  BY <1>2, NextRead, LenProperties
<1>4. (left = <<>>) <=> Len(reading[t]) = 1
  <2>1. (left = <<>>) <=> Len(left) = 0
    BY <1>3, EmptySeq
  <2> HIDE DEF left
  <2> QED
    BY <1>3, <2>1
<1> HIDE DEF left
<1>5. \A i \in 1..Len(left) : i + 1 \in 1..Len(reading[t]) /\ i + 1 # 1
  BY <1>3
<1>6. /\ holds' \in [Callers -> BOOLEAN] /\ ~holds'[t]
      /\ \A u \in Callers \ {t} : holds'[u] = holds[u]
      /\ reading' \in [Callers -> Seq(ReadSections)] /\ reading'[t] = left
      /\ \A u \in Callers \ {t} : reading'[u] = reading[u]
  BY <1>1, <1>3 DEF left, InputInv, CallersInv
<1>7. /\ call' = [u \in Callers |-> call'[u]] /\ got' = [u \in Callers |-> got'[u]]
      /\ \A u \in Callers \ {t} : call'[u] = call[u] /\ got'[u] = got[u]
      /\ got'[t] \in {Nothing, got[t]} /\ ((left = <<>>) <=> call'[t] = "none")
      /\ call'[t] = "none" => DOMAIN got'[t] = {}
  BY <1>1, <1>2, <1>4 DEF InputInv, CallersInv, Nothing
<1>8. DOMAIN Nothing = {}
  BY DEF Nothing
<1>9. Once(left)
  <2> SUFFICES ASSUME NEW i \in 1..Len(left), NEW j \in 1..Len(left), i # j
               PROVE  left[i].mutex # left[j].mutex
    BY DEF Once
  <2>1. i + 1 \in 1..Len(reading[t]) /\ j + 1 \in 1..Len(reading[t]) /\ i + 1 # j + 1
    BY <1>5
  <2>2. reading[t][i + 1].mutex # reading[t][j + 1].mutex
    BY <2>1 DEF InputInv, CallersInv, Once
  <2> QED
    BY <1>3, <2>2
<1>10. \A f \in DOMAIN got'[t], i \in 1..Len(left) : Guard[f] # left[i].mutex
  <2> SUFFICES ASSUME NEW f \in DOMAIN got'[t], NEW i \in 1..Len(left),
                      Guard[f] = left[i].mutex
               PROVE  FALSE
    OBVIOUS
  <2>1. f \in DOMAIN got[t]
    BY <1>7, <1>8
  <2>2. i + 1 \in 1..Len(reading[t]) /\ Guard[f] = reading[t][i + 1].mutex
    BY <1>3, <1>5
  <2>3. i + 1 = 1
    BY <2>1, <2>2 DEF InputInv, CallersInv
  <2> QED
    BY <1>5, <2>3
<1>11. CallersInv'
  BY <1>6, <1>7, <1>8, <1>9, <1>10 DEF InputInv, CallersInv
<1>12. KeptApart'
  BY <1>1, <1>6 DEF InputInv, KeptApart, readVars
<1>13. Snapshot'
  BY <1>1, <1>6, <1>7 DEF InputInv, Snapshot, HeldBy, readVars
<1> QED
  BY <1>1, <1>11, <1>12, <1>13, ReadThreadKept DEF InputInv

THEOREM InputInvariant == Spec => []InputInv
<1>1. InputInv /\ [Next]_vars => InputInv'
  <2> SUFFICES ASSUME InputInv, [Next]_vars PROVE InputInv'
    OBVIOUS
  <2>1. CASE UNCHANGED vars
    <3>1. UNCHANGED readVars /\ UNCHANGED callVars
      BY <2>1 DEF vars
    <3>2. ReadThreadInv' /\ CallersInv'
      BY <3>1, ReadThreadKept, CallersKept DEF InputInv
    <3>3. KeptApart' /\ Snapshot'
      BY <3>1 DEF InputInv, KeptApart, Snapshot, HeldBy, readVars, callVars
    <3> QED
      BY <3>2, <3>3 DEF InputInv
  <2>2. CASE Next
    BY <2>2, ReadReportKeepsInv, LockKeepsInv, WriteFieldKeepsInv, UnlockKeepsInv,
       CallGetterKeepsInv, LockSharedKeepsInv, ReadFieldKeepsInv, UnlockSharedKeepsInv
    DEF Next, Handle, Get
  <2> QED
    BY <2>1, <2>2
<1> QED
  BY <1>1, InitInputInv, PTL DEF Spec

\* What getters return, but of the extension, was the state at one instant.
THEOREM SnapshotTaken == Spec => []Snapshot
<1>1. InputInv => Snapshot
  BY DEF InputInv
<1> QED
  BY <1>1, InputInvariant, PTL

=============================================================================
