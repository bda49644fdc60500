--------------------------- MODULE ReportLayouts ---------------------------
(***************************************************************************)
(* What the handlers of read_loop do with an input report, and what a      *)
(* getter reads, as pure operators: which fields are written or read, in   *)
(* which critical sections, and from which bytes of the read buffer.       *)
(*                                                                         *)
(* A field's content is abstracted to where it comes from, a set of byte   *)
(* positions; the shifts that put the bits together are left out.  A dot   *)
(* is its position and size.  m_extension, m_motionplus and ir_enabled are *)
(* kept as values, because the code branches on them.                      *)
(***************************************************************************)
EXTENDS ExtensionRules

ExtensionKinds ==
  {"BUTTONS_EXT_8B", "BUTTONS_EXT_19B", "BUTTONS_ACC_EXT_16B",
   "BUTTONS_IR_10B_EXTENSION_9B", "BUTTONS_ACC_IR_10B_EXTENSION_6B"}

InterleavedKinds == {"BUTTONS_ACC_IR_36B", "BUTTONS_ACC_IR_36B_ALT"}

PlainKinds ==
  {"ACK_OUTPUT_REPORT", "BUTTONS", "BUTTONS_ACC", "BUTTONS_ACC_IR_12B"}
    \cup InterleavedKinds

\* The bytes that may be taken for the one with contains_mpls_data: the sixth of the
\* extension part and, where the handlers take that to start two bytes later, 20.
MplsBytes ==
  [BUTTONS_EXT_8B |-> {8}, BUTTONS_EXT_19B |-> {8}, BUTTONS_ACC_EXT_16B |-> {11},
   BUTTONS_IR_10B_EXTENSION_9B |-> {18, 20}, BUTTONS_ACC_IR_10B_EXTENSION_6B |-> {21}]

\* Which of them have the bit set.
ExtensionReports ==
  UNION {[kind : {k}, mpls_bits : SUBSET MplsBytes[k]] : k \in ExtensionKinds}

\* What of its content decides how a report is handled.  A memory read report
\* that answers nothing, or something on_mem_read ignores, is "other".
InputReports ==
  [kind : PlainKinds]
    \cup ExtensionReports
    \cup [kind : {"STATUS_INFORMATION"}, connected : BOOLEAN, ir_enabled : BOOLEAN]
    \cup [kind : {"MEMORY_READ"},
          answer : ExtensionIds \cup {"wiimote_calibration", "other"}]

\* The bytes hid_read returns: as asserted, or the size of what is in them.
Length ==
  [STATUS_INFORMATION |-> 7, MEMORY_READ |-> 22, ACK_OUTPUT_REPORT |-> 5,
   BUTTONS |-> 3, BUTTONS_ACC |-> 6, BUTTONS_EXT_8B |-> 11,
   BUTTONS_ACC_IR_12B |-> 18, BUTTONS_EXT_19B |-> 22, BUTTONS_ACC_EXT_16B |-> 22,
   BUTTONS_IR_10B_EXTENSION_9B |-> 22, BUTTONS_ACC_IR_10B_EXTENSION_6B |-> 22,
   BUTTONS_ACC_IR_36B |-> 18, BUTTONS_ACC_IR_36B_ALT |-> 18]

MAX_MESSAGE_LENGTH == 22

\* The mutex declared for each field.  nunchuk_low is the lowest bits of the
\* nunchuk's acceleration, which some reports do not have.
Dots == <<"dot1", "dot2", "dot3", "dot4">>
Guard ==
  [buttons |-> "m_button_mutex",
   acc_x |-> "m_acc_mutex", acc_y |-> "m_acc_mutex", acc_z |-> "m_acc_mutex",
   acc_calib |-> "m_acc_mutex",
   dot1 |-> "m_ir_mutex", dot2 |-> "m_ir_mutex",
   dot3 |-> "m_ir_mutex", dot4 |-> "m_ir_mutex",
   battery_very_low |-> "m_status_mutex", ir_enabled |-> "m_status_mutex",
   battery_level |-> "m_status_mutex",
   m_extension |-> "m_extension_mutex", nunchuk |-> "m_extension_mutex",
   nunchuk_low |-> "m_extension_mutex",
   m_motionplus |-> "m_extension_mutex", gyro_raw |-> "m_extension_mutex"]

Fields   == DOMAIN Guard
Mutexes  == {Guard[f] : f \in Fields}
Values   == {"m_extension", "m_motionplus", "ir_enabled"}  \* not sets of bytes

-----------------------------------------------------------------------------
(***************************************************************************)
(* A critical section of the read thread: a mutex and the writes made      *)
(* under it.  A write stores "from", bytes or a value; one that is ORed    *)
(* into the field keeps what was there.                                    *)
(***************************************************************************)
Section(mutex, accesses) == [mutex |-> mutex, accesses |-> accesses]
Write(field, from)   == [field |-> field, from |-> from, keep |-> FALSE]
WriteOr(field, from) == [field |-> field, from |-> from, keep |-> TRUE]

handle_buttons_only(at) ==
  <<Section("m_button_mutex", <<Write("buttons", {at, at + 1})>>)>>

\* a handler that takes the mutex for each axis.
handle_buttons_acc_by_axis(at) ==
  handle_buttons_only(at) \o
  <<Section("m_acc_mutex", <<Write("acc_x", {at, at + 2})>>),
    Section("m_acc_mutex", <<Write("acc_y", {at + 1, at + 3})>>),
    Section("m_acc_mutex", <<Write("acc_z", {at + 1, at + 4})>>)>>

\* The low bits of the acceleration are in the two button bytes.
handle_buttons_acc(at) ==
  handle_buttons_only(at) \o
  <<Section("m_acc_mutex", <<Write("acc_x", {at, at + 2}),
                             Write("acc_y", {at + 1, at + 3}),
                             Write("acc_z", {at + 1, at + 4})>>)>>

\* Both rounds of the loop read the same five bytes.
handle_ir_data_basic(at) ==
  LET a == {at, at + 1, at + 2}
      b == {at + 3, at + 4, at + 2}
  IN <<Section("m_ir_mutex", <<Write("dot1", a), Write("dot2", b),
                               Write("dot3", a), Write("dot4", b)>>)>>

handle_ir_data_extended(at) ==
  <<Section("m_ir_mutex",
      [i \in 1..4 |-> Write(Dots[i], (at + 3 * i - 3)..(at + 3 * i - 1))])>>

handle_ir_full(at, initial) ==
  LET offset == IF initial THEN 0 ELSE 2
  IN <<Section("m_ir_mutex",
         [i \in 1..2 |-> Write(Dots[i + offset], (at + 9 * i - 9)..(at + 9 * i - 7))])>>

handle_interleaved_a(at) ==
  handle_buttons_only(at)
    \o <<Section("m_acc_mutex", <<Write("acc_x", {at + 1}),
                                  WriteOr("acc_z", {at, at + 1})>>)>>
    \o handle_ir_full(at + 4, TRUE)

\* data has moved on by the size of the buttons when the dots are read.
handle_interleaved_b(at) ==
  handle_buttons_only(at)
    \o <<Section("m_acc_mutex", <<Write("acc_y", {at + 2}),
                                  WriteOr("acc_z", {at, at + 1})>>)>>
    \o handle_ir_full(at + 2 + 4, TRUE)

\* a handler that does not look at contains_mpls_data.
handle_extension_data_unasked(at, contains_mpls_data, e, m) ==
  <<Section("m_extension_mutex",
      IF m \notin {"none", "EXTENSION_ONLY"} THEN <<Write("gyro_raw", at..(at + 5))>>
      ELSE IF e = "NunchukRaw" THEN <<Write("nunchuk", at..(at + 5))>>
      ELSE <<>>)>>

\* Which of three layouts six bytes have is told by the MotionPlus mode and, in a
\* MotionPlus mode, by a bit of the report.  What is passed through by the
\* MotionPlus lacks the lowest bits of the acceleration; the old ones are kept.
handle_extension_data(at, contains_mpls_data, e, m) ==
  LET active == m \notin {"none", "EXTENSION_ONLY"}
      bytes  == at..(at + 5)
  IN <<Section("m_extension_mutex",
         CASE active /\ contains_mpls_data -> <<Write("gyro_raw", bytes)>>
           [] active /\ ~contains_mpls_data /\ e = "NunchukRaw" ->
                <<Write("nunchuk", bytes)>>
           [] ~active /\ e = "NunchukRaw" ->
                <<Write("nunchuk", bytes), Write("nunchuk_low", {at + 5})>>
           [] OTHER -> <<>>)>>

\* The writes that put a decision of handle_status or on_mem_read into effect.  A new
\* extension or a new MotionPlus has no data yet.
Decided(d, assigned, m) ==
  (IF assigned
     THEN <<Write("m_extension", d.m_extension), Write("nunchuk", {}), Write("nunchuk_low", {})>>
     ELSE <<>>)
    \o (IF d.m_motionplus = m THEN <<>>
        ELSE IF "none" \in {m, d.m_motionplus}
          THEN <<Write("m_motionplus", d.m_motionplus), Write("gyro_raw", {})>>
          ELSE <<Write("m_motionplus", d.m_motionplus)>>)

\* The identifiers for which on_mem_read assigns m_extension, be it the same as before.
AssigningIds ==
  {"NUNCHUK", "CLASSIC", "MPLS_CLASSIC", "BUILTIN_MPLS", "MPLS", "MPLS_NUNCHUK"}

\* Under m_status_mutex, m_extension and m_motionplus included.
handle_status(at, r, e, m) ==
  LET d == OnStatus(r.connected, e, m) IN
  <<Section("m_status_mutex",
      <<Write("battery_very_low", {at})>>
        \o Decided(d, d.m_extension # e, m)
        \o <<Write("ir_enabled", r.ir_enabled), Write("battery_level", {at + 3})>>)>>

\* handle_mem_read: what on_mem_read does with a complete answer.  The sixteen data
\* bytes follow the error and size byte and the address.
handle_mem_read(at, answer, e, m) ==
  IF answer \in ExtensionIds
    THEN <<Section("m_extension_mutex",
           Decided(OnIdentifier(answer, e, m), answer \in AssigningIds, m))>>
    ELSE IF answer = "wiimote_calibration"
      THEN <<Section("m_acc_mutex", <<Write("acc_calib", (at + 3)..(at + 12))>>)>>
      ELSE <<>>

-----------------------------------------------------------------------------
(***************************************************************************)
(* The switch of read_loop: the critical sections a report leads to.  Each *)
(* handler starts where those before it have got to by what they return:   *)
(* 2 bytes, 5 with the acceleration, 10 or 12 for the dots.  The bit that  *)
(* contains_mpls_data names is read from the sixth of the extension bytes. *)
(***************************************************************************)
Handlers(r, e, m) ==
  LET Ext(at) == handle_extension_data(at, at + 5 \in r.mpls_bits, e, m) IN
  CASE r.kind = "STATUS_INFORMATION" ->
         handle_buttons_only(1) \o handle_status(3, r, e, m)
    [] r.kind = "MEMORY_READ" ->
         handle_buttons_only(1) \o handle_mem_read(3, r.answer, e, m)
    [] r.kind \in {"ACK_OUTPUT_REPORT", "BUTTONS"} -> handle_buttons_only(1)
    [] r.kind = "BUTTONS_ACC" -> handle_buttons_acc(1)
    [] r.kind \in {"BUTTONS_EXT_8B", "BUTTONS_EXT_19B"} ->
         handle_buttons_only(1) \o Ext(3)
    [] r.kind = "BUTTONS_ACC_IR_12B" ->
         handle_buttons_acc(1) \o handle_ir_data_extended(6)
    [] r.kind = "BUTTONS_ACC_EXT_16B" -> handle_buttons_acc(1) \o Ext(6)
    [] r.kind = "BUTTONS_IR_10B_EXTENSION_9B" ->
         handle_buttons_only(1) \o handle_ir_data_extended(3) \o Ext(15)
    [] r.kind = "BUTTONS_ACC_IR_10B_EXTENSION_6B" ->
         handle_buttons_acc(1) \o handle_ir_data_basic(6) \o Ext(16)
    [] r.kind = "BUTTONS_ACC_IR_36B" -> handle_interleaved_a(1)
    [] r.kind = "BUTTONS_ACC_IR_36B_ALT" -> handle_interleaved_b(1)

-----------------------------------------------------------------------------
(***************************************************************************)
(* The getters, in the same form: the fields read under each mutex.        *)
(* controller_data is the handler that main gives to the DSU server.       *)
(***************************************************************************)
get_buttons == <<Section("m_button_mutex", <<"buttons">>)>>

ir_dots == <<Section("m_status_mutex", <<"ir_enabled">>), Section("m_ir_mutex", Dots)>>

status == <<Section("m_status_mutex", <<"battery_very_low", "ir_enabled", "battery_level">>)>>

accelerometer ==
  <<Section("m_acc_mutex", <<"acc_calib", "acc_x", "acc_z", "acc_y">>)>>

motionplus == <<Section("m_extension_mutex", <<"m_motionplus", "gyro_raw">>)>>

\* a handler that asks for the acceleration before the buttons.
controller_data_acc_first == status \o accelerometer \o get_buttons \o motionplus

controller_data == status \o get_buttons \o accelerometer \o motionplus

Getter ==
  [get_buttons |-> get_buttons, ir_dots |-> ir_dots, status |-> status,
   accelerometer |-> accelerometer, motionplus |-> motionplus,
   controller_data |-> controller_data]

\* Having read this, the getter returns nothing and reads no further.
ReturnsNothing(getter, field, value) ==
  \/ field = "m_motionplus" /\ value \in {"none", "EXTENSION_ONLY"}
  \/ getter = "ir_dots" /\ field = "ir_enabled" /\ value

-----------------------------------------------------------------------------
(***************************************************************************)
(* The layout that the names of the report kinds promise (reports.hpp): a  *)
(* byte for the kind, then one part after the other, each of the size in   *)
(* its name; four dots share an IR part evenly.                            *)
(***************************************************************************)
Parts ==
  [BUTTONS                         |-> <<"BUTTONS">>,
   BUTTONS_ACC                     |-> <<"BUTTONS", "ACC">>,
   BUTTONS_EXT_8B                  |-> <<"BUTTONS", "EXT_8B">>,
   BUTTONS_ACC_IR_12B              |-> <<"BUTTONS", "ACC", "IR_12B">>,
   BUTTONS_EXT_19B                 |-> <<"BUTTONS", "EXT_19B">>,
   BUTTONS_ACC_EXT_16B             |-> <<"BUTTONS", "ACC", "EXT_16B">>,
   BUTTONS_IR_10B_EXTENSION_9B     |-> <<"BUTTONS", "IR_10B", "EXT_9B">>,
   BUTTONS_ACC_IR_10B_EXTENSION_6B |-> <<"BUTTONS", "ACC", "IR_10B", "EXT_6B">>]

PartSize ==
  [BUTTONS |-> 2, ACC |-> 3, IR_10B |-> 10, IR_12B |-> 12, EXT_6B |-> 6,
   EXT_8B |-> 8, EXT_9B |-> 9, EXT_16B |-> 16, EXT_19B |-> 19]

\* After the byte for the kind and the parts before it, of which there are up to three.
PartStart(kind, i) ==
  LET before(j) == IF j < i THEN PartSize[Parts[kind][j]] ELSE 0
  IN  1 + before(1) + before(2) + before(3)

\* A frame of six bytes is at the start of the last part of a kind with extension bytes.
FrameStart(kind) == PartStart(kind, Len(Parts[kind]))

\* The bytes that belong to a field, for the parts a kind has.
PartBytes(part, start) ==
  LET upTo(size) == start..(start + size - 1)
      fifth(i)   == start + 5 * i
  IN CASE part = "BUTTONS" -> [buttons |-> upTo(2)]
       [] part = "ACC" -> [acc_x |-> {1, start}, acc_y |-> {2, start + 1},
                           acc_z |-> {2, start + 2}]
       [] part = "IR_12B" ->
            [dot1 |-> start..(start + 2), dot2 |-> (start + 3)..(start + 5),
             dot3 |-> (start + 6)..(start + 8), dot4 |-> (start + 9)..(start + 11)]
       [] part = "IR_10B" ->
            [dot1 |-> {start, start + 1, start + 2},
             dot2 |-> {start + 3, start + 4, start + 2},
             dot3 |-> {fifth(1), fifth(1) + 1, fifth(1) + 2},
             dot4 |-> {fifth(1) + 3, fifth(1) + 4, fifth(1) + 2}]
       [] OTHER -> [nunchuk |-> upTo(6), nunchuk_low |-> {start + 5}, gyro_raw |-> upTo(6)]

=============================================================================
