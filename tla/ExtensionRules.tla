--------------------------- MODULE ExtensionRules ---------------------------
(***************************************************************************)
(* What the wiimote class asks of the controller's memory, and what its    *)
(* read thread decides when an answer arrives.  Everything here is a pure  *)
(* operator: the threads that run these decisions are in MemRequests.      *)
(*                                                                         *)
(* A call the library makes on its own output path is a record             *)
(*   kind "memwrite"  mem_request_write: arg names register and value,     *)
(*   kind "memread"   mem_request_read:  arg names the address,            *)
(*   kind "report"    write() of a plain output report.                    *)
(***************************************************************************)
EXTENDS Naturals, Sequences

(***************************************************************************)
(* The addresses read, the low 16 bits by which an answer names its        *)
(* address, and the number of bytes asked for.  extension_identifier and   *)
(* motionplus_identifier share their low 16 bits, and so do                *)
(* wiimote_calibration_mirror and motionplus_calibration_fast.             *)
(***************************************************************************)
LowBytes ==
  [extension_identifier        |-> 250,
   motionplus_identifier       |-> 250,
   wiimote_calibration         |-> 22,
   wiimote_calibration_mirror  |-> 32,
   motionplus_calibration_fast |-> 32,
   motionplus_calibration_slow |-> 54]

Addresses == DOMAIN LowBytes

Identifiers == {"extension_identifier", "motionplus_identifier"}

ReadSize ==
  [extension_identifier        |-> 6,
   motionplus_identifier       |-> 6,
   wiimote_calibration         |-> 10,
   wiimote_calibration_mirror  |-> 10,
   motionplus_calibration_fast |-> 16,
   motionplus_calibration_slow |-> 16]

ExtensionIds ==
  {"NUNCHUK", "CLASSIC", "CLASSIC_PRO", "MPLS", "BUILTIN_MPLS",
   "MPLS_NUNCHUK", "MPLS_CLASSIC", "INACTIVE_MPLS",
   "DEACTIVATED_MPLS_ACTIVE_EXT", "DEACTIVATED_MPLS_NUNCHUK",
   "DEACTIVATED_MPLS_CLASSIC", "PARTIALLY_INSERTED"}

\* m_extension and m_motionplus, "none" standing for the empty optional.
Extensions == {"monostate", "NunchukRaw", "ClassicController"}
MotionPlus == {"none", "MOTIONPLUS_ONLY", "EXTENSION_ONLY",
               "NUNCHUK_PASSTHROUGH", "CLASSIC_PASSTHROUGH"}

Registers == {"ext_init_55", "ext_init_00",
              "mpls_only", "mpls_nunchuk", "mpls_classic"}
Reports   == {"status_request", "report_mode"}

MemWrites == [kind : {"memwrite"}, arg : Registers]
MemReads  == [kind : {"memread"},  arg : Addresses]
Calls     == MemWrites \cup MemReads \cup [kind : {"report"}, arg : Reports]

MemWrite(r) == [kind |-> "memwrite", arg |-> r]
MemRead(a)  == [kind |-> "memread",  arg |-> a]
Report(r)   == [kind |-> "report",   arg |-> r]

-----------------------------------------------------------------------------
(* The calls each library function makes, in order. *)

request_status == <<Report("status_request")>>

request_extension ==
  <<MemWrite("ext_init_55"), MemWrite("ext_init_00"),
    MemRead("extension_identifier")>>

detect_motionplus == <<MemRead("motionplus_identifier")>>

request_motion_plus_calibration ==
  <<MemRead("motionplus_calibration_fast"),
    MemRead("motionplus_calibration_slow")>>

request_wiimote_calibration(allow_second_attempt) ==
  IF allow_second_attempt
    THEN <<MemRead("wiimote_calibration")>>
    ELSE <<MemRead("wiimote_calibration_mirror")>>

set_reporting_mode == <<Report("report_mode")>>

activate_motionplus(m_extension) ==
  <<MemWrite(CASE m_extension = "NunchukRaw"        -> "mpls_nunchuk"
               [] m_extension = "ClassicController" -> "mpls_classic"
               [] OTHER                             -> "mpls_only")>>

update_motionplus(m_motionplus) ==
  IF m_motionplus # "none" THEN <<>> ELSE request_motion_plus_calibration

init_calls ==
  request_status \o request_extension \o detect_motionplus
    \o set_reporting_mode \o request_wiimote_calibration(TRUE)

-----------------------------------------------------------------------------
(***************************************************************************)
(* The decisions of the read thread: the new m_extension, the new          *)
(* m_motionplus and the calls made before the handler returns.             *)
(***************************************************************************)
Decision(e, m, calls) ==
  [m_extension |-> e, m_motionplus |-> m, calls |-> calls]

\* handle_status with the reset of m_extension left out.
OnStatusKeepingExtension(plugged, e, m) ==
  CASE e = "monostate" /\ plugged ->
         Decision(e, m, request_extension \o detect_motionplus)
    [] e # "monostate" /\ ~plugged -> Decision(e, "none", <<>>)
    [] OTHER -> Decision(e, m, <<>>)

\* handle_status: an extension appeared, disappeared, or nothing changed.
OnStatus(plugged, e, m) ==
  CASE e = "monostate" /\ plugged ->
         Decision(e, m, request_extension \o detect_motionplus)
    [] e # "monostate" /\ ~plugged ->
         Decision("monostate", "none", <<>>)
    [] OTHER -> Decision(e, m, <<>>)

\* on_mem_read of either identifier.
OnIdentifier(id, e, m) ==
  CASE id = "NUNCHUK" -> Decision("NunchukRaw", m, <<>>)
    [] id \in {"CLASSIC", "MPLS_CLASSIC"} ->
         Decision("ClassicController", m, <<>>)
    [] id \in {"BUILTIN_MPLS", "MPLS"} ->
         Decision("monostate", "MOTIONPLUS_ONLY",
                  update_motionplus(m) \o set_reporting_mode)
    [] id = "MPLS_NUNCHUK" ->
         Decision("NunchukRaw", "NUNCHUK_PASSTHROUGH",
                  update_motionplus(m) \o set_reporting_mode)
    [] id = "INACTIVE_MPLS" -> Decision(e, m, activate_motionplus(e))
    [] id = "DEACTIVATED_MPLS_ACTIVE_EXT" ->
         Decision(e, "EXTENSION_ONLY", update_motionplus(m))
    [] OTHER -> Decision(e, m, <<>>)

\* on_mem_read that asks for a retry after the mirror, too.
OnMemReadRetryingMirror(address, payload, e, m) ==
  CASE address \in Identifiers -> OnIdentifier(payload, e, m)
    [] payload = "bad" -> Decision(e, m, request_wiimote_calibration(FALSE))
    [] OTHER -> Decision(e, m, <<>>)

\* on_mem_read: "bad" is a calibration block whose checksum does not match.
OnMemRead(address, payload, e, m) ==
  CASE address \in Identifiers -> OnIdentifier(payload, e, m)
    [] address = "wiimote_calibration" /\ payload = "bad" ->
         Decision(e, m, request_wiimote_calibration(FALSE))
    [] OTHER -> Decision(e, m, <<>>)

=============================================================================
