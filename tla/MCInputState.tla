---------------------------- MODULE MCInputState ----------------------------
EXTENDS InputState

Kind(k) == {r \in InputReports : r.kind = k}

\* Every kind of report; of the answers to memory reads one of each effect.
EveryKind ==
  {r \in InputReports :
     r.kind = "MEMORY_READ" =>
       r.answer \in {"NUNCHUK", "MPLS", "MPLS_NUNCHUK", "DEACTIVATED_MPLS_ACTIVE_EXT",
                     "wiimote_calibration", "other"}}

\* What the controller sends in the two modes that the driver asks for.
Requested ==
  Kind("BUTTONS_ACC_IR_12B") \cup Kind("BUTTONS_ACC_EXT_16B") \cup Kind("STATUS_INFORMATION")
    \cup {r \in Kind("MEMORY_READ") : r.answer \in {"MPLS", "NUNCHUK"}}
=============================================================================
