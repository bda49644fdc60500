------------------------- MODULE MCWiimoteLifecycle -------------------------
EXTENDS WiimoteLifecycle
=============================================================================
