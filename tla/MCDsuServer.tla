---------------------------- MODULE MCDsuServer ----------------------------
EXTENDS DsuServer
=============================================================================
