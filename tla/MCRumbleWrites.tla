--------------------------- MODULE MCRumbleWrites ---------------------------
EXTENDS RumbleWrites
=============================================================================
