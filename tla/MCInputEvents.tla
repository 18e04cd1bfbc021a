--------------------------- MODULE MCInputEvents ---------------------------
EXTENDS InputEvents
=============================================================================
