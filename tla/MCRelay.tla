------------------------------ MODULE MCRelay ------------------------------
EXTENDS Relay
=============================================================================
