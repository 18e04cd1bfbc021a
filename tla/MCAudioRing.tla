----------------------------- MODULE MCAudioRing -----------------------------
EXTENDS AudioRing
=============================================================================
