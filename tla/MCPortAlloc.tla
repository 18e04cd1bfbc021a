----------------------------- MODULE MCPortAlloc -----------------------------
EXTENDS PortAlloc, TLC

Symmetry == Permutations(Req) \cup Permutations(User)
=============================================================================
