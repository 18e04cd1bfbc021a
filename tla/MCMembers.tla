------------------------------ MODULE MCMembers ------------------------------
EXTENDS Members, TLC

CONSTANTS id1, one1, pw1, r1, r2, r3

MCEmail    == {id1, one1}
MCOnes     == {one1}
MCPassword == {pw1}
Two        == {r1, r2}
Three      == {r1, r2, r3}
ThreeAlike == Permutations(Three)
=============================================================================
