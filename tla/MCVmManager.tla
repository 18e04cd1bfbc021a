---------------------------- MODULE MCVmManager ----------------------------
EXTENDS VmManager, TLC

CONSTANTS u1, u2

Of(kind, os, id, port) ==
  [kind |-> kind, os |-> os, index |-> 1, id |-> id, port |-> port]

\* One user's launches, of an android image created before, too late or never (the
\* index of the create is theirs plus 2^8) and of a disk they do not have; the other's
\* tizen, which strays unless an android image has been made for it, perhaps from the
\* base image the first user's create has chosen too, and the delete of that image.
Load ==
  {[Of("create", "android", u1, 1) EXCEPT !.index = 257], Of("start", "android", u1, 1),
   Of("install", "disk", u1, 2), Of("start", "tizen", u2, 2),
   Of("create", "android", u2, 1), Of("delete", "android", u2, 1)}

\* One user's images are made and started; the other's start has no directory.
LiveLoad ==
  {Of("create", "disk", u1, 1), Of("start", "disk", u1, 1), Of("start", "disk", u2, 2)}

Symmetry == Permutations(Proc \ {Main})
=============================================================================
