------------------------------ MODULE ImageHost ------------------------------
(***************************************************************************)
(* What the VM host promises of the disk images: a command that arrives is *)
(* taken by one worker, which carries it out once or not at all; commands  *)
(* wait and run in any order, and nothing else makes or removes an image.  *)
(***************************************************************************)
EXTENDS Integers

CONSTANTS
  Command,   \* the commands to make or delete an image
  Number,    \* numbers to tell equal commands apart
  Worker,    \* what carries out commands
  IndexMod,  \* the host keeps 8 bits of an index
  None

VARIABLES
  waiting,   \* commands that no worker has taken, numbered
  working,   \* the command of each worker, or None
  images     \* the images that exist

vars == <<waiting, working, images>>

\* The file <id>/<os>_<index>.img.
ImageOf(c) == [id |-> c.id, os |-> c.os, index |-> c.index % IndexMod]

Init ==
  /\ waiting = {}
  /\ working = [w \in Worker |-> None]
  /\ images = {}

Send(n, c) ==
  /\ <<n, c>> \notin waiting
  /\ waiting' = waiting \cup {<<n, c>>}
  /\ UNCHANGED <<working, images>>

Drop(m) ==
  /\ waiting' = waiting \ {m}
  /\ UNCHANGED <<working, images>>

Take(m, w) ==
  /\ working[w] = None
  /\ waiting' = waiting \ {m}
  /\ working' = [working EXCEPT ![w] = m[2]]
  /\ UNCHANGED images

\* The images after command c has been carried out.
After(c) == IF c.kind = "create" THEN images \cup {ImageOf(c)}
                                 ELSE images \ {ImageOf(c)}

\* A worker is through with its command, which may have failed.
Finish(w, ok) ==
  /\ working[w] # None
  /\ images' = IF ok THEN After(working[w]) ELSE images
  /\ working' = [working EXCEPT ![w] = None]
  /\ UNCHANGED waiting

\* What the host does by itself; the commands come from outside.
Own ==
  \/ \E m \in waiting : Drop(m) \/ \E w \in Worker : Take(m, w)
  \/ \E w \in Worker, ok \in BOOLEAN : Finish(w, ok)

Next == Own \/ \E n \in Number, c \in Command : Send(n, c)

Spec == Init /\ [][Next]_vars
=============================================================================
