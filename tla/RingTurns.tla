------------------------------ MODULE RingTurns ------------------------------
(***************************************************************************)
(* Who is where in the ring of sound files test001.raw .. test100.raw:     *)
(* QEMU's audio callback, which writes them, and thread_fb, which sends    *)
(* them after each picture.  The two threads share file_pos, and nothing   *)
(* keeps the writer from lapping the sender.                               *)
(***************************************************************************)
EXTENDS Integers

CONSTANTS
  FinalPos,     \* files in the ring: FINALPOS, 100
  FinalCnt      \* chunks per file: FINALCNT, 2

ASSUME RingAssumption == FinalPos \in Nat \ {0, 1} /\ FinalCnt \in Nat \ {0}

VARIABLES
  file_pos, pending_cnt,    \* the writer: its file and the chunks written to it
  work_pos, temp_pos, pc    \* thread_fb: the file to send next, where to stop, what it does

turns == <<file_pos, pending_cnt, work_pos, temp_pos, pc>>

Pos == 1..FinalPos

TurnTypeOK ==
  /\ file_pos \in Pos /\ work_pos \in Pos /\ temp_pos \in Pos
  /\ pending_cnt \in 0..(FinalCnt - 1)
  /\ pc \in {"frame", "loop", "rm"}

TurnInit ==
  /\ file_pos = 1 /\ work_pos = 1 /\ temp_pos = 1
  /\ pending_cnt = 0 /\ pc = "frame"

-----------------------------------------------------------------------------
Next_pos(n) == IF n = FinalPos THEN 1 ELSE n + 1

\* The audio callback has written a chunk; after the last one of the file it goes
\* on to the next file.
FileFinished == pending_cnt + 1 = FinalCnt

CountChunk ==
  /\ pending_cnt' = IF FileFinished THEN 0 ELSE pending_cnt + 1
  /\ file_pos' = IF FileFinished THEN Next_pos(file_pos) ELSE file_pos
  /\ UNCHANGED <<work_pos, temp_pos, pc>>

\* (mutant) the sender's own position is read
LookStale == work_pos

\* How far the writer is.
Look == file_pos

\* thread_fb has sent a picture and looks how far the writer is.
Frame ==
  /\ pc = "frame"
  /\ temp_pos' = Look
  /\ pc' = "loop"
  /\ UNCHANGED <<file_pos, pending_cnt, work_pos>>

\* (mutant) the loop looks at the writer itself
CaughtUpLive == work_pos = file_pos

\* The loop ends where the writer was after the picture.
CaughtUp == work_pos = temp_pos

\* The next file is sent,
SendFile ==
  /\ pc = "loop" /\ ~CaughtUp
  /\ pc' = "rm"
  /\ UNCHANGED <<file_pos, pending_cnt, work_pos, temp_pos>>

\* and removed.
RemoveFile ==
  /\ pc = "rm"
  /\ work_pos' = Next_pos(work_pos)
  /\ pc' = "loop"
  /\ UNCHANGED <<file_pos, pending_cnt, temp_pos>>

Drained ==
  /\ pc = "loop" /\ CaughtUp
  /\ pc' = "frame"
  /\ UNCHANGED <<file_pos, pending_cnt, work_pos, temp_pos>>

\* QEMU ends, and a later one runs in the same directory.
NewQemu ==
  /\ file_pos' = 1 /\ work_pos' = 1 /\ temp_pos' = 1
  /\ pending_cnt' = 0 /\ pc' = "frame"
=============================================================================
