------------------------------ MODULE AudioRing ------------------------------
(***************************************************************************)
(* The sound of a VM: what is in the files of the ring, and what thread_fb *)
(* has sent of it to the web server.                                       *)
(***************************************************************************)
EXTENDS RingTurns, Sequences

CONSTANTS
  MaxFiles,     \* bound on the files one QEMU finishes
  MaxSessions   \* bound on the QEMUs run one after the other in a directory

ASSUME BoundAssumption == MaxFiles \in Nat /\ MaxSessions \in Nat

\* What a write leaves of its chunk: nothing, or some of it, which is all unless
\* fwrite was cut short or the rest is still in the buffer of f when its descriptor
\* is closed.
Left == {"some", "none"}

\* A file: whether it begins with sound of an earlier QEMU, and the chunks of
\* this one.  Chunk <<k, j, left>> is the j-th of the k-th file, counted from 0.
Chunk == Nat \X Nat \X Left
File  == [old: BOOLEAN, chunks: Seq(Chunk)]
Empty == [old |-> FALSE, chunks |-> <<>>]

\* q is what the first n writes to the k-th file have left, one after the other.
IsPart(q, k, n) == Len(q) = n /\ \A j \in 1..n : q[j][1] = k /\ q[j][2] = j

HasSound(f) == f.old \/ \E j \in 1..Len(f.chunks) : f.chunks[j][3] = "some"

VARIABLES
  file,         \* the files; a missing file is Empty
  \* History.
  made, done,   \* files finished and files removed since QEMU started
  sent,         \* what thread_fb has sent since then
  lapped,       \* the writer has come round to the sender's file
  session

vars == <<turns, file, made, done, sent, lapped, session>>

TypeOK ==
  /\ TurnTypeOK
  /\ file \in [Pos -> File]
  /\ made \in Nat /\ done \in Nat /\ session \in Nat
  /\ sent \in Seq(File)
  /\ lapped \in BOOLEAN

Init ==
  /\ TurnInit
  /\ file = [p \in Pos |-> Empty]
  /\ made = 0 /\ done = 0 /\ sent = <<>> /\ lapped = FALSE /\ session = 1

-----------------------------------------------------------------------------
\* The audio callback appends a chunk (O_APPEND | O_CREAT).  It does not see how
\* much of it was written, and counts it all the same.
alsa_write_pending ==
  /\ made < MaxFiles
  /\ CountChunk
  /\ \E left \in Left :
       file' = [file EXCEPT ![file_pos].chunks = Append(@, <<made, pending_cnt + 1, left>>)]
  /\ made' = IF FileFinished THEN made + 1 ELSE made
  /\ lapped' = (lapped \/ (FileFinished /\ Next_pos(file_pos) = work_pos))
  /\ UNCHANGED <<done, sent, session>>

\* thread_fb looks how far the writer is, and goes back to the picture.
Turn == (Frame \/ Drained) /\ UNCHANGED <<file, made, done, sent, lapped, session>>

\* ffmpeg sends the file, or fails, which thread_fb does not notice.
Encode ==
  /\ SendFile
  /\ \E f \in {file[work_pos], Empty} : sent' = Append(sent, f)
  /\ UNCHANGED <<file, made, done, lapped, session>>

\* (mutant) the file is left behind
RemovedNot == file

Removed == [file EXCEPT ![work_pos] = Empty]

Remove ==
  /\ RemoveFile
  /\ file' = Removed
  /\ done' = done + 1
  /\ UNCHANGED <<made, sent, lapped, session>>

\* The next QEMU finds the files of before.  (An audio callback that cannot open
\* its file ends QEMU: the stream it then writes to is NULL.)
Restart ==
  /\ session < MaxSessions
  /\ session' = session + 1
  /\ NewQemu
  /\ file' = [p \in Pos |-> [old |-> HasSound(file[p]), chunks |-> <<>>]]
  /\ made' = 0 /\ done' = 0 /\ sent' = <<>> /\ lapped' = FALSE

thread_fb == Turn \/ Encode \/ Remove

Next == alsa_write_pending \/ thread_fb \/ Restart

Spec == Init /\ [][Next]_vars

\* The operating system runs the thread, and ffmpeg ends.
FairSpec == Spec /\ WF_vars(thread_fb)

-----------------------------------------------------------------------------
\* Until the writer laps the sender, the files sent are the finished files, each
\* once and in order: the i-th is what all the writes to the i-th file have left, a
\* short write included, nothing twice and nothing of another file.  The file at
\* file_pos is never sent, and nothing is appended to a file that is being sent.
\* A file may be missing where ffmpeg failed.
FinishedFilesInOrder ==
  ~lapped => \A i \in 1..Len(sent) :
               sent[i].chunks = <<>> \/ IsPart(sent[i].chunks, i - 1, FinalCnt)

\* Sound left behind by an earlier QEMU is sent in the first lap or not at all.
OldSoundFirstLap ==
  ~lapped => \A i \in 1..Len(sent) : sent[i].old => i <= FinalPos

\* The inductive form of the two: while the sender has not been lapped, the
\* place of a file after work_pos tells its number; it holds all its chunks when
\* it is behind the writer, those written so far at the writer, none ahead.
Dist(p)   == IF p >= work_pos THEN p - work_pos ELSE p - work_pos + FinalPos
Number(p) == done + Dist(p)
Chunks(p) == IF Number(p) < made THEN FinalCnt
             ELSE IF Number(p) = made THEN pending_cnt ELSE 0

RingInv ==
  ~lapped =>
    /\ made = Number(file_pos)
    /\ pc # "frame" => Dist(temp_pos) <= Dist(file_pos)
    /\ pc = "rm" => temp_pos # work_pos
    /\ \A p \in Pos : IsPart(file[p].chunks, Number(p), Chunks(p))
    /\ \A p \in Pos : file[p].old => Number(p) < FinalPos
    /\ Len(sent) = IF pc = "rm" THEN done + 1 ELSE done
    /\ \A i \in 1..Len(sent) :
         sent[i].chunks = <<>> \/ IsPart(sent[i].chunks, i - 1, FinalCnt)
    /\ \A i \in 1..Len(sent) : sent[i].old => i <= FinalPos

\* Every finished file is sent (or tried), unless the writer laps the sender or
\* QEMU ends: again and again thread_fb has caught up with the writer, or is done
\* with one more file, and it takes the files in turn.
EveryFileTried ==
  []<>(made = done \/ lapped) \/ []<><<done' = done + 1>>_vars
=============================================================================
