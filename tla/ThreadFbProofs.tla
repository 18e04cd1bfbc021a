---------------------------- MODULE ThreadFbProofs ----------------------------
(***************************************************************************)
(* Proofs about the stream of a QEMU, for screens, areas and rings of any  *)
(* size.  While the writer of the sound is less than a lap ahead of the    *)
(* sender, the finished files are sent once and in order, whatever the     *)
(* writes have left in them; and what the file of the picture shows.       *)
(***************************************************************************)
EXTENDS AudioRing, ThreadFb, SequenceTheorems, TLAPS

\* A leaf is tried with Zenon first, then with the SMT solver.
USE ZenonT(20), SMTT(30)

-----------------------------------------------------------------------------
\* A file without chunks.
LEMMA PartEmpty == \A k : IsPart(<<>>, k, 0)
BY SMTT(30) DEF IsPart

\* Writing the next chunk, whatever is left of it.
LEMMA PartAppend ==
  ASSUME NEW q \in Seq(Chunk), NEW k \in Nat, NEW n \in Nat, NEW left \in Left,
         IsPart(q, k, n)
  PROVE  IsPart(Append(q, <<k, n + 1, left>>), k, n + 1)
<1> DEFINE c == <<k, n + 1, left>>
<1>1. c \in Chunk /\ c[1] = k /\ c[2] = n + 1
  BY DEF Chunk
<1>2. Len(q) = n /\ \A j \in 1..n : q[j][1] = k /\ q[j][2] = j
  BY DEF IsPart
<1> HIDE DEF c
<1>3. /\ Len(Append(q, c)) = n + 1 /\ Append(q, c)[n + 1] = c
      /\ \A j \in 1..n : Append(q, c)[j] = q[j]
  BY SMTT(30), <1>1, <1>2
<1>4. ASSUME NEW j \in 1..(n + 1)
      PROVE  Append(q, c)[j][1] = k /\ Append(q, c)[j][2] = j
  <2>1. j \in 1..n \/ j = n + 1
    OBVIOUS
  <2> QED BY SMTT(30), <1>1, <1>2, <1>3, <2>1
<1>5. IsPart(Append(q, c), k, n + 1)
  BY <1>3, <1>4 DEF IsPart
<1> QED BY <1>5 DEF c

LEMMA NextPosType == \A p \in Pos : Next_pos(p) \in Pos
BY RingAssumption DEF Pos, Next_pos

LEMMA EmptyFile == Empty \in File
BY EmptySeq DEF Empty, File

-----------------------------------------------------------------------------
\* The positions stay in the ring.
LEMMA TurnTypeInit == TurnInit => TurnTypeOK
<1>1. 1 \in Pos /\ 0 \in 0..(FinalCnt - 1)
  BY RingAssumption DEF Pos
<1> QED BY <1>1 DEF TurnInit, TurnTypeOK

LEMMA TurnTypeNext ==
  ASSUME TurnTypeOK, CountChunk \/ Frame \/ SendFile \/ RemoveFile \/ Drained \/ NewQemu
  PROVE  TurnTypeOK'
<1>1. CASE CountChunk
  <2>1. pending_cnt' \in 0..(FinalCnt - 1)
    BY SMTT(30), <1>1, RingAssumption DEF CountChunk, FileFinished, TurnTypeOK
  <2>2. file_pos' \in Pos
    BY <1>1, NextPosType DEF CountChunk, TurnTypeOK
  <2> QED BY <1>1, <2>1, <2>2 DEF CountChunk, TurnTypeOK
<1>2. CASE Frame
  BY <1>2 DEF Frame, Look, TurnTypeOK
<1>3. CASE SendFile
  BY <1>3 DEF SendFile, TurnTypeOK
<1>4. CASE RemoveFile
  BY <1>4, NextPosType DEF RemoveFile, TurnTypeOK
<1>5. CASE Drained
  BY <1>5 DEF Drained, TurnTypeOK
<1>6. CASE NewQemu
  <2>1. 1 \in Pos /\ 0 \in 0..(FinalCnt - 1)
    BY RingAssumption DEF Pos
  <2> QED BY <1>6, <2>1 DEF NewQemu, TurnTypeOK
<1> QED BY <1>1, <1>2, <1>3, <1>4, <1>5, <1>6

\* The positions, the files and what was sent keep their types.
THEOREM TypeCorrect == Spec => []TypeOK
<1>1. Init => TypeOK
  <2> SUFFICES ASSUME Init PROVE TypeOK
    OBVIOUS
  <2>1. TurnTypeOK
    BY TurnTypeInit DEF Init
  <2>2. file \in [Pos -> File] /\ sent \in Seq(File)
    BY EmptyFile, EmptySeq DEF Init
  <2> QED BY <2>1, <2>2 DEF Init, TypeOK
<1>2. TypeOK /\ [Next]_vars => TypeOK'
  <2> SUFFICES ASSUME TypeOK, [Next]_vars PROVE TypeOK'
    OBVIOUS
  <2>0. TurnTypeOK
    BY DEF TypeOK
  <2>1. CASE alsa_write_pending
    <3>1. PICK left \in Left :
            file' = [file EXCEPT ![file_pos].chunks = Append(@, <<made, pending_cnt + 1, left>>)]
      BY <2>1 DEF alsa_write_pending
    <3> DEFINE c == Append(file[file_pos].chunks, <<made, pending_cnt + 1, left>>)
    <3>2. pending_cnt + 1 \in Nat /\ made \in Nat /\ made + 1 \in Nat
      BY SMTT(30), <2>0, RingAssumption DEF TypeOK, TurnTypeOK
    <3>3. file[file_pos] \in File /\ file_pos \in Pos
      BY <2>0 DEF TypeOK, TurnTypeOK
    <3>4. <<made, pending_cnt + 1, left>> \in Chunk
      BY <3>2 DEF Chunk
    <3>5. c \in Seq(Chunk)
      BY <3>3, <3>4, AppendProperties DEF File
    <3>6. file' = [file EXCEPT ![file_pos] = [file[file_pos] EXCEPT !.chunks = c]]
      BY <3>1
    <3> HIDE DEF c
    <3>7. [file[file_pos] EXCEPT !.chunks = c] \in File
      BY <3>3, <3>5 DEF File
    <3>8. file' \in [Pos -> File]
      BY <3>6, <3>7 DEF TypeOK
    <3>9. TurnTypeOK'
      BY <2>0, <2>1, TurnTypeNext DEF alsa_write_pending
    <3>10. lapped' \in BOOLEAN /\ made' \in Nat
      BY <2>1, <3>2, Zenon DEF alsa_write_pending, TypeOK
    <3> QED BY <2>1, <3>8, <3>9, <3>10 DEF alsa_write_pending, TypeOK
  <2>2. CASE Turn
    <3>1. TurnTypeOK'
      BY <2>0, <2>2, TurnTypeNext DEF Turn
    <3> QED BY <2>2, <3>1 DEF Turn, TypeOK
  <2>3. CASE Encode
    <3>1. PICK f \in {file[work_pos], Empty} : sent' = Append(sent, f)
      BY <2>3 DEF Encode
    <3>2. f \in File
      BY <2>0, <3>1, EmptyFile DEF TypeOK, TurnTypeOK
    <3>3. sent' \in Seq(File)
      BY <3>1, <3>2, AppendProperties DEF TypeOK
    <3>4. TurnTypeOK'
      BY <2>0, <2>3, TurnTypeNext DEF Encode
    <3> QED BY <2>3, <3>3, <3>4 DEF Encode, TypeOK
  <2>4. CASE Remove
    <3>1. TurnTypeOK'
      BY <2>0, <2>4, TurnTypeNext DEF Remove
    <3>2. file' \in [Pos -> File]
      BY <2>4, EmptyFile DEF Remove, Removed, TypeOK
    <3>3. done' \in Nat
      BY SMTT(30), <2>4 DEF Remove, TypeOK
    <3> QED BY <2>4, <3>1, <3>2, <3>3 DEF Remove, TypeOK
  <2>5. CASE Restart
    <3>1. ASSUME NEW p \in Pos PROVE [old |-> HasSound(file[p]), chunks |-> <<>>] \in File
      <4>1. HasSound(file[p]) \in BOOLEAN
        BY Zenon DEF HasSound, TypeOK, File
      <4> QED BY <4>1, EmptySeq DEF File
    <3>2. file' \in [Pos -> File] /\ sent' \in Seq(File)
      BY <2>5, <3>1, EmptySeq DEF Restart
    <3>3. TurnTypeOK'
      BY <2>0, <2>5, TurnTypeNext DEF Restart
    <3>4. made' \in Nat /\ done' \in Nat /\ session' \in Nat
      BY SMTT(30), <2>5 DEF Restart, TypeOK
    <3>5. lapped' \in BOOLEAN
      BY <2>5, Zenon DEF Restart
    <3> QED BY <3>2, <3>3, <3>4, <3>5 DEF TypeOK
  <2>6. CASE UNCHANGED vars
    BY <2>6 DEF vars, turns, TypeOK, TurnTypeOK
  <2> QED BY <2>1, <2>2, <2>3, <2>4, <2>5, <2>6 DEF Next, thread_fb
<1> QED BY <1>1, <1>2, PTL DEF Spec

-----------------------------------------------------------------------------
\* Distances from work_pos, in integers.
LEMMA DistFacts ==
  ASSUME TypeOK
  PROVE  /\ \A p \in Pos : Dist(p) \in 0..(FinalPos - 1) /\ Number(p) \in Nat
         /\ \A p \in Pos : (Dist(p) = 0) <=> (p = work_pos)
         /\ \A p, q \in Pos : Number(p) = Number(q) => p = q
BY SMTT(30), RingAssumption DEF TypeOK, TurnTypeOK, Pos, Dist, Number

\* The next file is one further away, unless it is the sender's.
LEMMA DistNext ==
  ASSUME TypeOK, NEW p \in Pos, Next_pos(p) # work_pos
  PROVE  Dist(Next_pos(p)) = Dist(p) + 1
BY SMTT(30), RingAssumption DEF TypeOK, TurnTypeOK, Pos, Dist, Next_pos

\* When the sender moves on, every file comes one nearer, except the one it
\* leaves, which is now the last of the lap.
LEMMA DistAdvance ==
  ASSUME TypeOK, work_pos' = Next_pos(work_pos), NEW p \in Pos
  PROVE  Dist(p)' = IF p = work_pos THEN FinalPos - 1 ELSE Dist(p) - 1
BY SMTT(30), RingAssumption DEF TypeOK, TurnTypeOK, Pos, Dist, Next_pos

\* A chunk is written: the writer's file gets its next chunk, and when that was
\* the last one the writer goes on to a file that is empty.
LEMMA WriteRing ==
  ASSUME TypeOK, RingInv, alsa_write_pending
  PROVE  RingInv'
<1> SUFFICES ASSUME ~lapped' PROVE RingInv'
  BY DEF RingInv
<1>1. ~lapped
  BY Zenon DEF alsa_write_pending
<1>2. /\ work_pos' = work_pos /\ temp_pos' = temp_pos /\ pc' = pc
      /\ done' = done /\ sent' = sent
  BY DEF alsa_write_pending, CountChunk
<1>3. /\ \A p : Dist(p)' = Dist(p) /\ Number(p)' = Number(p)
  BY <1>2 DEF Dist, Number
<1>4. /\ made = Number(file_pos)
      /\ pc # "frame" => Dist(temp_pos) <= Dist(file_pos)
      /\ pc = "rm" => temp_pos # work_pos
      /\ \A p \in Pos : IsPart(file[p].chunks, Number(p), Chunks(p))
      /\ \A p \in Pos : file[p].old => Number(p) < FinalPos
  BY <1>1 DEF RingInv
<1>5. /\ Len(sent) = IF pc = "rm" THEN done + 1 ELSE done
      /\ \A i \in 1..Len(sent) :
           sent[i].chunks = <<>> \/ IsPart(sent[i].chunks, i - 1, FinalCnt)
      /\ \A i \in 1..Len(sent) : sent[i].old => i <= FinalPos
  BY <1>1 DEF RingInv
<1>6. PICK left \in Left :
        file' = [file EXCEPT ![file_pos].chunks = Append(@, <<made, pending_cnt + 1, left>>)]
  BY DEF alsa_write_pending
<1>7. /\ \A p \in Pos \ {file_pos} : file'[p] = file[p]
      /\ file'[file_pos].old = file[file_pos].old
      /\ IsPart(file'[file_pos].chunks, made, pending_cnt + 1)
  <2>1. Chunks(file_pos) = pending_cnt /\ made \in Nat /\ pending_cnt \in Nat
    BY SMTT(30), <1>4, RingAssumption DEF TypeOK, TurnTypeOK, Chunks
  <2>2. file_pos \in Pos /\ file \in [Pos -> File] /\ file[file_pos].chunks \in Seq(Chunk)
    BY DEF TypeOK, TurnTypeOK, File
  <2>3. IsPart(file[file_pos].chunks, made, pending_cnt)
    BY <1>4, <2>1, <2>2
  <2>4. IsPart(Append(file[file_pos].chunks, <<made, pending_cnt + 1, left>>), made, pending_cnt + 1)
    BY <2>1, <2>2, <2>3, PartAppend
  <2>5. /\ \A p \in Pos \ {file_pos} : file'[p] = file[p]
        /\ file'[file_pos].old = file[file_pos].old
        /\ file'[file_pos].chunks =
             Append(file[file_pos].chunks, <<made, pending_cnt + 1, left>>)
    BY <1>6, <2>2 DEF File
  <2> QED BY <2>4, <2>5
<1>8. \A p \in Pos : file'[p].old => Number(p) < FinalPos
  BY <1>4, <1>7
<1>9. CASE pending_cnt + 1 = FinalCnt
  <2>1. /\ pending_cnt' = 0 /\ file_pos' = Next_pos(file_pos) /\ made' = made + 1
        /\ Next_pos(file_pos) # work_pos
    BY <1>9 DEF alsa_write_pending, CountChunk, FileFinished
  <2>2. Dist(file_pos') = Dist(file_pos) + 1
    BY <2>1, DistNext DEF TypeOK, TurnTypeOK
  <2>3. made' = Number(file_pos')
    BY SMTT(30), <1>4, <2>1, <2>2, DistFacts DEF Number, TypeOK, TurnTypeOK
  <2>4. pc # "frame" => Dist(temp_pos) <= Dist(file_pos')
    BY SMTT(30), <1>4, <2>2, DistFacts DEF TypeOK, TurnTypeOK, Pos
  <2>5. \A p \in Pos : IsPart(file'[p].chunks, Number(p), Chunks(p)')
    <3> SUFFICES ASSUME NEW p \in Pos
                 PROVE  IsPart(file'[p].chunks, Number(p), Chunks(p)')
      OBVIOUS
    <3>1. CASE p = file_pos
      <4>1. Chunks(p)' = FinalCnt
        BY <1>3, <1>4, <2>1, <3>1 DEF Chunks, TypeOK, TurnTypeOK
      <4> QED BY <1>4, <1>7, <1>9, <3>1, <4>1
    <3>2. CASE p # file_pos
      <4>1. Number(p) # made
        BY <1>4, <3>2, DistFacts DEF TypeOK, TurnTypeOK
      <4>2. Chunks(p)' = Chunks(p)
        BY SMTT(30), <1>3, <2>1, <4>1, DistFacts DEF Chunks, TypeOK, TurnTypeOK
      <4> QED BY <1>4, <1>7, <3>2, <4>2
    <3> QED BY <3>1, <3>2
  <2> QED BY <1>2, <1>3, <1>4, <1>5, <1>8, <2>1, <2>3, <2>4, <2>5 DEF RingInv
<1>10. CASE pending_cnt + 1 # FinalCnt
  <2>1. pending_cnt' = pending_cnt + 1 /\ file_pos' = file_pos /\ made' = made
    BY <1>10 DEF alsa_write_pending, CountChunk, FileFinished
  <2>2. \A p \in Pos : IsPart(file'[p].chunks, Number(p), Chunks(p)')
    <3> SUFFICES ASSUME NEW p \in Pos
                 PROVE  IsPart(file'[p].chunks, Number(p), Chunks(p)')
      OBVIOUS
    <3>1. CASE p = file_pos
      BY <1>3, <1>4, <1>7, <2>1, <3>1 DEF Chunks, TypeOK, TurnTypeOK
    <3>2. CASE p # file_pos
      <4>1. Number(p) # made
        BY <1>4, <3>2, DistFacts DEF TypeOK, TurnTypeOK
      <4>2. Chunks(p)' = Chunks(p)
        BY <1>3, <2>1, <4>1 DEF Chunks
      <4> QED BY <1>4, <1>7, <3>2, <4>2
    <3> QED BY <3>1, <3>2
  <2> QED BY <1>2, <1>3, <1>4, <1>5, <1>8, <2>1, <2>2 DEF RingInv
<1> QED BY <1>9, <1>10

\* The steps of thread_fb that leave the files alone.
LEMMA LookRing ==
  ASSUME TypeOK, RingInv, Turn
  PROVE  RingInv'
<1>1. /\ file' = file /\ file_pos' = file_pos /\ pending_cnt' = pending_cnt
      /\ work_pos' = work_pos /\ made' = made /\ done' = done /\ sent' = sent
      /\ lapped' = lapped /\ pc # "rm" /\ pc' # "rm"
  BY DEF Turn, Frame, Drained
<1>2. \A p : Dist(p)' = Dist(p) /\ Number(p)' = Number(p) /\ Chunks(p)' = Chunks(p)
  BY <1>1 DEF Dist, Number, Chunks
<1>3. pc' # "frame" => Dist(temp_pos') <= Dist(file_pos)
  <2>1. Dist(file_pos) \in Int
    BY SMTT(30), DistFacts DEF TypeOK, TurnTypeOK
  <2> QED BY <2>1 DEF Turn, Frame, Look, Drained
<1> QED BY <1>1, <1>2, <1>3 DEF RingInv

\* A file is sent: it lies behind the writer, so all its chunks are there.
LEMMA EncodeRing ==
  ASSUME TypeOK, RingInv, Encode
  PROVE  RingInv'
<1> SUFFICES ASSUME ~lapped' PROVE RingInv'
  BY DEF RingInv
<1>1. /\ file' = file /\ file_pos' = file_pos /\ pending_cnt' = pending_cnt
      /\ work_pos' = work_pos /\ temp_pos' = temp_pos /\ made' = made /\ done' = done
      /\ ~lapped /\ pc = "loop" /\ pc' = "rm" /\ work_pos # temp_pos
  BY DEF Encode, SendFile, CaughtUp
<1>2. \A p : Dist(p)' = Dist(p) /\ Number(p)' = Number(p) /\ Chunks(p)' = Chunks(p)
  BY <1>1 DEF Dist, Number, Chunks
<1>3. PICK f \in {file[work_pos], Empty} : sent' = Append(sent, f)
  BY DEF Encode
<1>4. /\ made = Number(file_pos) /\ Dist(temp_pos) <= Dist(file_pos)
      /\ Len(sent) = done
      /\ IsPart(file[work_pos].chunks, Number(work_pos), Chunks(work_pos))
      /\ file[work_pos].old => Number(work_pos) < FinalPos
  BY <1>1 DEF RingInv, TypeOK, TurnTypeOK
<1>5. Dist(work_pos) = 0 /\ Dist(temp_pos) > 0 /\ Dist(file_pos) > 0
  BY SMTT(30), <1>1, <1>4, DistFacts DEF TypeOK, TurnTypeOK
<1>6. Number(work_pos) = done /\ Chunks(work_pos) = FinalCnt /\ done \in Nat
  BY SMTT(30), <1>4, <1>5, DistFacts DEF Number, Chunks, TypeOK, TurnTypeOK
<1>7. /\ f.chunks = <<>> \/ IsPart(f.chunks, done, FinalCnt)
      /\ f.old => done < FinalPos
  BY <1>3, <1>4, <1>6 DEF Empty
<1>8. /\ Len(sent') = done + 1 /\ sent'[done + 1] = f
      /\ \A i \in 1..done : sent'[i] = sent[i]
  <2>1. sent \in Seq(File) /\ f \in File
    BY <1>3, EmptyFile DEF TypeOK, TurnTypeOK
  <2> QED BY SMTT(30), <1>3, <1>4, <2>1, AppendProperties
<1>9. \A i \in 1..Len(sent') :
        /\ sent'[i].chunks = <<>> \/ IsPart(sent'[i].chunks, i - 1, FinalCnt)
        /\ sent'[i].old => i <= FinalPos
  <2> SUFFICES ASSUME NEW i \in 1..(done + 1)
               PROVE  /\ sent'[i].chunks = <<>> \/ IsPart(sent'[i].chunks, i - 1, FinalCnt)
                      /\ sent'[i].old => i <= FinalPos
    BY <1>8
  <2>1. CASE i = done + 1
    <3>1. i - 1 = done
      BY <1>6, <2>1
    <3>2. done < FinalPos => i <= FinalPos
      BY <1>6, <2>1, RingAssumption
    <3> QED BY <1>7, <1>8, <2>1, <3>1, <3>2
  <2>2. CASE i \in 1..done
    BY <1>1, <1>4, <1>8, <2>2 DEF RingInv
  <2> QED BY <1>6, <2>1, <2>2
<1> QED BY <1>1, <1>2, <1>8, <1>9 DEF RingInv

\* The sent file is removed: it is the last of the lap now, and empty.
LEMMA RemoveRing ==
  ASSUME TypeOK, RingInv, Remove
  PROVE  RingInv'
<1> SUFFICES ASSUME ~lapped' PROVE RingInv'
  BY DEF RingInv
<1>1. /\ file_pos' = file_pos /\ pending_cnt' = pending_cnt
      /\ temp_pos' = temp_pos /\ made' = made /\ done' = done + 1 /\ sent' = sent
      /\ ~lapped /\ pc = "rm" /\ pc' = "loop" /\ work_pos' = Next_pos(work_pos)
      /\ file' = [file EXCEPT ![work_pos] = Empty]
  BY DEF Remove, RemoveFile, Removed
<1>2. /\ made = Number(file_pos) /\ Dist(temp_pos) <= Dist(file_pos)
      /\ temp_pos # work_pos
  BY <1>1 DEF RingInv
<1>3. \A p \in Pos : Dist(p)' = IF p = work_pos THEN FinalPos - 1 ELSE Dist(p) - 1
  BY <1>1, DistAdvance
<1>4. /\ \A p \in Pos \ {work_pos} : Number(p)' = Number(p)
      /\ \A p \in Pos : p = work_pos => Number(p)' = done + FinalPos
  <2>1. done \in Int /\ work_pos \in Pos /\ \A p \in Pos : Dist(p) \in Int
    BY SMTT(30), DistFacts DEF TypeOK, TurnTypeOK
  <2>2. \A n, a \in Int : n + 1 + (a - 1) = n + a
    OBVIOUS
  <2>3. ASSUME NEW p \in Pos \ {work_pos} PROVE Number(p)' = Number(p)
    <3>1. Dist(p)' = Dist(p) - 1
      BY <1>3
    <3>2. Number(p)' = done + 1 + (Dist(p) - 1)
      BY <1>1, <3>1 DEF Number
    <3> QED BY <2>1, <2>2, <3>2 DEF Number
  <2>4. ASSUME NEW p \in Pos, p = work_pos PROVE Number(p)' = done + FinalPos
    <3>1. Dist(p)' = FinalPos - 1
      BY <1>3, <2>4
    <3>2. Number(p)' = done + 1 + (FinalPos - 1)
      BY <1>1, <3>1 DEF Number
    <3> QED BY SMTT(30), <2>1, <2>2, <3>2, RingAssumption
  <2> QED BY <2>3, <2>4
<1>5. /\ file_pos \in Pos /\ temp_pos \in Pos /\ work_pos \in Pos
      /\ file_pos # work_pos /\ Dist(file_pos) < FinalPos
  <2>1. file_pos \in Pos /\ temp_pos \in Pos /\ work_pos \in Pos
    BY DEF TypeOK, TurnTypeOK
  <2>2. /\ Dist(temp_pos) \in 0..(FinalPos - 1) /\ Dist(file_pos) \in 0..(FinalPos - 1)
        /\ Dist(temp_pos) # 0
    BY <1>2, <2>1, DistFacts
  <2>3. Dist(file_pos) # 0 /\ Dist(file_pos) < FinalPos
    BY <1>2, <2>2, RingAssumption
  <2> QED BY <2>1, <2>3, DistFacts
<1>6. made' = Number(file_pos)'
  BY <1>1, <1>2, <1>4, <1>5
<1>7. Dist(temp_pos)' <= Dist(file_pos)'
  BY SMTT(30), <1>1, <1>2, <1>3, <1>5, DistFacts
<1>8. made < done + FinalPos
  BY SMTT(30), <1>2, <1>5, DistFacts, RingAssumption DEF Number, TypeOK, TurnTypeOK
<1>9. \A p \in Pos : IsPart(file'[p].chunks, Number(p)', Chunks(p)')
  <2> SUFFICES ASSUME NEW p \in Pos
               PROVE  IsPart(file'[p].chunks, Number(p)', Chunks(p)')
    OBVIOUS
  <2>1. CASE p = work_pos
    <3>1. Chunks(p)' = 0
      <4>1. Number(p)' = done + FinalPos /\ made' = made
        BY <1>1, <1>4, <2>1
      <4>2. made \in Int /\ done \in Int
        BY DEF TypeOK, TurnTypeOK
      <4> QED BY <1>8, <4>1, <4>2, RingAssumption DEF Chunks
    <3>2. file'[p].chunks = <<>>
      BY <1>1, <2>1 DEF TypeOK, TurnTypeOK, Empty
    <3> QED BY <3>1, <3>2, PartEmpty
  <2>2. CASE p # work_pos
    <3>1. Number(p)' = Number(p) /\ Chunks(p)' = Chunks(p)
      BY <1>1, <1>4, <2>2 DEF Chunks
    <3>2. file'[p] = file[p]
      BY <1>1, <2>2 DEF TypeOK, TurnTypeOK
    <3> QED BY <1>1, <3>1, <3>2 DEF RingInv
  <2> QED BY <2>1, <2>2
<1>10. \A p \in Pos : file'[p].old => Number(p)' < FinalPos
  <2> SUFFICES ASSUME NEW p \in Pos, file'[p].old PROVE Number(p)' < FinalPos
    OBVIOUS
  <2>1. p # work_pos /\ file'[p] = file[p]
    BY <1>1 DEF TypeOK, TurnTypeOK, Empty
  <2> QED BY <1>1, <1>4, <2>1 DEF RingInv
<1>11. /\ Len(sent) = done + 1
       /\ \A i \in 1..Len(sent) :
           sent[i].chunks = <<>> \/ IsPart(sent[i].chunks, i - 1, FinalCnt)
       /\ \A i \in 1..Len(sent) : sent[i].old => i <= FinalPos
  BY <1>1 DEF RingInv
<1> QED BY <1>1, <1>6, <1>7, <1>9, <1>10, <1>11 DEF RingInv

\* A new QEMU: whatever was left is old sound, at a place of the first lap.
LEMMA RestartRing ==
  ASSUME TypeOK,
         file_pos' = 1, work_pos' = 1, temp_pos' = 1, pending_cnt' = 0,
         pc' = "frame", made' = 0, done' = 0, sent' = <<>>,
         \A p \in Pos : file'[p].chunks = <<>>
  PROVE  RingInv'
<1>1. \A p \in Pos : Number(p)' = p - 1 /\ Chunks(p)' = 0
  BY RingAssumption DEF Number, Dist, Chunks, Pos
<1>2. 1 \in Pos /\ \A p \in Pos : p - 1 < FinalPos
  BY RingAssumption DEF Pos
<1>3. Len(sent') = 0 /\ 1..Len(sent') = {}
  BY EmptySeq
<1> QED BY SMTT(30), <1>1, <1>2, <1>3, PartEmpty DEF RingInv

\* Until the sender is lapped, a place of the ring tells which chunks its file
\* holds (alsa_write_pending against thread_fb).
THEOREM RingInvariant == Spec => []RingInv
<1>1. Init => RingInv
  <2> SUFFICES ASSUME Init PROVE RingInv
    OBVIOUS
  <2>1. \A p \in Pos : Number(p) = p - 1 /\ Chunks(p) = 0
    BY RingAssumption DEF Init, TurnInit, Number, Dist, Chunks, Pos
  <2>2. 1 \in Pos /\ \A p \in Pos : p - 1 < FinalPos /\ file[p].chunks = <<>>
    BY RingAssumption DEF Init, TurnInit, Pos, Empty
  <2>3. Len(sent) = 0 /\ 1..Len(sent) = {}
    BY EmptySeq DEF Init
  <2> QED BY SMTT(30), <2>1, <2>2, <2>3, PartEmpty DEF Init, TurnInit, RingInv
<1>2. TypeOK /\ RingInv /\ [Next]_vars => RingInv'
  <2> SUFFICES ASSUME TypeOK, RingInv, [Next]_vars PROVE RingInv'
    OBVIOUS
  <2>1. CASE alsa_write_pending
    BY <2>1, WriteRing
  <2>2. CASE Turn
    BY <2>2, LookRing
  <2>3. CASE Encode
    BY <2>3, EncodeRing
  <2>4. CASE Remove
    BY <2>4, RemoveRing
  <2>5. CASE Restart
    <3>1. \A p \in Pos : file'[p].chunks = <<>>
      BY <2>5 DEF Restart
    <3> QED BY <2>5, <3>1, RestartRing DEF Restart, NewQemu
  <2>6. CASE UNCHANGED vars
    BY <2>6 DEF vars, turns, RingInv, Number, Dist, Chunks
  <2> QED BY <2>1, <2>2, <2>3, <2>4, <2>5, <2>6 DEF Next, thread_fb
<1> QED BY <1>1, <1>2, TypeCorrect, PTL DEF Spec

\* Until the writer laps the sender, thread_fb sends the finished files once
\* and in order, whatever the writes of alsa_write_pending have left in them.
THEOREM SoundInOrder == Spec => []FinishedFilesInOrder
<1>1. RingInv => FinishedFilesInOrder
  BY DEF RingInv, FinishedFilesInOrder
<1> QED BY <1>1, RingInvariant, PTL

\* Sound left in the directory by an earlier QEMU is sent in the first lap only.
THEOREM OldSoundOnce == Spec => []OldSoundFirstLap
<1>1. RingInv => OldSoundFirstLap
  BY DEF RingInv, OldSoundFirstLap
<1> QED BY <1>1, RingInvariant, PTL

-----------------------------------------------------------------------------
\* Multiplication is monotonic: rows of the same length lie behind each other.
LEMMA Monotonic ==
  ASSUME NEW n \in Nat, NEW a \in Int, NEW b \in Int, a <= b
  PROVE  n * a <= n * b
<1>1. n * (b - a) \in Nat /\ n * (b - a) = n * b - n * a
  OBVIOUS
<1> QED BY <1>1

\* Rows of length n, one behind the other: the m-th ends before n * m.
LEMMA RowEnds ==
  ASSUME NEW n \in Nat, NEW l \in Nat, l <= n, NEW m \in Nat, NEW y \in 0..(m - 1), NEW x \in 0..(n - 1)
  PROVE  l * y + x \in 0..(n * m - 1)
<1>1. l * y \in Nat /\ y * l <= y * n
  BY Monotonic
<1>2. n * y <= n * (m - 1) /\ n * (m - 1) = n * m - n
  BY Monotonic
<1> QED BY <1>1, <1>2

\* No two pixels share a place.
LEMMA RowsApart ==
  ASSUME NEW n \in Nat, NEW x1 \in 0..(n - 1), NEW x2 \in 0..(n - 1),
         NEW y1 \in Nat, NEW y2 \in Nat, n * y1 + x1 = n * y2 + x2
  PROVE  x1 = x2 /\ y1 = y2
<1>1. ASSUME NEW a \in Nat, NEW b \in Nat, a < b PROVE n * a + n <= n * b
  <2>1. n * (a + 1) <= n * b
    BY <1>1, Monotonic
  <2> QED BY <2>1
<1>2. ~(y1 < y2) /\ ~(y2 < y1)
  BY <1>1
<1> QED BY <1>2

\* Every place of m rows of length n is in one of them.
LEMMA RowsCover ==
  ASSUME NEW n \in Nat \ {0}, NEW m \in Nat, NEW p \in 0..(n * m - 1)
  PROVE  \E y \in 0..(m - 1), x \in 0..(n - 1) : p = n * y + x
<1> DEFINE y == p \div n
           x == p % n
<1>1. y \in Int /\ x \in 0..(n - 1) /\ p = n * y + x
  OBVIOUS
<1>2. y >= 0
  <2>1. SUFFICES ASSUME y <= -1 PROVE FALSE
    BY <1>1
  <2>2. n * y <= n * (-1)
    BY <1>1, <2>1, Monotonic
  <2> QED BY <1>1, <2>2
<1>3. y < m
  <2>1. SUFFICES ASSUME m <= y PROVE FALSE
    BY <1>1
  <2>2. n * m <= n * y
    BY <1>1, <2>1, Monotonic
  <2> QED BY <1>1, <2>2
<1>4. y \in 0..(m - 1)
  BY <1>1, <1>2, <1>3
<1> HIDE DEF x, y
<1> QED BY <1>1, <1>4

\* The depth is guessed right for an area as wide as the screen.
LEMMA DepthOfWhole == bpp \in {2, 4} => Depth(W) = bpp
<1>1. (2 * W) \div W = 2 /\ (4 * W) \div W = 4
  BY ScreenAssumption
<1> QED BY <1>1 DEF Depth

-----------------------------------------------------------------------------
\* The areas lie on the screen.
LEMMA AreaOnScreen ==
  ASSUME NEW r \in Rect \cup {Screen}
  PROVE  /\ r[1] \in Nat /\ r[2] \in Nat /\ r[3] \in 1..W /\ r[4] \in 1..H
         /\ r[1] + r[3] <= W /\ r[2] + r[4] <= H
         /\ \A c \in Pixels(r) : c[1] \in 0..(W - 1) /\ c[2] \in 0..(H - 1)
<1>1. /\ r[1] \in Nat /\ r[2] \in Nat /\ r[3] \in 1..W /\ r[4] \in 1..H
      /\ r[1] + r[3] <= W /\ r[2] + r[4] <= H
  <2>1. CASE r \in Rect
    BY SMTT(30), <2>1, ScreenAssumption
  <2>2. CASE r = Screen
    BY <2>2, ScreenAssumption DEF Screen
  <2> QED BY <2>1, <2>2
<1>2. ASSUME NEW c \in Pixels(r) PROVE c[1] \in 0..(W - 1) /\ c[2] \in 0..(H - 1)
  BY SMTT(30), <1>1, <1>2, ScreenAssumption DEF Pixels
<1> QED BY <1>1, <1>2

\* Update_frameData writes inside the file.
LEMMA WrittenInFile ==
  ASSUME NEW r \in Rect \cup {Screen}, NEW c \in Pixels(r)
  PROVE  Written(r, c) \in Place
<1>1. /\ c[1] \in 0..(W - 1) /\ c[2] \in 0..(H - 1)
      /\ r[3] \in Nat /\ r[3] <= W /\ r[4] \in Nat /\ r[4] <= H
  BY AreaOnScreen, ScreenAssumption
<1>2. W \in Nat /\ H \in Nat /\ H * W = W * H /\ H - 1 - c[2] \in 0..(H - 1)
  BY SMTT(30), <1>1, ScreenAssumption
<1>3. CASE android
  <2>1. r[4] * c[1] + (H - 1 - c[2]) \in 0..(H * W - 1)
    BY <1>1, <1>2, RowEnds
  <2> QED BY <1>2, <1>3, <2>1 DEF Written, Place
<1>4. CASE ~android
  <2>1. r[3] * c[2] + c[1] \in 0..(W * H - 1)
    BY <1>1, <1>2, RowEnds
  <2> QED BY <1>4, <2>1 DEF Written, Place, get_pixel_index
<1> QED BY <1>3, <1>4

\* An area as wide, or as high, as the screen is written to the places of its pixels.
LEMMA WholeInPlace ==
  ASSUME NEW r \in Rect \cup {Screen}, Whole(r), NEW c \in Pixels(r)
  PROVE  Written(r, c) = PlaceOf(c)
BY DEF Whole, Written, PlaceOf, get_pixel_index

LEMMA PlaceInFile ==
  ASSUME NEW r \in Rect \cup {Screen}, NEW c \in Pixels(r)
  PROVE  PlaceOf(c) \in Place
<1>1. /\ c[1] \in 0..(W - 1) /\ c[2] \in 0..(H - 1)
  BY AreaOnScreen
<1>2. c \in Pixels(Screen) /\ Whole(Screen)
  BY SMTT(30), <1>1, AreaOnScreen, ScreenAssumption DEF Pixels, Screen, Whole
<1>3. Written(Screen, c) \in Place
  BY <1>2, WrittenInFile
<1> QED BY <1>2, <1>3, WholeInPlace

\* The whole screen fills the file.
LEMMA ScreenFillsFile ==
  ASSUME NEW p \in Place
  PROVE  \E c \in Pixels(Screen) : PlaceOf(c) = p
<1>1. W \in Nat \ {0} /\ H \in Nat \ {0} /\ W * H = H * W /\ p \in 0..(W * H - 1)
  BY ScreenAssumption DEF Place
<1>2. \A x \in 0..(W - 1), y \in 0..(H - 1) : <<x, y>> \in Pixels(Screen)
  BY <1>1 DEF Pixels, Screen
<1>3. CASE android
  <2>0. H \in Nat \ {0} /\ W \in Nat /\ p \in 0..(H * W - 1)
    BY <1>1
  <2>1. PICK x \in 0..(W - 1), z \in 0..(H - 1) : p = H * x + z
    BY <2>0, RowsCover
  <2>2. H - 1 - z \in 0..(H - 1) /\ H - 1 - (H - 1 - z) = z
    BY <1>1
  <2>3. PlaceOf(<<x, H - 1 - z>>) = p
    BY <1>3, <2>1, <2>2 DEF PlaceOf
  <2> QED BY <1>2, <2>2, <2>3
<1>4. CASE ~android
  <2>1. PICK y \in 0..(H - 1), x \in 0..(W - 1) : p = W * y + x
    BY <1>1, RowsCover
  <2>2. PlaceOf(<<x, y>>) = p
    BY <1>4, <2>1 DEF PlaceOf
  <2> QED BY <1>2, <2>2
<1> QED BY <1>3, <1>4

\* After the copy of an area as wide, or as high, as the screen its places show
\* their pixels, and no other place has changed.
LEMMA WholeShown ==
  ASSUME NEW r \in Rect \cup {Screen}, Whole(r), bpp \in {2, 4}
  PROVE  Update_frameData(r) = stale \ {PlaceOf(c) : c \in Pixels(r)}
<1> DEFINE places == {PlaceOf(c) : c \in Pixels(r)}
<1>1. {Written(r, c) : c \in Pixels(r)} = places
  BY WholeInPlace
<1>2. ~android => Depth(r[3]) = bpp
  BY DepthOfWhole DEF Whole
<1>3. ASSUME NEW p \in places PROVE Good(r, p)
  <2>1. CASE ~android
    BY <1>2, <2>1 DEF Good
  <2>2. CASE android
    <3>1. PICK c \in Pixels(r) : p = PlaceOf(c)
      BY <1>3
    <3>2. ASSUME NEW d \in Pixels(r), Before(c, d), Written(r, d) = p PROVE FALSE
      <4>1. PlaceOf(d) = PlaceOf(c)
        BY <3>1, <3>2, WholeInPlace
      <4>2. /\ c[1] \in Nat /\ c[2] \in 0..(H - 1) /\ d[1] \in Nat /\ d[2] \in 0..(H - 1)
            /\ H \in Nat
        BY SMTT(30), AreaOnScreen, ScreenAssumption
      <4> DEFINE a == H - 1 - c[2]
                 b == H - 1 - d[2]
                 x == c[1]
                 y == d[1]
      <4>3. /\ H * x + a = H * y + b /\ a \in 0..(H - 1) /\ b \in 0..(H - 1)
            /\ H \in Nat /\ x \in Nat /\ y \in Nat
        BY <2>2, <4>1, <4>2 DEF PlaceOf
      <4>4. x = y /\ a = b
        <5> HIDE DEF a, b, x, y
        <5> QED BY SMTT(30), <4>3, RowsApart
      <4> QED BY <3>2, <4>2, <4>4 DEF Before
    <3>3. Written(r, c) = p
      BY <3>1, WholeInPlace
    <3> QED BY <2>2, <3>1, <3>2, <3>3 DEF Good
  <2> QED BY <2>1, <2>2
<1>4. android \/ Depth(r[3]) \in {2, 4}
  BY <1>2
<1>5. {p \in places : Good(r, p)} = places
  BY <1>3
<1>6. Update_frameData(r) = (stale \cup places) \ places
  BY <1>1, <1>4, <1>5 DEF Update_frameData
<1> QED BY <1>6

-----------------------------------------------------------------------------
LEMMA FbTypeInit == StreamInit => FbTypeOK
<1> SUFFICES ASSUME FbInit PROVE FbTypeOK
  BY DEF StreamInit
<1>1. draws \in 0..MaxDraw
  BY ScreenAssumption DEF FbInit
<1>2. area \in {{}} \cup {{r} : r \in Rect \cup {Screen}} /\ stale \subseteq Place
  BY Zenon DEF FbInit
<1> QED BY <1>1, <1>2 DEF FbInit, FbTypeOK

LEMMA FbTypeNext == FbTypeOK /\ [StreamNext]_streamVars => FbTypeOK'
<1> SUFFICES ASSUME FbTypeOK, [StreamNext]_streamVars PROVE FbTypeOK'
  OBVIOUS
<1> USE DEF FbTypeOK
<1>1. ASSUME mmap_fb PROVE FbTypeOK'
  BY <1>1 DEF mmap_fb, viewers
<1>2. ASSUME make_frameData PROVE FbTypeOK'
  <2>1. 0 \in Place
    <3>1. W * H \in Nat /\ W * H >= 1
      BY SMTT(30), ScreenAssumption
    <3> QED BY SMTT(30), <3>1 DEF Place
  <2> QED BY <1>2, <2>1 DEF make_frameData, viewers
<1>3. ASSUME NEW r \in Rect \cup {Screen}, Blit(r) PROVE FbTypeOK'
  <2>1. {PlaceOf(c) : c \in Pixels(r)} \subseteq Place
    BY PlaceInFile
  <2>2. stale' \subseteq Place
    BY <1>3, <2>1 DEF Blit
  <2>3. draws' \in 0..MaxDraw
    BY SMTT(30), <1>3, ScreenAssumption DEF Blit
  <2> QED BY <1>3, <2>2, <2>3 DEF Blit, viewers
<1>4. ASSUME NEW r \in Rect \cup {Screen}, Copy(r) PROVE FbTypeOK'
  <2>1. {Written(r, c) : c \in Pixels(r)} \subseteq Place
    BY WrittenInFile
  <2>2. Update_frameData(r) \subseteq Place
    BY <2>1 DEF Update_frameData
  <2>3. partial' \in BOOLEAN
    BY <1>4 DEF Copy
  <2> QED BY <1>4, <2>2, <2>3 DEF Copy, viewers
<1>5. ASSUME ReadHalf \/ SendPicture PROVE FbTypeOK'
  BY <1>5 DEF ReadHalf, SendPicture, screen
<1>6. ASSUME RestartStream PROVE FbTypeOK'
  <2>1. draws' \in 0..MaxDraw
    BY SMTT(30), <1>6, ScreenAssumption DEF RestartStream
  <2>2. area' \in {{}} \cup {{r} : r \in Rect \cup {Screen}} /\ stale' \subseteq Place
    BY <1>6, Zenon DEF RestartStream
  <2> QED BY <1>6, <2>1, <2>2 DEF RestartStream
<1>7. ASSUME UNCHANGED <<screen, viewers>> PROVE FbTypeOK'
  BY <1>7 DEF screen, viewers
<1> QED
  BY <1>1, <1>2, <1>3, <1>4, <1>5, <1>6, <1>7
  DEF StreamNext, Draw, sdl_refresh, Write, thread_fb_round, ReadPicture, PictureDone,
      Sound, streamVars

\* The picture's state keeps its type: what Update_frameData writes stays in the file.
THEOREM FbTypeCorrect == StreamSpec => []FbTypeOK
BY FbTypeInit, FbTypeNext, PTL DEF StreamSpec

\* Update_frameData never writes outside the mapping of the file, whatever area of
\* the screen is updated.
THEOREM NoWriteOutside == StreamSpec => []WritesInFile
<1>1. FbTypeOK => WritesInFile
  BY WrittenInFile DEF FbTypeOK, WritesInFile
<1> QED BY <1>1, FbTypeCorrect, PTL

-----------------------------------------------------------------------------
\* The inductive form of WholeAreasShown: until an area came that was not as wide
\* (or high) as the screen, the only places that do not show their pixel are those
\* of the area that is about to be copied.
ShownInv ==
  fb_data = "filled" /\ ~partial =>
    \A p \in stale : \E r \in area : \E c \in Pixels(r) : PlaceOf(c) = p

LEMMA ShownNext == FbTypeOK /\ ShownInv /\ [StreamNext]_streamVars => ShownInv'
<1> SUFFICES ASSUME FbTypeOK, ShownInv, [StreamNext]_streamVars PROVE ShownInv'
  OBVIOUS
<1>1. ASSUME mmap_fb PROVE ShownInv'
  BY <1>1 DEF mmap_fb, ShownInv
<1>2. ASSUME make_frameData PROVE ShownInv'
  <2>1. stale' \subseteq Place /\ area' = {Screen} /\ android' = android
    <3>1. 0 \in Place
      <4>1. W * H \in Nat /\ W * H >= 1
        BY ScreenAssumption
      <4> QED BY <4>1 DEF Place
    <3> QED BY <1>2, <3>1 DEF make_frameData
  <2>2. \A p \in stale' : \E c \in Pixels(Screen) : PlaceOf(c) = p
    BY <2>1, ScreenFillsFile
  <2>3. \A c : PlaceOf(c)' = PlaceOf(c)
    BY <2>1 DEF PlaceOf
  <2> QED BY <2>1, <2>2, <2>3 DEF ShownInv
<1>3. ASSUME NEW r \in Rect \cup {Screen}, Blit(r) PROVE ShownInv'
  <2>1. \A c : PlaceOf(c)' = PlaceOf(c)
    BY <1>3 DEF Blit, PlaceOf
  <2>2. ~partial => stale = {}
    BY <1>3 DEF Blit, ShownInv
  <2>3. stale' = stale \cup {PlaceOf(c) : c \in Pixels(r)} /\ area' = {r} /\ partial' = partial
    BY <1>3 DEF Blit
  <2> QED BY <2>1, <2>2, <2>3 DEF ShownInv
<1>4. ASSUME NEW r \in Rect \cup {Screen}, Copy(r) PROVE ShownInv'
  <2> SUFFICES ASSUME fb_data' = "filled", ~partial' PROVE stale' = {}
    BY DEF ShownInv
  <2>1. Whole(r) /\ (partial => r = Screen) /\ area = {r} /\ fb_data = "filled"
    BY <1>4 DEF Copy
  <2>2. stale' = stale \ {PlaceOf(c) : c \in Pixels(r)}
    BY <1>4, <2>1, WholeShown DEF Copy, FbTypeOK
  <2>3. stale \subseteq {PlaceOf(c) : c \in Pixels(r)}
    <3>1. CASE partial
      BY <2>1, <3>1, ScreenFillsFile DEF FbTypeOK
    <3>2. CASE ~partial
      BY <2>1, <3>2 DEF ShownInv
    <3> QED BY <3>1, <3>2
  <2> QED BY <2>2, <2>3
<1>5. ASSUME RestartStream PROVE ShownInv'
  BY <1>5 DEF RestartStream, ShownInv
<1>6. ASSUME UNCHANGED screen PROVE ShownInv'
  BY <1>6 DEF screen, ShownInv, PlaceOf
<1> QED
  BY <1>1, <1>2, <1>3, <1>4, <1>5, <1>6
  DEF StreamNext, Draw, sdl_refresh, Write, thread_fb_round, ReadPicture, PictureDone,
      ReadHalf, SendPicture, Sound, streamVars

\* For every screen and every sequence of updates, the file shows the screen after
\* areas as wide (or high) as the screen, and again after an update of all of it.
THEOREM WholeAreasAreShown == StreamSpec => []WholeAreasShown
<1>1. StreamInit => ShownInv
  BY DEF StreamInit, FbInit, ShownInv
<1>2. ShownInv => WholeAreasShown
  BY DEF ShownInv, WholeAreasShown
<1> QED BY <1>1, <1>2, ShownNext, FbTypeInit, FbTypeNext, PTL DEF StreamSpec

=============================================================================
