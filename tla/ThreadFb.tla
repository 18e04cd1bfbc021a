------------------------------- MODULE ThreadFb -------------------------------
(***************************************************************************)
(* thread_fb sends, in turn, a picture and the sound files finished so     *)
(* far, while the main thread draws and the audio callback writes: the     *)
(* composition of FrameBuffer and RingTurns, in one QEMU after the other.  *)
(* The sound goes on for ever; what is in its files is left to AudioRing.  *)
(***************************************************************************)
EXTENDS RingTurns, FrameBuffer

streamVars == <<turns, screen, viewers>>

StreamInit == TurnInit /\ FbInit

\* The main thread and the audio callback go on at any time.
Draw  == sdl_refresh /\ UNCHANGED turns
Write == CountChunk /\ UNCHANGED <<screen, viewers>>

\* The first half of the round: ffmpeg reads and sends the picture,
ReadPicture == pc = "frame" /\ ReadHalf /\ UNCHANGED turns

\* and then thread_fb looks how far the writer is.
PictureDone == Frame /\ SendPicture

\* The second half: the finished sound files.
Sound == (SendFile \/ RemoveFile \/ Drained) /\ UNCHANGED <<screen, viewers>>

thread_fb_round == ReadPicture \/ PictureDone \/ Sound

\* The next QEMU makes its picture anew.
RestartStream ==
  /\ NewQemu
  /\ fb_data' = "null" /\ stale' = {} /\ area' = {} /\ half' = "none" /\ picture' = "none"
  /\ draws' = 0 /\ partial' = FALSE
  /\ UNCHANGED <<android, bpp>>

StreamNext == Draw \/ Write \/ thread_fb_round \/ RestartStream

StreamSpec == StreamInit /\ [][StreamNext]_streamVars

\* The operating system runs the thread, and ffmpeg ends.
FairStream == StreamSpec /\ WF_streamVars(thread_fb_round)

-----------------------------------------------------------------------------
\* The first picture begun after the guest's last area shows the screen, unless its
\* sending fails: pictures read while the main thread draws may be torn, but the
\* next one is not, and although sound files are finished for ever, and laps of them,
\* thread_fb gets back to the picture.
PictureCatchesUp ==
  (draws = MaxDraw /\ area = {} /\ stale = {} /\ fb_data = "filled")
    ~> (picture \in {"clean", "lost"} \/ draws # MaxDraw)
=============================================================================
