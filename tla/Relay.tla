-------------------------------- MODULE Relay --------------------------------
(***************************************************************************)
(* A stream worker of the web server: the pages and the QEMUs of all       *)
(* sessions on its port meet in two variables.  NET_SOCKET_TARGET is the   *)
(* QEMU that gets the input of the pages, Audio_stream the page that gets  *)
(* the sound of the QEMUs.  Sessions follow each other on a port, and may  *)
(* overlap: a page and a QEMU come and go in their own time.               *)
(***************************************************************************)
CONSTANTS
  Session,   \* a page and a QEMU each
  None,
  Faults     \* whether connections may break

ASSUME RelayAssumption == None \notin Session /\ Faults \in BOOLEAN

VARIABLES
  alive,     \* the worker
  audio,     \* the sound socket of each page
  event,     \* its event socket
  net,       \* the socket of each QEMU; "ended" by the worker
  buf,       \* what the input buffer of each QEMU begins with
  Audio_stream, NET_SOCKET_TARGET,
  \* History.
  lastAudio, lastNet,     \* who connected last
  robbedAudio, robbedNet, \* another one's end, since then, has cleared the variable
  late,      \* QEMUs that connected after their page had closed
  crossed    \* QEMUs that another one's coming or going has run into

vars == <<alive, audio, event, net, buf, Audio_stream, NET_SOCKET_TARGET,
          lastAudio, lastNet, robbedAudio, robbedNet, late, crossed>>
audioVars == <<audio, Audio_stream, lastAudio, robbedAudio>>
netVars   == <<net, buf, NET_SOCKET_TARGET, lastNet, robbedNet, late, crossed>>

TypeOK ==
  /\ alive \in BOOLEAN
  /\ audio \in [Session -> {"none", "open", "closed"}]
  /\ event \in [Session -> {"none", "open", "closed"}]
  /\ net \in [Session -> {"none", "open", "ended", "gone"}]
  /\ buf \in [Session -> {"unset", "whole", "cut"}]
  /\ Audio_stream \in Session \cup {None} /\ NET_SOCKET_TARGET \in Session \cup {None}
  /\ lastAudio \in Session \cup {None} /\ lastNet \in Session \cup {None}
  /\ robbedAudio \in BOOLEAN /\ robbedNet \in BOOLEAN
  /\ late \subseteq Session /\ crossed \subseteq Session

Init ==
  /\ alive = TRUE
  /\ audio = [s \in Session |-> "none"]
  /\ event = [s \in Session |-> "none"]
  /\ net = [s \in Session |-> "none"]
  /\ buf = [s \in Session |-> "unset"]
  /\ Audio_stream = None /\ NET_SOCKET_TARGET = None
  /\ lastAudio = None /\ lastNet = None
  /\ robbedAudio = FALSE /\ robbedNet = FALSE
  /\ late = {} /\ crossed = {}

-----------------------------------------------------------------------------
\* (mutant) the first client keeps the stream
StreamOfFirst(s) == IF Audio_stream = None THEN s ELSE Audio_stream

\* createStream: the newest client gets the sound.
StreamOf(s) == s

AudioConnect(s) ==
  /\ alive /\ audio[s] = "none"
  /\ audio' = [audio EXCEPT ![s] = "open"]
  /\ Audio_stream' = StreamOf(s)
  /\ lastAudio' = s /\ robbedAudio' = FALSE
  /\ UNCHANGED <<alive, event, netVars>>

\* Any client's close clears the stream.
AudioClose(s) ==
  /\ audio[s] = "open"
  /\ audio' = [audio EXCEPT ![s] = "closed"]
  /\ Audio_stream' = None
  /\ robbedAudio' = (robbedAudio \/ s # lastAudio)
  /\ UNCHANGED <<alive, lastAudio, event, netVars>>

\* (mutant) the end of a file ends the page's stream
AudioEndStops == Audio_stream' = None /\ UNCHANGED robbedAudio

\* end() of a BinaryStream tells the page; the stream can still be written.
AudioEnd == UNCHANGED <<Audio_stream, robbedAudio>>

\* The POST of a sound file, one per file, ends: ffmpeg closes the connection
\* before it was answered.  An error of the request clears the stream.
AudioRequestOver ==
  /\ alive
  /\ \/ AudioEnd
     \/ Faults /\ Audio_stream' = None /\ robbedAudio' = TRUE
  /\ UNCHANGED <<alive, audio, lastAudio, event, netVars>>

-----------------------------------------------------------------------------
EventConnect(s) ==
  /\ alive /\ event[s] = "none"
  /\ event' = [event EXCEPT ![s] = "open"]
  /\ UNCHANGED <<alive, audioVars, netVars>>

\* A page's input goes to the target, whose reads end with this message whole or,
\* behind 100 unread bytes, with a part of it.
Forward(t) == \E b \in {"whole", "cut"} : buf' = [buf EXCEPT ![t] = b]

\* A write after end() is an error of the socket, whose handler clears the target.
EventMessage(s) ==
  /\ event[s] = "open" /\ NET_SOCKET_TARGET # None
  /\ IF net[NET_SOCKET_TARGET] = "ended"
     THEN NET_SOCKET_TARGET' = None /\ UNCHANGED buf
     ELSE Forward(NET_SOCKET_TARGET) /\ UNCHANGED NET_SOCKET_TARGET
  /\ UNCHANGED <<alive, audioVars, event, net, lastNet, robbedNet, late, crossed>>

\* (mutant) a page's close leaves the QEMU alone
EndedNothing(t) == net

\* end() of the target, the newest QEMU, whoever's page closes.
Ended(t) == IF t # None /\ net[t] = "open" THEN [net EXCEPT ![t] = "ended"] ELSE net

EventClose(s) ==
  /\ event[s] = "open"
  /\ event' = [event EXCEPT ![s] = "closed"]
  /\ net' = Ended(NET_SOCKET_TARGET)
  /\ UNCHANGED <<alive, audioVars, buf, NET_SOCKET_TARGET, lastNet, robbedNet, late, crossed>>

-----------------------------------------------------------------------------
TargetOf(s) == s

Others(s) == {x \in Session \ {s} : net[x] = "open"}

\* A QEMU connects, 6 or 18 seconds after its start.
NetConnect(s) ==
  /\ alive /\ net[s] = "none"
  /\ net' = [net EXCEPT ![s] = "open"]
  /\ NET_SOCKET_TARGET' = TargetOf(s)
  /\ lastNet' = s /\ robbedNet' = FALSE
  /\ late' = IF event[s] = "closed" THEN late \cup {s} ELSE late
  /\ crossed' = crossed \cup Others(s)
  /\ UNCHANGED <<alive, audioVars, event, buf>>

\* (mutant) the end of a connection is not noticed
ClearedNot(s) == NET_SOCKET_TARGET

Cleared(s) == None

\* The end or an error of any QEMU's connection clears the target.  A QEMU goes
\* when its guest does, or after the worker has ended its connection.
NetEnd(s) ==
  /\ net[s] \in {"open", "ended"}
  /\ net' = [net EXCEPT ![s] = "gone"]
  /\ NET_SOCKET_TARGET' = Cleared(s)
  /\ robbedNet' = (robbedNet \/ s # lastNet)
  /\ crossed' = crossed \cup Others(s)
  /\ UNCHANGED <<alive, audioVars, event, buf, lastNet, late>>

-----------------------------------------------------------------------------
\* An error of a page's sound socket is an "error" event of its stream, which has no
\* handler: the worker ends, nothing starts it again, and all its connections end.
AudioError(s) ==
  /\ Faults /\ audio[s] = "open"
  /\ alive' = FALSE
  /\ audio' = [x \in Session |-> IF audio[x] = "open" THEN "closed" ELSE audio[x]]
  /\ event' = [x \in Session |-> IF event[x] = "open" THEN "closed" ELSE event[x]]
  /\ net' = [x \in Session |-> IF net[x] = "open" THEN "ended" ELSE net[x]]
  /\ Audio_stream' = None /\ NET_SOCKET_TARGET' = None
  /\ UNCHANGED <<buf, lastAudio, lastNet, robbedAudio, robbedNet, late, crossed>>

Next ==
  \/ AudioRequestOver
  \/ \E s \in Session : \/ AudioConnect(s) \/ AudioClose(s) \/ AudioError(s)
                        \/ EventConnect(s) \/ EventMessage(s) \/ EventClose(s)
                        \/ NetConnect(s) \/ NetEnd(s)

Spec == Init /\ [][Next]_vars

\* read() returns 0 at the end of the connection and leaves the buffer, which strtok
\* has cut behind its first word.  A buffer that began with a whole message has no
\* second word, atoi(NULL) ends QEMU; with any other one thread_sdl may spin.
Ends(s) == net[s] = "ended" /\ buf[s] = "whole" /\ NetEnd(s)

FairSpec == Spec /\ \A s \in Session : WF_vars(Ends(s))

-----------------------------------------------------------------------------
\* Sound goes to the page that connected last or to nobody, and never to a socket
\* that is closed (write would throw, which ends the worker and its port for
\* good): that any close clears Audio_stream is what keeps it so.
SoundToNewest ==
  Audio_stream # None => Audio_stream = lastAudio /\ audio[Audio_stream] = "open"

\* The newest page has no sound only when another page's late close, or an error
\* of a request, has cleared the stream since it connected.
SilentWhenRobbed ==
  lastAudio # None /\ audio[lastAudio] = "open" /\ Audio_stream = None => robbedAudio

\* Input goes to the QEMU that connected last or to nobody, never to one that has
\* gone: a page whose own QEMU is not there yet reaches the one before it at most
\* until that one ends.
InputToNewest ==
  NET_SOCKET_TARGET # None =>
    NET_SOCKET_TARGET = lastNet /\ net[NET_SOCKET_TARGET] \in {"open", "ended"}

\* A QEMU outlives its page only when it connected after the page had closed, or
\* when another QEMU has come or gone on the port meanwhile.
OrphanExplained ==
  \A s \in Session : event[s] = "closed" /\ net[s] = "open" => s \in late \cup crossed

\* The inductive form of OrphanExplained: the newest QEMU is the target unless
\* another one's end has robbed it, and one that is not the newest is crossed.
TargetInv ==
  /\ InputToNewest /\ OrphanExplained
  /\ \A s \in Session : net[s] = "open" /\ s \notin crossed => NET_SOCKET_TARGET = s

\* The QEMU of a page that has closed ends, with the same two exceptions and that of
\* a QEMU that never got input, or got its last input cut.
EndsWithPage ==
  \A s \in Session : (event[s] = "closed" /\ net[s] \in {"open", "ended"})
    ~> (net[s] = "gone" \/ s \in late \cup crossed \/ buf[s] # "whole")
=============================================================================
