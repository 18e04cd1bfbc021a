----------------------------- MODULE InputEvents -----------------------------
(***************************************************************************)
(* The way of one session's input: the stream page turns what the user     *)
(* does with mouse, touch and keys into messages, the worker passes them   *)
(* on to QEMU, and thread_sdl reads them, 100 bytes at a time, and handles *)
(* the first message of what it has read.                                  *)
(***************************************************************************)
EXTENDS Integers, Sequences

CONSTANTS
  Key,      \* the keys: their codes in the browser
  Cap,      \* whole messages that 100 bytes hold
  MaxMsg    \* bound on the messages sent

ASSUME InputAssumption == Key \subseteq Nat /\ Cap \in Nat \ {0} /\ MaxMsg \in Nat

VARIABLES
  mobile,           \* the touch page, rather than the desktop one
  btn, inside, held,   \* the user: buttons (or finger) down, pointer in the canvas, keys down
  ws, check,        \* the page: its WebSocket, and what it takes to be pressed
  toWorker,         \* messages on the WebSocket
  target, seen,     \* the worker: NET_SOCKET_TARGET is set; it knows of the page's close
  tcp, fin,         \* messages to QEMU, and the end of the connection behind them
  qemu, buf,        \* QEMU, and what its buffer begins with
  prev_state, keys, \* buttons and keys that are down in the guest
  \* History.
  count,            \* messages sent
  stale, lost,      \* the newest mouse message was lost; keys whose newest message was
  untold, unheard,  \* the page could not tell a button's, was not told a key's release
  junk, late        \* a message was cut in two; the page closed before QEMU had connected

user   == <<mobile, btn, inside, held>>
page   == <<ws, check, toWorker, count, untold, unheard>>
worker == <<target, seen, late>>
guest  == <<prev_state, keys>>
vars   == <<user, page, worker, tcp, fin, qemu, buf, guest, stale, lost, junk>>

Button == {1, 2, 3}   \* left (or the finger), middle, right

MINPUT == 0
KINPUT == 1
Mouse(st)  == [type |-> MINPUT, state |-> st, key |-> 0]
KeyMsg(st, k) == [type |-> KINPUT, state |-> st, key |-> k]
Message == {Mouse(st) : st \in {0, 1, 4}} \cup {KeyMsg(st, k) : st \in {0, 1}, k \in Key}

\* What is left of a message whose beginning an earlier read has taken.
Rest == [type |-> 2, state |-> 0, key |-> 0]

\* The table of Make_keymap, by two of its entries; a key without entry is 0.
Make_keymap(k) == IF k = 65 THEN 30 ELSE IF k = 16 THEN 54 ELSE 0
Code == {Make_keymap(k) : k \in Key}

TypeOK ==
  /\ mobile \in BOOLEAN /\ inside \in BOOLEAN /\ btn \subseteq Button /\ held \subseteq Key
  /\ ws \in {"connecting", "open", "closed"} /\ check \in {0, 1, 4}
  /\ toWorker \in Seq(Message) /\ tcp \in Seq(Message \cup {Rest})
  /\ target \in BOOLEAN /\ seen \in BOOLEAN /\ fin \in BOOLEAN
  /\ qemu \in {"booting", "reading", "deaf", "ended"} /\ buf \in {"unset", "whole", "cut"}
  /\ prev_state \in {0, 1, 4} /\ keys \subseteq Code
  /\ count \in 0..MaxMsg /\ lost \subseteq Key /\ unheard \subseteq Key
  /\ stale \in BOOLEAN /\ untold \in BOOLEAN /\ junk \in BOOLEAN /\ late \in BOOLEAN

Init ==
  /\ mobile \in BOOLEAN /\ inside = TRUE /\ btn = {} /\ held = {}
  /\ ws = "connecting" /\ check = 0 /\ toWorker = <<>>
  /\ target = FALSE /\ seen = FALSE /\ tcp = <<>> /\ fin = FALSE
  /\ qemu = "booting" /\ buf = "unset"
  /\ prev_state = 0 /\ keys = {}
  /\ count = 0 /\ stale = FALSE /\ lost = {} /\ untold = FALSE /\ unheard = {}
  /\ junk = FALSE /\ late = FALSE

-----------------------------------------------------------------------------
\* The messages in M are lost; those in H are handled.
MouseIn(M) == \E m \in M : m.type = MINPUT
KeysIn(M)  == {m.key : m \in {x \in M : x.type = KINPUT}}
Lose(M, H) ==
  /\ stale' = (MouseIn(M) \/ (stale /\ ~MouseIn(H)))
  /\ lost' = (lost \ KeysIn(H)) \cup KeysIn(M)

\* Event_client.send of a socket that is connecting throws, which ends the handler;
\* of one that is closed it does nothing.
Throws == ws = "connecting"

Send(m) ==
  IF ws = "open"
  THEN /\ count < MaxMsg /\ toWorker' = Append(toWorker, m) /\ count' = count + 1
       /\ UNCHANGED <<stale, lost>>
  ELSE Lose({m}, {}) /\ UNCHANGED <<toWorker, count>>

SendNothing == UNCHANGED <<toWorker, count, stale, lost>>

\* (mutant) the number of the button is its state
ButtonStateWhich(b) == b

ButtonState(b) == IF b = 3 THEN 4 ELSE 1

\* mouseEvent_down or touchEvent_start.  The middle button does nothing, and nothing
\* is heard outside.
mouseEvent_down(b) ==
  /\ b \notin btn /\ (mobile => b = 1)
  /\ btn' = btn \cup {b}
  /\ IF inside /\ b # 2
     THEN check' = ButtonState(b) /\ Send(Mouse(ButtonState(b))) /\ untold' = FALSE
     ELSE SendNothing /\ UNCHANGED <<check, untold>>
  /\ UNCHANGED <<inside, held, ws, unheard>>

mouseEvent_move ==
  /\ inside /\ check = 1 /\ ws = "open" /\ (mobile => 1 \in btn)
  /\ Send(Mouse(1))
  /\ UNCHANGED <<inside, btn, held, ws, check, untold, unheard>>

\* (mutant) the button is still taken to be pressed
CheckUpNot == check

CheckUp == 0

\* mouseEvent_up or touchEvent_end, of any button, wherever it was pressed; nothing
\* is heard outside.
mouseEvent_up(b) ==
  /\ b \in btn /\ btn' = btn \ {b}
  /\ IF inside THEN /\ check' = CheckUp /\ Send(Mouse(0)) /\ untold' = FALSE
               ELSE SendNothing /\ UNCHANGED <<check, untold>>
  /\ UNCHANGED <<inside, held, ws, unheard>>

\* No handler: the browser cancels a touch, for a gesture of its own or a call.
touchcancel ==
  /\ mobile /\ 1 \in btn /\ btn' = btn \ {1}
  /\ SendNothing /\ untold' = TRUE
  /\ UNCHANGED <<inside, held, ws, check, unheard>>

\* (mutant) leaving the canvas is not told
SendOutNot == SendNothing

SendOut == IF check = 1 THEN Send(Mouse(0)) ELSE SendNothing

\* Only the left button's release is told, and nothing when send throws.
mouseEvent_out ==
  /\ ~mobile /\ inside /\ inside' = FALSE
  /\ SendOut
  /\ check' = IF check = 1 /\ Throws THEN check ELSE 0
  /\ untold' = (untold \/ check = 4 \/ (check = 1 /\ Throws))
  /\ UNCHANGED <<btn, held, ws, unheard>>

\* No handler: the pointer comes back.
PointerIn ==
  /\ ~inside /\ inside' = TRUE
  /\ SendNothing /\ UNCHANGED <<btn, held, ws, check, untold, unheard>>

\* A key that is held down repeats.
keydown(k) ==
  /\ ~mobile
  /\ held' = held \cup {k} /\ unheard' = unheard \ {k}
  /\ Send(KeyMsg(1, k))
  /\ UNCHANGED <<inside, btn, ws, check, untold>>

\* (mutant) a release is sent as a press
KeyUpMsgPress(k) == KeyMsg(1, k)

KeyUpMsg(k) == KeyMsg(0, k)

\* A key released while another window has the focus is not heard of.
keyup(k) ==
  /\ k \in held /\ held' = held \ {k}
  /\ \/ Send(KeyUpMsg(k)) /\ UNCHANGED unheard
     \/ SendNothing /\ unheard' = unheard \cup {k}
  /\ UNCHANGED <<inside, btn, ws, check, untold>>

User ==
  /\ ws # "closed"
  /\ \/ \E b \in Button : mouseEvent_down(b) \/ mouseEvent_up(b)
     \/ mouseEvent_move \/ touchcancel \/ mouseEvent_out \/ PointerIn
     \/ \E k \in Key : keydown(k) \/ keyup(k)
  /\ UNCHANGED <<mobile, worker, tcp, fin, qemu, buf, guest, junk>>

-----------------------------------------------------------------------------
\* The WebSocket opens; later the page, or the network, closes it.
WebSocket ==
  /\ \/ ws = "connecting" /\ ws' = "open"
     \/ ws = "open" /\ ws' = "closed"
  /\ UNCHANGED <<user, check, toWorker, count, untold, unheard, worker, tcp, fin, qemu, buf>>
  /\ UNCHANGED <<guest, stale, lost, junk>>

\* The worker writes a message on, if QEMU has connected.
Forward ==
  /\ toWorker # <<>> /\ toWorker' = Tail(toWorker)
  /\ IF target THEN tcp' = Append(tcp, Head(toWorker)) /\ UNCHANGED <<stale, lost>>
               ELSE Lose({Head(toWorker)}, {}) /\ UNCHANGED tcp
  /\ UNCHANGED <<user, ws, check, count, untold, unheard, worker, fin, qemu, buf, guest, junk>>

\* (mutant) the worker keeps the connection
EndTargetNot == FALSE

EndTarget == target

\* The page's close ends the connection to QEMU.
Close ==
  /\ ws = "closed" /\ toWorker = <<>> /\ ~seen /\ seen' = TRUE
  /\ fin' = EndTarget /\ late' = ~target
  /\ UNCHANGED <<user, page, target, tcp, qemu, buf, guest, stale, lost, junk>>

-----------------------------------------------------------------------------
\* socket_client_open: thread_sdl does not see that connect failed, sockfd is
\* positive all the same and every read fails.
socket_client_open ==
  /\ qemu = "booting"
  /\ \/ qemu' = "reading" /\ target' = TRUE
     \/ qemu' = "deaf" /\ UNCHANGED target
  /\ UNCHANGED <<user, page, seen, late, tcp, fin, buf, guest, stale, lost, junk>>

sdl_send_mouse_event(st) == prev_state' = st /\ UNCHANGED keys

KeyCommand(st, c) ==
  /\ keys' = IF st = 1 THEN keys \cup {c} ELSE keys \ {c}
  /\ UNCHANGED prev_state

\* What thread_sdl does with the first message in its buffer.  The rest of a cut
\* message, or a buffer nothing was read into, can be taken for anything, or for
\* nothing that has all its words.
Handle(m) ==
  \/ m.type = MINPUT /\ sdl_send_mouse_event(m.state) /\ UNCHANGED qemu
  \/ m.type = KINPUT /\ KeyCommand(m.state, Make_keymap(m.key)) /\ UNCHANGED qemu
  \/ m = Rest /\ \/ qemu' = "ended" /\ UNCHANGED guest
                 \/ UNCHANGED <<qemu, guest>>
                 \/ (\E st \in {0, 1, 4} : sdl_send_mouse_event(st)) /\ UNCHANGED qemu
                 \/ (\E st \in {0, 1}, c \in Code : KeyCommand(st, c)) /\ UNCHANGED qemu

\* One read takes n messages and, when there are more than 100 bytes, may take the
\* beginning of one more.  All but the first are lost.
Read ==
  /\ qemu = "reading" /\ tcp # <<>>
  /\ \E n \in 1..Len(tcp), c \in {0, 1} :
       /\ n <= Cap /\ (c = 1 => n = Cap /\ Len(tcp) > Cap)
       /\ tcp' = (IF c = 1 THEN <<Rest>> ELSE <<>>) \o SubSeq(tcp, n + c + 1, Len(tcp))
       /\ Lose({tcp[i] : i \in 2..(n + c)}, {tcp[1]})
       /\ junk' = (junk \/ c = 1)
  /\ Handle(Head(tcp))
  /\ buf' = IF Head(tcp) = Rest THEN "cut" ELSE "whole"
  /\ UNCHANGED <<user, page, worker, fin>>

\* read returns 0, or fails, and leaves the buffer, which strtok has cut behind its
\* first word: atoi of the missing second one ends QEMU.  If the first word is no
\* type, thread_sdl reads again, for ever.
Eof ==
  /\ \/ qemu = "reading" /\ tcp = <<>> /\ fin
     \/ qemu = "deaf"
  /\ IF buf = "unset" THEN Handle(Rest) /\ buf' = "cut"
                      ELSE qemu' = "ended" /\ UNCHANGED <<guest, buf>>
  /\ UNCHANGED <<user, page, worker, tcp, fin, stale, lost, junk>>

Shutdown ==
  /\ qemu \in {"reading", "deaf"} /\ qemu' = "ended"
  /\ UNCHANGED <<user, page, worker, tcp, fin, buf, guest, stale, lost, junk>>

\* The worker learns that QEMU has gone.
TargetEnd ==
  /\ qemu = "ended" /\ target /\ target' = FALSE
  /\ UNCHANGED <<user, page, seen, late, tcp, fin, qemu, buf, guest, stale, lost, junk>>

Next ==
  \/ User \/ WebSocket \/ Forward \/ Close
  \/ socket_client_open \/ Read \/ Eof \/ Shutdown \/ TargetEnd

Spec == Init /\ [][Next]_vars

\* The worker's event loop and QEMU's thread go on; only a buffer that begins with
\* a whole message is sure to end QEMU.
FairSpec ==
  Spec /\ WF_vars(Forward) /\ WF_vars(Close) /\ WF_vars(Read) /\ WF_vars(buf = "whole" /\ Eof)

-----------------------------------------------------------------------------
\* Nothing is under way between the page and the guest.
Settled ==
  ws = "open" /\ qemu = "reading" /\ toWorker = <<>> /\ tcp = <<>> /\ ~junk

\* When all is delivered the guest has the button down that the page takes to be
\* pressed, also after reads that took several messages, as long as the newest
\* mouse message was not lost and the page could tell it.
GuestFollowsPage ==
  Settled /\ ~stale => prev_state = check \/ untold

\* A button that is down in the guest is down under the user's finger: releases,
\* drags out of the canvas and returns to it leave none behind but the right one,
\* or one pressed before the WebSocket was open.  On the touch page a touch that the
\* browser cancels is never told, as there is no handler of touchcancel: the guest's
\* button stays down until the next touch ends, and the property leaves that out.
NoPhantomButton ==
  Settled /\ ~stale /\ ~untold =>
    /\ prev_state = 1 => 1 \in btn
    /\ prev_state = 4 => 3 \in btn

\* A key of the table is down in the guest exactly when the user holds it, unless
\* its newest message was lost or its release was not heard.
KeysFollowUser ==
  Settled => \A k \in Key \ (lost \cup unheard) :
    Make_keymap(k) # 0 => (Make_keymap(k) \in keys <=> k \in held)

\* The page's close ends QEMU, if QEMU had connected by then and its last read
\* began with a whole message.
QemuEndsWithPage ==
  ws = "closed" ~> \/ qemu \in {"ended", "deaf"} \/ late
                   \/ toWorker = <<>> /\ tcp = <<>> /\ buf # "whole"
=============================================================================
