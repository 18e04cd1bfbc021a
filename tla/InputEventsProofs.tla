-------------------------- MODULE InputEventsProofs --------------------------
(***************************************************************************)
(* What holds of the input of a session for any keys, any number of        *)
(* messages and any number of them in one read: the guest follows the page *)
(* and the user.                                                           *)
(***************************************************************************)
EXTENDS InputEvents, TLAPS

\* A leaf is tried with Zenon first, then with the SMT solver.
USE ZenonT(20), SMTT(30)

\* Of the messages in X that are under way, q, the newest is in G; when there is
\* none, ok holds.
Free(q, X) == \A i \in 1..Len(q) : q[i] \notin X
Newest(q, X, G) == \A i \in 1..Len(q) :
  q[i] \in X => q[i] \in G \/ \E j \in 1..Len(q) : i < j /\ q[j] \in X
Follows(q, X, G, ok) == Newest(q, X, G) /\ (Free(q, X) => ok)

\* v is q with m behind it; v is q without its first k.
Grown(q, v, m) ==
  /\ Len(q) \in Nat /\ Len(v) = Len(q) + 1 /\ v[Len(q) + 1] = m
  /\ \A i \in 1..Len(q) : v[i] = q[i]
Cut(q, v, k) ==
  /\ Len(q) \in Nat /\ k \in 0..Len(q) /\ Len(v) = Len(q) - k
  /\ \A i \in 1..Len(v) : v[i] = q[i + k]

-----------------------------------------------------------------------------
\* A message that is sent is the newest of its kind, and of no other kind.
LEMMA SentNew ==
  ASSUME NEW q, NEW v, NEW m, Grown(q, v, m), NEW X, NEW G, NEW ok, m \in X, m \in G
  PROVE  Follows(v, X, G, ok)
<1>1. Len(q) \in Nat /\ Len(v) = Len(q) + 1 /\ v[Len(q) + 1] = m
  BY DEF Grown
<1>2. Len(q) + 1 \in 1..Len(v)
  BY <1>1
<1>3. ~Free(v, X)
  BY <1>1, <1>2 DEF Free
<1>4. ASSUME NEW i \in 1..Len(v), v[i] \in X, v[i] \notin G
      PROVE  \E j \in 1..Len(v) : i < j /\ v[j] \in X
  <2>1. i # Len(q) + 1
    BY <1>1, <1>4
  <2>2. i < Len(q) + 1
    BY <1>1, <2>1
  <2> QED BY <1>1, <1>2, <2>2
<1> QED BY <1>3, <1>4 DEF Follows, Newest

LEMMA SentOther ==
  ASSUME NEW q, NEW v, NEW m, Grown(q, v, m), NEW X, NEW G, NEW ok, m \notin X,
         Follows(q, X, G, ok)
  PROVE  Follows(v, X, G, ok)
<1>1. /\ Len(q) \in Nat /\ Len(v) = Len(q) + 1 /\ v[Len(q) + 1] = m
      /\ \A i \in 1..Len(q) : i \in 1..Len(v) /\ v[i] = q[i]
  BY DEF Grown
<1>2. Free(v, X) => Free(q, X)
  BY <1>1 DEF Free
<1>3. ASSUME NEW i \in 1..Len(v), v[i] \in X, v[i] \notin G
      PROVE  \E j \in 1..Len(v) : i < j /\ v[j] \in X
  <2>1. i # Len(q) + 1
    BY <1>1, <1>3
  <2>2. i \in 1..Len(q)
    BY <1>1, <2>1
  <2>3. PICK j \in 1..Len(q) : i < j /\ q[j] \in X
    BY <1>1, <1>3, <2>2 DEF Follows, Newest
  <2> QED BY <1>1, <2>3
<1> QED BY <1>2, <1>3 DEF Follows, Newest

\* The first k messages leave.  What the guest does with the first one, or its
\* loss, makes ok2 hold, and so does the loss of another.
LEMMA CutFollows ==
  ASSUME NEW q, NEW v, NEW k, Cut(q, v, k), NEW X, NEW G, NEW ok, NEW ok2,
         Follows(q, X, G, ok),
         \A i \in 2..k : q[i] \in X => ok2,
         k >= 1 /\ q[1] \in X /\ q[1] \in G => ok2,
         (\A i \in 1..k : q[i] \notin X) /\ ok => ok2
  PROVE  Follows(v, X, G, ok2)
<1>1. /\ Len(q) \in Nat /\ k \in Nat /\ k <= Len(q) /\ Len(v) = Len(q) - k
      /\ \A i \in 1..Len(v) : v[i] = q[i + k]
  BY DEF Cut
<1>2. ASSUME NEW i \in 1..Len(q), i > k PROVE i - k \in 1..Len(v) /\ v[i - k] = q[i]
  <2>1. i - k \in 1..Len(v) /\ (i - k) + k = i
    BY <1>1, <1>2
  <2> QED BY <1>1, <2>1
<1>3. ASSUME NEW i \in 1..Len(v), v[i] \in X, v[i] \notin G
      PROVE  \E j \in 1..Len(v) : i < j /\ v[j] \in X
  <2>1. i + k \in 1..Len(q) /\ q[i + k] = v[i]
    BY <1>1
  <2>2. PICK j \in 1..Len(q) : i + k < j /\ q[j] \in X
    BY <1>3, <2>1 DEF Follows, Newest
  <2>3. j > k /\ i < j - k
    BY <1>1, <2>2
  <2>4. j - k \in 1..Len(v) /\ v[j - k] = q[j]
    BY <1>2, <2>3
  <2> QED BY <2>2, <2>3, <2>4
<1>4. ASSUME Free(v, X) PROVE ok2
  <2>1. \A i \in 1..Len(q) : q[i] \in X => i <= k
    BY SMTT(30), <1>1, <1>2, <1>4 DEF Free
  <2>2. CASE Free(q, X)
    <3>1. \A i \in 1..k : q[i] \notin X
      BY SMTT(30), <1>1, <2>2 DEF Free
    <3> QED BY <2>2, <3>1 DEF Follows
  <2>3. CASE \E i \in 2..k : q[i] \in X
    BY <2>3
  <2>4. CASE ~Free(q, X) /\ \A i \in 2..k : q[i] \notin X
    <3>1. \A i \in 1..Len(q) : q[i] \in X => i = 1
      BY SMTT(30), <1>1, <2>1, <2>4
    <3>2. PICK i \in 1..Len(q) : q[i] \in X
      BY <2>4 DEF Free
    <3>3. 1 \in 1..Len(q) /\ q[1] \in X /\ k >= 1
      BY <1>1, <2>1, <3>1, <3>2
    <3>4. ~ \E j \in 1..Len(q) : 1 < j /\ q[j] \in X
      BY <3>1
    <3> QED BY <3>3, <3>4 DEF Follows, Newest
  <2> QED BY <2>2, <2>3, <2>4
<1> QED BY <1>3, <1>4 DEF Follows, Newest

LEMMA EmptyFollows ==
  ASSUME NEW q, Len(q) = 0, NEW X, NEW G, NEW ok
  PROVE  Follows(q, X, G, ok) <=> ok
<1>1. 1..Len(q) = {}
  OBVIOUS
<1> QED BY <1>1 DEF Follows, Newest, Free

-----------------------------------------------------------------------------
\* The messages under way, the oldest first.
Under == tcp \o toWorker

\* While page, worker and QEMU are there and no message was cut in two.
Live == ws # "closed" /\ qemu \in {"booting", "reading"} /\ ~junk

\* Where messages can be.
FlowInv ==
  /\ ws = "connecting" => toWorker = <<>> /\ tcp = <<>>
  /\ qemu = "booting" => tcp = <<>> /\ ~target
  /\ qemu = "reading" => target
  /\ fin => ws = "closed"
  /\ ~junk => \A i \in 1..Len(tcp) : tcp[i] # Rest

\* What the page takes to be pressed is pressed, if it could tell.
PageInv == ~untold =>
  /\ check = 1 => 1 \in btn
  /\ check = 4 => 3 \in btn
  /\ ~inside => check = 0

\* The newest mouse message under way tells what the page takes to be pressed;
\* when there is none, the guest has it, or it was lost.
MouseMsg == {Mouse(0), Mouse(1), Mouse(4)}
Pressed(c, u) == {m \in MouseMsg : u \/ m.state = c}
MouseInv == Live =>
  Follows(Under, MouseMsg, Pressed(check, untold), stale \/ prev_state = check \/ untold)

\* The same of every key of the table that was heard of.
KeyMsgs(k) == {KeyMsg(0, k), KeyMsg(1, k)}
Told(k, h) == {m \in KeyMsgs(k) : m.state = 1 <=> h}
KeyInv == Live => \A k \in Key \ unheard : Make_keymap(k) # 0 =>
  Follows(Under, KeyMsgs(k), Told(k, k \in held),
          k \in lost \/ (Make_keymap(k) \in keys <=> k \in held))

-----------------------------------------------------------------------------

LEMMA UnderSend ==
  ASSUME NEW S, NEW t \in Seq(S), NEW w \in Seq(S), NEW m \in S
  PROVE  Grown(t \o w, t \o Append(w, m), m)
BY DEF Grown

LEMMA UnderForward ==
  ASSUME NEW S, NEW t \in Seq(S), NEW w \in Seq(S), w # <<>>
  PROVE  /\ Cut(t \o w, Append(t, Head(w)) \o Tail(w), 0)
         /\ Cut(<<>> \o w, <<>> \o Tail(w), 1) /\ (<<>> \o w)[1] = Head(w)
BY DEF Cut

LEMMA Dropped ==
  ASSUME NEW S, NEW t \in Seq(S), NEW n \in 1..Len(t)
  PROVE  Cut(t, <<>> \o SubSeq(t, n + 1, Len(t)), n)
BY DEF Cut

LEMMA UnderRead ==
  ASSUME NEW S, NEW t \in Seq(S), NEW w \in Seq(S), NEW n \in 1..Len(t)
  PROVE  /\ Cut(t \o w, SubSeq(t, n + 1, Len(t)) \o w, n)
         /\ \A i \in 1..n : (t \o w)[i] = t[i]
BY DEF Cut

-----------------------------------------------------------------------------
\* Types.
LEMMA MessageTypes ==
  /\ \A st \in {0, 1, 4} : Mouse(st) \in Message
  /\ \A st \in {0, 1}, k \in Key : KeyMsg(st, k) \in Message
  /\ \A m \in Message : \/ m \in MouseMsg /\ m.type = MINPUT /\ m.state \in {0, 1, 4}
                        \/ \E k \in Key : /\ m \in KeyMsgs(k) /\ m.type = KINPUT
                                          /\ m.key = k /\ m.state \in {0, 1}
<1>1. \A m : m \in Message <=> \/ \E st \in {0, 1, 4} : m = Mouse(st)
                               \/ \E st \in {0, 1}, k \in Key : m = KeyMsg(st, k)
  BY DEF Message
<1>2. \A st : Mouse(st).type = MINPUT /\ Mouse(st).state = st
  BY DEF Mouse
<1>3. \A st, k : KeyMsg(st, k).type = KINPUT /\ KeyMsg(st, k).state = st /\ KeyMsg(st, k).key = k
  BY DEF KeyMsg
<1>4. ASSUME NEW st \in {0, 1, 4}
      PROVE  Mouse(st) \in MouseMsg /\ Mouse(st).type = MINPUT /\ Mouse(st).state \in {0, 1, 4}
  BY <1>2 DEF MouseMsg
<1>5. ASSUME NEW st \in {0, 1}, NEW k \in Key
      PROVE  /\ KeyMsg(st, k) \in KeyMsgs(k) /\ KeyMsg(st, k).type = KINPUT
             /\ KeyMsg(st, k).key = k /\ KeyMsg(st, k).state \in {0, 1}
  BY <1>3 DEF KeyMsgs
<1> QED BY SMTT(30), <1>1, <1>4, <1>5

LEMMA RestType == Rest \notin Message /\ Rest.type # MINPUT /\ Rest.type # KINPUT
<1>1. Rest.type # MINPUT /\ Rest.type # KINPUT
  BY DEF Rest, MINPUT, KINPUT
<1> QED BY <1>1, MessageTypes

LEMMA LoseTypes ==
  ASSUME NEW M, NEW H, M \subseteq Message \cup {Rest}, TypeOK, Lose(M, H)
  PROVE  stale' \in BOOLEAN /\ lost' \subseteq Key
<1>1. KeysIn(M) \subseteq Key
  BY SMTT(30), MessageTypes, RestType DEF KeysIn, MINPUT, KINPUT
<1> QED BY <1>1 DEF Lose, TypeOK

LEMMA SendTypes ==
  ASSUME NEW m \in Message, TypeOK, Send(m)
  PROVE  /\ toWorker' \in Seq(Message) /\ count' \in 0..MaxMsg
         /\ stale' \in BOOLEAN /\ lost' \subseteq Key
<1>1. CASE ws = "open"
  <2>1. toWorker' = Append(toWorker, m) /\ count' = count + 1 /\ count < MaxMsg
        /\ stale' = stale /\ lost' = lost
    BY <1>1 DEF Send
  <2>2. toWorker' \in Seq(Message)
    BY SMTT(30), <2>1 DEF TypeOK
  <2>3. count' \in 0..MaxMsg
    BY SMTT(30), <2>1, InputAssumption DEF TypeOK
  <2> QED BY <2>1, <2>2, <2>3 DEF TypeOK
<1>2. CASE ws # "open"
  <2>1. Lose({m}, {}) /\ toWorker' = toWorker /\ count' = count
    BY <1>2 DEF Send
  <2>2. stale' \in BOOLEAN /\ lost' \subseteq Key
    BY <2>1, LoseTypes
  <2> QED BY <2>1, <2>2 DEF TypeOK
<1> QED BY <1>1, <1>2

LEMMA NothingTypes ==
  ASSUME TypeOK, SendNothing
  PROVE  /\ toWorker' \in Seq(Message) /\ count' \in 0..MaxMsg
         /\ stale' \in BOOLEAN /\ lost' \subseteq Key
BY DEF TypeOK, SendNothing

LEMMA HandleTypes ==
  ASSUME NEW m \in Message \cup {Rest}, TypeOK, Handle(m)
  PROVE  /\ qemu' \in {qemu, "ended"} /\ prev_state' \in {0, 1, 4} /\ keys' \subseteq Code
<1>1. ASSUME NEW c \in Code, NEW st, KeyCommand(st, c)
      PROVE  prev_state' \in {0, 1, 4} /\ keys' \subseteq Code
  BY <1>1 DEF KeyCommand, TypeOK
<1>2. CASE m.type = MINPUT /\ sdl_send_mouse_event(m.state) /\ UNCHANGED qemu
  <2>1. m.state \in {0, 1, 4}
    BY <1>2, MessageTypes, RestType DEF MINPUT, KINPUT
  <2> QED BY <1>2, <2>1 DEF sdl_send_mouse_event, TypeOK
<1>3. CASE m.type = KINPUT /\ KeyCommand(m.state, Make_keymap(m.key)) /\ UNCHANGED qemu
  <2>1. m.key \in Key
    BY SMTT(30), <1>3, MessageTypes, RestType DEF MINPUT, KINPUT
  <2>2. Make_keymap(m.key) \in Code
    BY <2>1 DEF Code
  <2> QED BY <1>1, <1>3, <2>2
<1>4. CASE \/ qemu' = "ended" /\ UNCHANGED guest
           \/ UNCHANGED <<qemu, guest>>
  BY <1>4 DEF guest, TypeOK
<1>5. CASE (\E st \in {0, 1, 4} : sdl_send_mouse_event(st)) /\ UNCHANGED qemu
  BY <1>5 DEF sdl_send_mouse_event, TypeOK
<1>6. CASE (\E st \in {0, 1}, c \in Code : KeyCommand(st, c)) /\ UNCHANGED qemu
  BY <1>1, <1>6
<1> QED BY <1>2, <1>3, <1>4, <1>5, <1>6 DEF Handle

-----------------------------------------------------------------------------
LEMMA UserTypes ==
  ASSUME TypeOK, User
  PROVE  /\ inside' \in BOOLEAN /\ btn' \subseteq Button /\ held' \subseteq Key
         /\ ws' = ws /\ check' \in {0, 1, 4} /\ untold' \in BOOLEAN /\ unheard' \subseteq Key
         /\ toWorker' \in Seq(Message) /\ count' \in 0..MaxMsg
         /\ stale' \in BOOLEAN /\ lost' \subseteq Key
<1>1. ASSUME NEW b \in Button, mouseEvent_down(b) \/ mouseEvent_up(b)
      PROVE  /\ inside' = inside /\ btn' \subseteq Button /\ held' = held
             /\ ws' = ws /\ check' \in {0, 1, 4} /\ untold' \in BOOLEAN /\ unheard' = unheard
             /\ (\E st \in {0, 1, 4} : Send(Mouse(st))) \/ SendNothing
  BY <1>1 DEF mouseEvent_down, mouseEvent_up, ButtonState, CheckUp, TypeOK
<1>2. ASSUME mouseEvent_move \/ mouseEvent_out \/ PointerIn \/ touchcancel
      PROVE  /\ inside' \in BOOLEAN /\ btn' \subseteq Button /\ held' = held
             /\ ws' = ws /\ check' \in {0, 1, 4} /\ untold' \in BOOLEAN /\ unheard' = unheard
             /\ (\E st \in {0, 1, 4} : Send(Mouse(st))) \/ SendNothing
  BY <1>2 DEF mouseEvent_move, mouseEvent_out, PointerIn, touchcancel, SendOut, TypeOK
<1>3. ASSUME NEW k \in Key, keydown(k) \/ keyup(k)
      PROVE  /\ inside' = inside /\ btn' = btn /\ held' \subseteq Key
             /\ ws' = ws /\ check' = check /\ untold' = untold /\ unheard' \subseteq Key
             /\ (\E st \in {0, 1} : Send(KeyMsg(st, k))) \/ SendNothing
  BY <1>3 DEF keydown, keyup, KeyUpMsg, TypeOK
<1>4. /\ inside' \in BOOLEAN /\ btn' \subseteq Button /\ held' \subseteq Key
      /\ ws' = ws /\ check' \in {0, 1, 4} /\ untold' \in BOOLEAN /\ unheard' \subseteq Key
      /\ (\E m \in Message : Send(m)) \/ SendNothing
  BY <1>1, <1>2, <1>3, MessageTypes DEF User, TypeOK
<1> QED BY <1>4, SendTypes, NothingTypes

LEMMA ReadTypes ==
  ASSUME TypeOK, Read
  PROVE  /\ tcp' \in Seq(Message \cup {Rest}) /\ stale' \in BOOLEAN /\ lost' \subseteq Key
         /\ junk' \in BOOLEAN /\ Head(tcp) = tcp[1] /\ tcp[1] \in Message \cup {Rest}
<1> DEFINE S == Message \cup {Rest}
<1>1. tcp \in Seq(S) /\ tcp # <<>> /\ junk \in BOOLEAN
  BY DEF TypeOK, Read
<1>2. Rest \in S
  OBVIOUS
<1>3. PICK n \in 1..Len(tcp), c \in {0, 1} :
        /\ n <= Cap /\ (c = 1 => n = Cap /\ Len(tcp) > Cap)
        /\ tcp' = (IF c = 1 THEN <<Rest>> ELSE <<>>) \o SubSeq(tcp, n + c + 1, Len(tcp))
        /\ Lose({tcp[i] : i \in 2..(n + c)}, {tcp[1]})
        /\ junk' = (junk \/ c = 1)
  BY DEF Read
<1> HIDE DEF S
<1>4. n \in Nat /\ n + c \in 1..Len(tcp) /\ Len(tcp) \in Nat
  BY SMTT(30), <1>1, <1>3, InputAssumption
<1>5. \A i \in 1..Len(tcp) : tcp[i] \in S
  BY <1>1
<1>6. {tcp[i] : i \in 2..(n + c)} \subseteq S
  BY SMTT(30), <1>4, <1>5
<1>7. SubSeq(tcp, n + c + 1, Len(tcp)) \in Seq(S)
  BY <1>1, <1>4
<1>8. tcp' \in Seq(S)
  <2> DEFINE q == SubSeq(tcp, n + c + 1, Len(tcp))
  <2>1. q \in Seq(S) /\ tcp' = (IF c = 1 THEN <<Rest>> ELSE <<>>) \o q
    BY <1>3, <1>7
  <2> HIDE DEF q
  <2>2. <<Rest>> \o q \in Seq(S) /\ <<>> \o q \in Seq(S)
    BY <1>2, <2>1
  <2> QED BY <2>1, <2>2
<1>9. Head(tcp) = tcp[1] /\ tcp[1] \in S
  BY <1>1
<1> QED BY <1>1, <1>3, <1>6, <1>8, <1>9, LoseTypes DEF S

\* The page, the worker, the sockets and QEMU keep their types, whatever a read
\* takes and whatever the rest of a cut message is taken for.
THEOREM TypeCorrect == Spec => []TypeOK
<1>1. Init => TypeOK
  <2>1. 0 \in 0..MaxMsg /\ <<>> \in Seq(Message) /\ <<>> \in Seq(Message \cup {Rest})
    BY InputAssumption
  <2> QED BY <2>1 DEF Init, TypeOK
<1>2. TypeOK /\ [Next]_vars => TypeOK'
  <2> SUFFICES ASSUME TypeOK, [Next]_vars PROVE TypeOK'
    OBVIOUS
  <2>1. CASE User
    BY SMTT(30), <2>1, UserTypes DEF User, TypeOK, worker, guest
  <2>2. CASE WebSocket
    <3>1. ws' \in {"connecting", "open", "closed"}
      BY <2>2 DEF WebSocket
    <3>2. /\ UNCHANGED <<mobile, btn, inside, held, check, toWorker, count, untold, unheard>>
          /\ UNCHANGED <<target, seen, late, tcp, fin, qemu, buf, prev_state, keys>>
          /\ UNCHANGED <<stale, lost, junk>>
      BY <2>2 DEF WebSocket, user, worker, guest
    <3> QED BY SMTT(30), <3>1, <3>2 DEF TypeOK
  <2>3. CASE Forward
    <3>1. /\ toWorker' \in Seq(Message) /\ Head(toWorker) \in Message
      BY SMTT(30), <2>3 DEF Forward, TypeOK
    <3>2. Append(tcp, Head(toWorker)) \in Seq(Message \cup {Rest})
      BY SMTT(30), <3>1 DEF TypeOK
    <3>3. tcp' \in Seq(Message \cup {Rest}) /\ stale' \in BOOLEAN /\ lost' \subseteq Key
      BY <2>3, <3>1, <3>2, LoseTypes DEF Forward, TypeOK
    <3> QED BY SMTT(30), <2>3, <3>1, <3>3 DEF Forward, TypeOK, user, worker, guest
  <2>4. CASE Close
    <3>1. seen' \in BOOLEAN /\ fin' \in BOOLEAN /\ late' \in BOOLEAN
      BY <2>4 DEF Close, TypeOK, EndTarget
    <3>2. /\ UNCHANGED <<mobile, btn, inside, held, ws, check, toWorker, count, untold, unheard>>
          /\ UNCHANGED <<target, tcp, qemu, buf, prev_state, keys, stale, lost, junk>>
      BY <2>4 DEF Close, user, page, guest
    <3> QED BY SMTT(30), <3>1, <3>2 DEF TypeOK
  <2>5. CASE socket_client_open
    <3>1. qemu' \in {"reading", "deaf"} /\ target' \in BOOLEAN
      BY <2>5 DEF socket_client_open, TypeOK
    <3> QED BY SMTT(30), <2>5, <3>1 DEF socket_client_open, TypeOK, user, page, guest
  <2>6. CASE Read
    <3>1. /\ tcp' \in Seq(Message \cup {Rest}) /\ stale' \in BOOLEAN /\ lost' \subseteq Key
          /\ junk' \in BOOLEAN /\ Handle(Head(tcp)) /\ Head(tcp) \in Message \cup {Rest}
      BY <2>6, ReadTypes DEF Read
    <3>2. qemu' \in {qemu, "ended"} /\ prev_state' \in {0, 1, 4} /\ keys' \subseteq Code
      BY <3>1, HandleTypes
    <3> QED BY SMTT(30), <2>6, <3>1, <3>2 DEF Read, TypeOK, user, page, worker
  <2>7. CASE Eof
    <3>1. qemu' \in {qemu, "ended"} /\ prev_state' \in {0, 1, 4} /\ keys' \subseteq Code
      BY <2>7, HandleTypes DEF Eof, TypeOK, guest
    <3> QED BY SMTT(30), <2>7, <3>1 DEF Eof, TypeOK, user, page, worker
  <2>8. CASE Shutdown \/ TargetEnd
    <3>1. qemu' \in {qemu, "ended"} /\ target' \in BOOLEAN
      BY <2>8 DEF Shutdown, TargetEnd, TypeOK, worker
    <3>2. /\ UNCHANGED <<mobile, btn, inside, held, ws, check, toWorker, count, untold, unheard>>
          /\ UNCHANGED <<seen, late, tcp, fin, buf, prev_state, keys, stale, lost, junk>>
      BY <2>8 DEF Shutdown, TargetEnd, user, page, worker, guest
    <3> QED BY SMTT(30), <3>1, <3>2 DEF TypeOK
  <2>9. CASE UNCHANGED vars
    BY SMTT(30), <2>9 DEF vars, TypeOK, user, page, worker, guest
  <2> QED BY <2>1, <2>2, <2>3, <2>4, <2>5, <2>6, <2>7, <2>8, <2>9 DEF Next
<1> QED BY <1>1, <1>2, PTL DEF Spec

-----------------------------------------------------------------------------
\* What the steps do to the messages under way.
LEMMA SendUnder ==
  ASSUME TypeOK, FlowInv, ws # "closed", NEW m \in Message, Send(m), UNCHANGED tcp
  PROVE  \/ Grown(Under, Under', m) /\ stale' = stale /\ lost' = lost
         \/ Len(Under) = 0 /\ Under' = Under /\ Lose({m}, {})
<1>1. CASE ws = "open"
  <2>1. toWorker' = Append(toWorker, m) /\ stale' = stale /\ lost' = lost
    BY <1>1 DEF Send
  <2> DEFINE S == Message \cup {Rest}
  <2>2. tcp \in Seq(S) /\ toWorker \in Seq(S) /\ m \in S
    BY SMTT(30) DEF TypeOK
  <2> HIDE DEF S
  <2>3. Grown(tcp \o toWorker, tcp \o Append(toWorker, m), m)
    BY <2>2, UnderSend
  <2> QED BY <2>1, <2>3 DEF Under
<1>2. CASE ws = "connecting"
  <2>1. toWorker' = toWorker /\ Lose({m}, {})
    BY <1>2 DEF Send
  <2>2. toWorker = <<>> /\ tcp = <<>>
    BY <1>2 DEF FlowInv
  <2>3. Len(<<>> \o <<>>) = 0
    OBVIOUS
  <2> QED BY <2>1, <2>2, <2>3 DEF Under
<1> QED BY <1>1, <1>2 DEF TypeOK

LEMMA ForwardUnder ==
  ASSUME TypeOK, FlowInv, Live, Forward
  PROVE  \/ Cut(Under, Under', 0) /\ stale' = stale /\ lost' = lost
         \/ Cut(Under, Under', 1) /\ Under[1] \in Message /\ Lose({Under[1]}, {})
<1> DEFINE S == Message \cup {Rest}
<1>1. /\ tcp \in Seq(S) /\ toWorker \in Seq(S) /\ toWorker # <<>>
      /\ toWorker' = Tail(toWorker) /\ Head(toWorker) \in Message
  BY SMTT(30) DEF TypeOK, Forward
<1> HIDE DEF S
<1>2. /\ Cut(tcp \o toWorker, Append(tcp, Head(toWorker)) \o Tail(toWorker), 0)
      /\ Cut(<<>> \o toWorker, <<>> \o Tail(toWorker), 1)
      /\ (<<>> \o toWorker)[1] = Head(toWorker)
  BY <1>1, UnderForward
<1>3. CASE target
  <2>1. tcp' = Append(tcp, Head(toWorker)) /\ stale' = stale /\ lost' = lost
    BY <1>3 DEF Forward
  <2> QED BY <1>1, <1>2, <2>1 DEF Under
<1>4. CASE ~target
  <2>1. tcp' = tcp /\ Lose({Head(toWorker)}, {})
    BY <1>4 DEF Forward
  <2>2. tcp = <<>>
    BY <1>4 DEF FlowInv, Live
  <2> QED BY <1>1, <1>2, <2>1, <2>2 DEF Under
<1> QED BY <1>3, <1>4

LEMMA ReadUnder ==
  ASSUME TypeOK, FlowInv, Read, ~junk'
  PROVE  \E n \in Nat : /\ n >= 1 /\ Cut(Under, Under', n)
                        /\ \A i \in 1..n : Under[i] \in Message
                        /\ Lose({Under[i] : i \in 2..n}, {Under[1]})
                        /\ Handle(Under[1])
<1> DEFINE S == Message \cup {Rest}
<1>1. /\ tcp \in Seq(S) /\ toWorker \in Seq(S) /\ tcp # <<>> /\ toWorker' = toWorker
      /\ Handle(Head(tcp)) /\ Head(tcp) = tcp[1]
  BY SMTT(30), ReadTypes DEF TypeOK, Read, page
<1>2. PICK n \in 1..Len(tcp), c \in {0, 1} :
        /\ tcp' = (IF c = 1 THEN <<Rest>> ELSE <<>>) \o SubSeq(tcp, n + c + 1, Len(tcp))
        /\ Lose({tcp[i] : i \in 2..(n + c)}, {tcp[1]})
        /\ junk' = (junk \/ c = 1)
  BY DEF Read
<1>3. c = 0 /\ ~junk
  BY <1>2
<1>4. \A i \in 1..Len(tcp) : tcp[i] \in Message
  <2>1. \A i \in 1..Len(tcp) : tcp[i] \in Message \cup {Rest} /\ tcp[i] # Rest
    BY <1>1, <1>3 DEF FlowInv
  <2> QED BY <2>1
<1> HIDE DEF S
<1>5. /\ n \in Nat /\ n >= 1 /\ n + c = n /\ Len(tcp) \in Nat /\ n <= Len(tcp)
      /\ n + c + 1 = n + 1 /\ \A i \in 1..n : i \in 1..Len(tcp)
  BY <1>1, <1>2, <1>3
<1>6. tcp' = SubSeq(tcp, n + 1, Len(tcp))
  <2>1. tcp' = <<>> \o SubSeq(tcp, n + 1, Len(tcp))
    BY <1>2, <1>3, <1>5
  <2>2. SubSeq(tcp, n + 1, Len(tcp)) \in Seq(S)
    BY <1>1, <1>5
  <2>3. \A q \in Seq(S) : <<>> \o q = q
    OBVIOUS
  <2> QED BY <2>1, <2>2, <2>3
<1>7. Cut(Under, Under', n) /\ \A i \in 1..n : Under[i] = tcp[i]
  BY <1>1, <1>2, <1>6, UnderRead DEF Under
<1>8. /\ 1 \in 1..n /\ \A i \in 2..n : i \in 1..n
  BY <1>5
<1>9. {tcp[i] : i \in 2..(n + c)} = {Under[i] : i \in 2..n}
  BY <1>5, <1>7, <1>8
<1> QED BY <1>1, <1>2, <1>4, <1>5, <1>7, <1>8, <1>9

\* Of which kind a step of the user is.
LEMMA UserCases ==
  ASSUME TypeOK, User
  PROVE  \/ /\ UNCHANGED <<held, unheard>>
            /\ \/ \E st \in {0, 1, 4} : Send(Mouse(st)) /\ (untold' \/ check' = st)
               \/ SendNothing /\ (untold' \/ UNCHANGED <<check, untold>>)
         \/ /\ UNCHANGED <<check, untold>>
            /\ \E k \in Key :
                 \/ Send(KeyMsg(1, k)) /\ held' = held \cup {k} /\ unheard' = unheard \ {k}
                 \/ Send(KeyMsg(0, k)) /\ held' = held \ {k} /\ unheard' = unheard
                 \/ SendNothing /\ held' = held \ {k} /\ unheard' = unheard \cup {k}
<1>1. ASSUME NEW b \in Button, mouseEvent_down(b)
      PROVE  /\ UNCHANGED <<held, unheard>>
             /\ \/ \E st \in {0, 1, 4} : Send(Mouse(st)) /\ check' = st
                \/ SendNothing /\ UNCHANGED <<check, untold>>
  BY <1>1 DEF mouseEvent_down, ButtonState
<1>2. ASSUME NEW b \in Button, mouseEvent_up(b)
      PROVE  /\ UNCHANGED <<held, unheard>>
             /\ \/ Send(Mouse(0)) /\ check' = 0
                \/ SendNothing /\ UNCHANGED <<check, untold>>
  BY <1>2 DEF mouseEvent_up, CheckUp
<1>3. ASSUME mouseEvent_move
      PROVE  UNCHANGED <<held, unheard>> /\ Send(Mouse(1)) /\ check' = 1
  BY <1>3 DEF mouseEvent_move
<1>4. ASSUME mouseEvent_out
      PROVE  /\ UNCHANGED <<held, unheard>>
             /\ \/ Send(Mouse(0)) /\ (untold' \/ check' = 0)
                \/ SendNothing /\ (untold' \/ UNCHANGED <<check, untold>>)
  <2>1. CASE check = 1
    BY <1>4, <2>1 DEF mouseEvent_out, SendOut
  <2>2. CASE check = 4
    BY <1>4, <2>2 DEF mouseEvent_out, SendOut
  <2>3. CASE check = 0
    <3>1. check' = 0 /\ untold' = untold /\ SendNothing /\ UNCHANGED <<held, unheard>>
      BY <1>4, <2>3 DEF mouseEvent_out, SendOut, TypeOK
    <3> QED BY <2>3, <3>1
  <2> QED BY <2>1, <2>2, <2>3 DEF TypeOK
<1>5. ASSUME PointerIn \/ touchcancel
      PROVE  /\ UNCHANGED <<held, unheard>>
             /\ SendNothing /\ (untold' \/ UNCHANGED <<check, untold>>)
  BY <1>5 DEF PointerIn, touchcancel
<1>6. ASSUME NEW k \in Key, keydown(k)
      PROVE  /\ UNCHANGED <<check, untold>>
             /\ Send(KeyMsg(1, k)) /\ held' = held \cup {k} /\ unheard' = unheard \ {k}
  BY <1>6 DEF keydown
<1>7. ASSUME NEW k \in Key, keyup(k)
      PROVE  /\ UNCHANGED <<check, untold>>
             /\ \/ Send(KeyMsg(0, k)) /\ held' = held \ {k} /\ unheard' = unheard
                \/ SendNothing /\ held' = held \ {k} /\ unheard' = unheard \cup {k}
  BY <1>7 DEF keyup, KeyUpMsg
<1> QED BY <1>1, <1>2, <1>3, <1>4, <1>5, <1>6, <1>7 DEF User

-----------------------------------------------------------------------------
LEMMA FlowNext == TypeOK /\ FlowInv /\ [Next]_vars => FlowInv'
<1> SUFFICES ASSUME TypeOK, FlowInv, [Next]_vars PROVE FlowInv'
  OBVIOUS
<1>1. CASE User
  <2>1. /\ UNCHANGED <<tcp, qemu, target, fin, junk>>
    BY <1>1 DEF User, worker
  <2>2. ws' = ws
    BY <1>1, UserTypes
  <2>3. ASSUME ws # "open", NEW m, Send(m) PROVE toWorker' = toWorker
    BY <2>3 DEF Send
  <2>4. ws # "open" => toWorker' = toWorker
    BY <1>1, <2>3, UserCases DEF SendNothing
  <2> QED BY <2>1, <2>2, <2>4 DEF FlowInv
<1>2. CASE WebSocket
  BY <1>2 DEF WebSocket, FlowInv, worker
<1>3. CASE Forward
  <2>1. UNCHANGED <<ws, target, fin, qemu, junk>> /\ toWorker # <<>>
    BY <1>3 DEF Forward, worker
  <2>2. CASE target
    <3>1. tcp' = Append(tcp, Head(toWorker)) /\ Head(toWorker) \in Message
      BY SMTT(30), <1>3, <2>2 DEF Forward, TypeOK
    <3>2. Head(toWorker) # Rest /\ tcp \in Seq(Message \cup {Rest})
      BY <3>1, RestType DEF TypeOK
    <3>3. ~junk => \A i \in 1..Len(tcp') : tcp'[i] # Rest
      <4>1. ASSUME ~junk, NEW i \in 1..Len(Append(tcp, Head(toWorker)))
            PROVE  Append(tcp, Head(toWorker))[i] # Rest
        BY <3>1, <3>2, <4>1 DEF FlowInv
      <4> QED BY <3>1, <4>1
    <3> QED BY <2>1, <2>2, <3>3 DEF FlowInv
  <2>3. CASE ~target
    <3>1. tcp' = tcp
      BY <1>3, <2>3 DEF Forward
    <3> QED BY <2>1, <3>1 DEF FlowInv
  <2> QED BY <2>2, <2>3
<1>4. CASE Close
  BY <1>4 DEF Close, FlowInv, page
<1>5. CASE socket_client_open
  BY <1>5 DEF socket_client_open, FlowInv, page
<1>6. CASE Read
  <2>1. /\ UNCHANGED <<ws, toWorker, target, fin>> /\ qemu = "reading" /\ tcp # <<>>
    BY <1>6 DEF Read, page, worker
  <2>2. qemu' \in {"reading", "ended"}
    BY <1>6, <2>1, ReadTypes, HandleTypes DEF Read
  <2>3. ~junk' => \A i \in 1..Len(tcp') : tcp'[i] # Rest
    <3>1. SUFFICES ASSUME ~junk' PROVE \A i \in 1..Len(tcp') : tcp'[i] # Rest
      OBVIOUS
    <3>2. PICK n \in 1..Len(tcp), c \in {0, 1} :
            /\ tcp' = (IF c = 1 THEN <<Rest>> ELSE <<>>) \o SubSeq(tcp, n + c + 1, Len(tcp))
            /\ junk' = (junk \/ c = 1)
      BY <1>6 DEF Read
    <3>3. c = 0 /\ ~junk /\ n + c + 1 = n + 1
      <4>1. c = 0 /\ ~junk
        BY <3>1, <3>2
      <4> QED BY <4>1
    <3> DEFINE S == Message \cup {Rest}
    <3>4. tcp' = <<>> \o SubSeq(tcp, n + 1, Len(tcp)) /\ tcp \in Seq(S)
      BY <3>2, <3>3 DEF TypeOK
    <3> HIDE DEF S
    <3>5. Cut(tcp, tcp', n)
      BY <3>4, Dropped
    <3>6. ASSUME NEW i \in 1..Len(tcp') PROVE i + n \in 1..Len(tcp) /\ tcp'[i] = tcp[i + n]
      BY <3>5 DEF Cut
    <3> QED BY <3>3, <3>6 DEF FlowInv
  <2> QED BY <2>1, <2>2, <2>3 DEF FlowInv
<1>7. CASE Eof
  <2>1. qemu \in {"reading", "deaf"} /\ qemu' \in {qemu, "ended"}
    BY <1>7, HandleTypes DEF Eof
  <2> QED BY <1>7, <2>1 DEF Eof, FlowInv, page, worker
<1>8. CASE Shutdown \/ TargetEnd
  BY <1>8 DEF Shutdown, TargetEnd, FlowInv, page, worker
<1>9. CASE UNCHANGED vars
  BY <1>9 DEF vars, FlowInv, page, worker
<1> QED BY <1>1, <1>2, <1>3, <1>4, <1>5, <1>6, <1>7, <1>8, <1>9 DEF Next

LEMMA PageNext == TypeOK /\ PageInv /\ [Next]_vars => PageInv'
<1> SUFFICES ASSUME TypeOK, PageInv, [Next]_vars PROVE PageInv'
  OBVIOUS
<1>1. CASE User
  <2>1. ASSUME NEW b \in Button, mouseEvent_down(b) PROVE PageInv'
    <3>1. inside' = inside /\ btn' = btn \cup {b}
      BY <2>1 DEF mouseEvent_down
    <3>2. CASE inside /\ b # 2
      <4>1. check' = IF b = 3 THEN 4 ELSE 1
        BY <2>1, <3>2 DEF mouseEvent_down, ButtonState
      <4>2. b = 1 \/ b = 3
        BY <3>2 DEF Button
      <4>3. (check' = 1 => b = 1) /\ (check' = 4 => b = 3)
        BY <4>1, <4>2, SMTT(30)
      <4> QED BY <3>1, <3>2, <4>3 DEF PageInv
    <3>3. CASE ~(inside /\ b # 2)
      <4>1. UNCHANGED <<check, untold>>
        BY <2>1, <3>3 DEF mouseEvent_down
      <4> QED BY <3>1, <4>1 DEF PageInv
    <3> QED BY <3>2, <3>3
  <2>2. ASSUME NEW b \in Button, mouseEvent_up(b) PROVE PageInv'
    BY <2>2 DEF mouseEvent_up, CheckUp, PageInv
  <2>3. CASE mouseEvent_move \/ PointerIn \/ touchcancel
    BY <2>3 DEF mouseEvent_move, PointerIn, touchcancel, PageInv
  <2>4. CASE mouseEvent_out
    <3>1. ~untold' => check' = 0
      BY <2>4 DEF mouseEvent_out
    <3>2. 0 # 1 /\ 0 # 4
      OBVIOUS
    <3> QED BY <3>1, <3>2 DEF PageInv
  <2>5. ASSUME NEW k \in Key, keydown(k) \/ keyup(k) PROVE PageInv'
    BY <2>5 DEF keydown, keyup, PageInv
  <2> QED BY <1>1, <2>1, <2>2, <2>3, <2>4, <2>5 DEF User
<1>2. CASE UNCHANGED <<untold, check, btn, inside>>
  BY <1>2 DEF PageInv
<1>3. CASE ~User
  BY <1>2, <1>3 DEF Next, WebSocket, Forward, Close, socket_client_open, Read, Eof, Shutdown,
                    TargetEnd, vars, user, page
<1> QED BY <1>1, <1>3

-----------------------------------------------------------------------------
LEMMA AllFollows ==
  ASSUME NEW q, NEW X, NEW G, X \subseteq G
  PROVE  Follows(q, X, G, TRUE)
BY DEF Follows, Newest

LEMMA PressedFacts ==
  /\ \A c : \A st \in {0, 1, 4}, u \in BOOLEAN :
       u \/ c = st => Mouse(st) \in MouseMsg /\ Mouse(st) \in Pressed(c, u)
  /\ \A c : MouseMsg \subseteq Pressed(c, TRUE)
  /\ \A st, k : KeyMsg(st, k) \notin MouseMsg
<1>1. \A st : Mouse(st).state = st /\ Mouse(st).type = 0
  BY DEF Mouse, MINPUT
<1>2. \A st, k : KeyMsg(st, k).type = 1
  BY DEF KeyMsg, KINPUT
<1>3. \A st, k : KeyMsg(st, k) \notin MouseMsg
  BY <1>1, <1>2 DEF MouseMsg
<1> QED BY <1>1, <1>3 DEF MouseMsg, Pressed

LEMMA MouseUser ==
  ASSUME TypeOK, FlowInv, MouseInv, User, Live
  PROVE  Follows(Under', MouseMsg, Pressed(check', untold'),
                 stale' \/ prev_state' = check' \/ untold')
<1>1. /\ UNCHANGED <<tcp, prev_state>> /\ ws # "closed" /\ untold' \in BOOLEAN
  BY UserTypes DEF User, guest
<1>2. Follows(Under, MouseMsg, Pressed(check, untold),
              stale \/ prev_state = check \/ untold)
  BY DEF MouseInv
<1>3. ASSUME NEW st \in {0, 1, 4}, Send(Mouse(st)), untold' \/ check' = st
      PROVE  Follows(Under', MouseMsg, Pressed(check', untold'),
                     stale' \/ prev_state' = check' \/ untold')
  <2>1. Mouse(st) \in Message /\ Mouse(st) \in MouseMsg /\ Mouse(st) \in Pressed(check', untold')
    BY <1>1, <1>3, MessageTypes, PressedFacts
  <2>2. CASE Grown(Under, Under', Mouse(st))
    BY <2>1, <2>2, SentNew
  <2>3. CASE Len(Under) = 0 /\ Under' = Under /\ Lose({Mouse(st)}, {})
    <3>1. stale'
      BY <2>3 DEF Lose, MouseIn, Mouse
    <3> QED BY <2>3, <3>1, EmptyFollows
  <2> QED BY <1>1, <1>3, <2>1, <2>2, <2>3, SendUnder
<1>4. ASSUME NEW st \in {0, 1}, NEW k \in Key, Send(KeyMsg(st, k)), UNCHANGED <<check, untold>>
      PROVE  Follows(Under', MouseMsg, Pressed(check', untold'),
                     stale' \/ prev_state' = check' \/ untold')
  <2>1. KeyMsg(st, k) \in Message /\ KeyMsg(st, k) \notin MouseMsg
    BY MessageTypes, PressedFacts
  <2>2. CASE Grown(Under, Under', KeyMsg(st, k)) /\ stale' = stale
    BY <1>1, <1>2, <1>4, <2>1, <2>2, SentOther
  <2>3. CASE Len(Under) = 0 /\ Under' = Under /\ Lose({KeyMsg(st, k)}, {})
    <3>1. KeyMsg(st, k).type # MINPUT
      BY DEF KeyMsg, MINPUT, KINPUT
    <3>2. stale' = stale
      BY <2>3, <3>1 DEF Lose, MouseIn, TypeOK
    <3> QED BY <1>1, <1>2, <1>4, <2>3, <3>2
  <2> QED BY <1>1, <1>4, <2>1, <2>2, <2>3, SendUnder
<1>5. ASSUME SendNothing, untold' \/ UNCHANGED <<check, untold>>
      PROVE  Follows(Under', MouseMsg, Pressed(check', untold'),
                     stale' \/ prev_state' = check' \/ untold')
  <2>1. CASE untold'
    <3>1. untold' = TRUE /\ MouseMsg \subseteq Pressed(check', TRUE)
      BY <1>1, <2>1, PressedFacts
    <3>2. Follows(Under', MouseMsg, Pressed(check', untold'), TRUE)
      BY <3>1, AllFollows
    <3> QED BY <2>1, <3>2 DEF Follows
  <2>2. CASE UNCHANGED <<check, untold>>
    BY <1>1, <1>2, <1>5, <2>2 DEF SendNothing, Under
  <2> QED BY <1>5, <2>1, <2>2
<1> QED BY <1>3, <1>4, <1>5, UserCases

\* The message that the worker drops.
LEMMA MouseDropped ==
  ASSUME TypeOK, NEW m \in Message, Lose({m}, {})
  PROVE  (m \in MouseMsg => stale') /\ (m \notin MouseMsg => stale' = stale)
<1>1. (m \in MouseMsg => m.type = MINPUT) /\ (m \notin MouseMsg => m.type # MINPUT)
  BY SMTT(30), MessageTypes, PressedFacts DEF MINPUT, KINPUT, MouseMsg, Mouse
<1> QED BY <1>1 DEF Lose, MouseIn, TypeOK

LEMMA MouseForward ==
  ASSUME TypeOK, FlowInv, MouseInv, Forward, Live
  PROVE  Follows(Under', MouseMsg, Pressed(check, untold),
                 stale' \/ prev_state = check \/ untold)
<1> DEFINE G == Pressed(check, untold)
           ok == stale \/ prev_state = check \/ untold
           ok2 == stale' \/ prev_state = check \/ untold
<1>1. Follows(Under, MouseMsg, G, ok)
  BY DEF MouseInv
<1>2. CASE Cut(Under, Under', 0) /\ stale' = stale
  <2>1. ok => ok2
    BY <1>2
  <2> HIDE DEF G, ok, ok2
  <2>2. (\A i \in 2..0 : FALSE) /\ ~(0 >= 1)
    OBVIOUS
  <2>3. Follows(Under', MouseMsg, G, ok2)
    BY <1>1, <1>2, <2>1, <2>2, CutFollows
  <2> QED BY <2>3 DEF G, ok2
<1>3. CASE Cut(Under, Under', 1) /\ Under[1] \in Message /\ Lose({Under[1]}, {})
  <2>1. Under[1] \in MouseMsg => ok2
    BY <1>3, MouseDropped
  <2>2. Under[1] \notin MouseMsg /\ ok => ok2
    BY <1>3, MouseDropped
  <2> HIDE DEF G, ok, ok2
  <2>3. (\A i \in 2..1 : FALSE) /\ 1 \in 1..1
    OBVIOUS
  <2>4. Follows(Under', MouseMsg, G, ok2)
    BY <1>1, <1>3, <2>1, <2>2, <2>3, CutFollows
  <2> QED BY <2>4 DEF G, ok2
<1> QED BY <1>2, <1>3, ForwardUnder

LEMMA HandleMessage ==
  ASSUME NEW m \in Message, Handle(m)
  PROVE  /\ m \in MouseMsg => prev_state' = m.state /\ keys' = keys
         /\ m \notin MouseMsg => /\ prev_state' = prev_state
                                 /\ KeyCommand(m.state, Make_keymap(m.key))
<1>1. m # Rest
  BY RestType
<1>2. MINPUT # KINPUT
  BY DEF MINPUT, KINPUT
<1>3. (m \in MouseMsg => m.type = MINPUT) /\ (m \notin MouseMsg => m.type = KINPUT)
  BY SMTT(30), MessageTypes DEF MINPUT, MouseMsg, Mouse
<1> QED BY <1>1, <1>2, <1>3 DEF Handle, sdl_send_mouse_event, KeyCommand

LEMMA MouseRead ==
  ASSUME TypeOK, FlowInv, MouseInv, Read, Live, ~junk'
  PROVE  Follows(Under', MouseMsg, Pressed(check, untold),
                 stale' \/ prev_state' = check \/ untold)
<1> DEFINE G == Pressed(check, untold)
           ok == stale \/ prev_state = check \/ untold
           ok2 == stale' \/ prev_state' = check \/ untold
<1>1. Follows(Under, MouseMsg, G, ok)
  BY DEF MouseInv
<1>2. PICK n \in Nat : /\ n >= 1 /\ Cut(Under, Under', n)
                       /\ \A i \in 1..n : Under[i] \in Message
                       /\ Lose({Under[i] : i \in 2..n}, {Under[1]})
                       /\ Handle(Under[1])
  BY ReadUnder
<1>3. /\ 1 \in 1..n /\ \A i \in 2..n : i \in 1..n
  BY <1>2
<1>4. \A m \in Message : m \in MouseMsg <=> m.type = MINPUT
  BY SMTT(30), MessageTypes, PressedFacts DEF MINPUT, KINPUT, MouseMsg, Mouse
<1>5. ASSUME NEW i \in 2..n, Under[i] \in MouseMsg PROVE ok2
  <2>1. MouseIn({Under[j] : j \in 2..n})
    BY <1>2, <1>3, <1>4, <1>5 DEF MouseIn
  <2> QED BY <1>2, <2>1 DEF Lose
<1>6. Under[1] \in MouseMsg /\ Under[1] \in G => ok2
  BY <1>2, <1>3, HandleMessage DEF Pressed
<1>7. Under[1] \notin MouseMsg /\ ok => ok2
  <2>1. SUFFICES ASSUME Under[1] \notin MouseMsg, ok PROVE ok2
    OBVIOUS
  <2>2. prev_state' = prev_state
    BY <1>2, <1>3, <2>1, HandleMessage
  <2>3. ~MouseIn({Under[1]})
    BY <1>2, <1>3, <1>4, <2>1 DEF MouseIn
  <2> QED BY <1>2, <2>1, <2>2, <2>3 DEF Lose
<1> HIDE DEF G, ok, ok2
<1>8. Follows(Under', MouseMsg, G, ok2)
  BY <1>1, <1>2, <1>3, <1>5, <1>6, <1>7, CutFollows
<1> QED BY <1>8 DEF G, ok2

\* A step by which a session stays alive is one of the user or the socket, or
\* moves messages on.
LEMMA LiveSteps ==
  ASSUME TypeOK, FlowInv, [Next]_vars, Live'
  PROVE  /\ Live
         /\ \/ User
            \/ Forward /\ UNCHANGED <<check, untold, prev_state, unheard, held, keys>>
            \/ Read /\ ~junk' /\ UNCHANGED <<check, untold, unheard, held>>
            \/ /\ UNCHANGED <<toWorker, tcp, check, untold, unheard, stale, lost>>
               /\ UNCHANGED <<prev_state, keys, held>>
<1>1. CASE User
  BY <1>1 DEF User, Live
<1>2. CASE WebSocket
  BY <1>2 DEF WebSocket, Live, user, guest
<1>3. CASE Forward
  BY <1>3 DEF Forward, Live, user, guest
<1>4. CASE Close
  BY <1>4 DEF Close, Live, page
<1>5. CASE socket_client_open
  BY <1>5 DEF socket_client_open, Live, user, page, guest
<1>6. CASE Read
  <2>1. ~junk' /\ (~junk' => ~junk) /\ qemu = "reading" /\ UNCHANGED <<user, page>>
    BY <1>6 DEF Read, Live
  <2> QED BY <1>6, <2>1 DEF Live, user, page
<1>7. CASE Eof
  <2>1. qemu \in {"reading", "deaf"} /\ qemu' \in {qemu, "ended"} /\ ws' = ws
    BY <1>7, HandleTypes DEF Eof, page
  <2> QED BY <1>7, <2>1 DEF Eof, FlowInv, Live
<1>8. CASE Shutdown \/ TargetEnd
  BY <1>8 DEF Shutdown, TargetEnd, Live
<1>9. CASE UNCHANGED vars
  BY <1>9 DEF vars, Live, user, page, guest
<1> QED BY <1>1, <1>2, <1>3, <1>4, <1>5, <1>6, <1>7, <1>8, <1>9 DEF Next

LEMMA MouseNext == TypeOK /\ FlowInv /\ MouseInv /\ [Next]_vars => MouseInv'
<1> SUFFICES ASSUME TypeOK, FlowInv, MouseInv, [Next]_vars, Live'
             PROVE  Follows(Under', MouseMsg, Pressed(check', untold'),
                            stale' \/ prev_state' = check' \/ untold')
  BY DEF MouseInv
<1>1. Live
  BY LiveSteps
<1>2. CASE User
  BY <1>1, <1>2, MouseUser
<1>3. CASE Forward /\ UNCHANGED <<check, untold, prev_state>>
  BY <1>1, <1>3, MouseForward
<1>4. CASE Read /\ ~junk' /\ UNCHANGED <<check, untold>>
  BY <1>1, <1>4, MouseRead
<1>5. CASE UNCHANGED <<toWorker, tcp, check, untold, stale, prev_state>>
  BY <1>1, <1>5 DEF MouseInv, Under
<1> QED BY <1>2, <1>3, <1>4, <1>5, LiveSteps

LEMMA EmptyStart ==
  ASSUME Init
  PROVE  Len(Under) = 0
BY DEF Init, Under

\* The inductive invariant of what the mouse does.
LEMMA MouseAlways == Spec => [](TypeOK /\ FlowInv /\ PageInv /\ MouseInv)
<1>1. Init => FlowInv /\ PageInv /\ MouseInv
  <2> SUFFICES ASSUME Init PROVE FlowInv /\ PageInv /\ MouseInv
    OBVIOUS
  <2>1. FlowInv
    BY DEF Init, FlowInv
  <2>2. PageInv
    BY DEF Init, PageInv
  <2>3. prev_state = check
    BY DEF Init
  <2>4. MouseInv
    BY <2>3, EmptyStart, EmptyFollows DEF MouseInv
  <2> QED BY <2>1, <2>2, <2>4
<1>2. TypeOK /\ FlowInv /\ PageInv /\ MouseInv /\ [Next]_vars => (FlowInv /\ PageInv /\ MouseInv)'
  BY FlowNext, PageNext, MouseNext
<1> QED BY <1>1, <1>2, TypeCorrect, PTL DEF Spec

LEMMA SettledMouse ==
  ASSUME MouseInv, Settled, ~stale
  PROVE  prev_state = check \/ untold
<1>1. Live
  BY DEF Settled, Live
<1>2. Len(Under) = 0
  BY DEF Settled, Under
<1> QED BY <1>1, <1>2, EmptyFollows DEF MouseInv

\* When all is delivered the guest has the button down that the page takes to be
\* pressed, whatever reads took several messages and whatever the worker dropped
\* before QEMU had connected.
THEOREM GuestFollows == Spec => []GuestFollowsPage
<1>1. MouseInv => GuestFollowsPage
  BY SettledMouse DEF GuestFollowsPage
<1> QED BY <1>1, MouseAlways, PTL

\* A button that is down in the guest is down under the user's finger.
THEOREM NoPhantoms == Spec => []NoPhantomButton
<1>1. MouseInv /\ PageInv => NoPhantomButton
  BY SettledMouse DEF NoPhantomButton, PageInv
<1> QED BY <1>1, MouseAlways, PTL

-----------------------------------------------------------------------------
LEMMA KeyFacts ==
  /\ \A k, st : st \in {0, 1} => KeyMsg(st, k) \in KeyMsgs(k)
  /\ \A k, j, st : j # k => KeyMsg(st, j) \notin KeyMsgs(k)
  /\ \A k, st : Mouse(st) \notin KeyMsgs(k)
  /\ \A k : \A m \in Message : m \in KeyMsgs(k) <=> m.type = KINPUT /\ m.key = k
  /\ \A k, j \in Key : Make_keymap(k) # 0 /\ Make_keymap(j) = Make_keymap(k) => j = k
<1>1. \A st, k : KeyMsg(st, k).type = KINPUT /\ KeyMsg(st, k).key = k
  BY DEF KeyMsg
<1>2. \A st : Mouse(st).type # KINPUT
  BY DEF Mouse, MINPUT, KINPUT
<1>3. \A k, j, st : j # k => KeyMsg(st, j) \notin KeyMsgs(k)
  BY SMTT(30), <1>1 DEF KeyMsgs
<1>4. \A k, st : Mouse(st) \notin KeyMsgs(k)
  BY SMTT(30), <1>1, <1>2 DEF KeyMsgs
<1>5. \A k : \A m \in Message : m \in KeyMsgs(k) <=> m.type = KINPUT /\ m.key = k
  <2>1. \A m, k : m \in KeyMsgs(k) => m.type = KINPUT /\ m.key = k
    BY SMTT(30), <1>1 DEF KeyMsgs
  <2>2. MINPUT # KINPUT
    BY DEF MINPUT, KINPUT
  <2> QED BY <2>1, <2>2, MessageTypes
<1>6. \A k, j \in Key : Make_keymap(k) # 0 /\ Make_keymap(j) = Make_keymap(k) => j = k
  BY SMTT(30) DEF Make_keymap
<1>7. \A k, st : st \in {0, 1} => KeyMsg(st, k) \in KeyMsgs(k)
  BY DEF KeyMsgs
<1> QED BY <1>3, <1>4, <1>5, <1>6, <1>7

LEMMA ToldFacts ==
  ASSUME NEW k
  PROVE  KeyMsg(1, k) \in Told(k, TRUE) /\ KeyMsg(0, k) \in Told(k, FALSE)
<1>1. KeyMsg(1, k).state = 1 /\ KeyMsg(0, k).state = 0 /\ 0 # 1
  BY DEF KeyMsg
<1> QED BY <1>1 DEF Told, KeyMsgs

\* What lost says of key k.
LEMMA LoseKey ==
  ASSUME NEW M, NEW H, Lose(M, H), NEW k
  PROVE  /\ (\E m \in M : m.type = KINPUT /\ m.key = k) => k \in lost'
         /\ k \in lost /\ (\A m \in H : ~(m.type = KINPUT /\ m.key = k)) => k \in lost'
BY DEF Lose, KeysIn

\* How a message of the page, or none, changes what is told of key k.
LEMMA KeySent ==
  ASSUME TypeOK, FlowInv, ws # "closed", UNCHANGED <<tcp, keys>>, NEW k \in Key,
         NEW m \in Message, Send(m), NEW h \in BOOLEAN,
         \/ m \in KeyMsgs(k) /\ m \in Told(k, h)
         \/ /\ m \notin KeyMsgs(k)
            /\ Follows(Under, KeyMsgs(k), Told(k, h), k \in lost \/ (Make_keymap(k) \in keys <=> h))
  PROVE  Follows(Under', KeyMsgs(k), Told(k, h), k \in lost' \/ (Make_keymap(k) \in keys' <=> h))
<1> DEFINE ok == k \in lost \/ (Make_keymap(k) \in keys <=> h)
           ok2 == k \in lost' \/ (Make_keymap(k) \in keys' <=> h)
           X == KeyMsgs(k)
           G == Told(k, h)
<1>1. CASE Grown(Under, Under', m) /\ lost' = lost
  <2>1. ok2 = ok
    BY <1>1
  <2>2. \/ m \in X /\ m \in G
        \/ m \notin X /\ Follows(Under, X, G, ok)
    OBVIOUS
  <2> HIDE DEF ok, ok2, X, G
  <2>3. Follows(Under', X, G, ok2)
    BY <1>1, <2>1, <2>2, SentNew, SentOther
  <2> QED BY <2>3 DEF X, G, ok2
<1>2. CASE Len(Under) = 0 /\ Under' = Under /\ Lose({m}, {})
  <2>1. CASE m \in KeyMsgs(k)
    <3>1. k \in lost'
      BY <1>2, <2>1, KeyFacts, LoseKey
    <3>2. ok2
      BY <3>1
    <3> HIDE DEF ok2
    <3>3. Follows(Under', KeyMsgs(k), Told(k, h), ok2)
      BY <1>2, <3>2, EmptyFollows
    <3> QED BY <3>3 DEF ok2
  <2>2. CASE m \notin KeyMsgs(k)
    <3>1. Follows(Under, KeyMsgs(k), Told(k, h), ok)
      BY <2>2
    <3>2. ok
      <4> HIDE DEF ok
      <4> QED BY <1>2, <3>1, EmptyFollows
    <3>3. k \in lost => k \in lost'
      BY SMTT(30), <1>2, LoseKey
    <3>4. ok2
      BY <3>2, <3>3
    <3> HIDE DEF ok2
    <3>5. Follows(Under', KeyMsgs(k), Told(k, h), ok2)
      BY <1>2, <3>4, EmptyFollows
    <3> QED BY <3>5 DEF ok2
  <2> QED BY <2>1, <2>2
<1> QED BY <1>1, <1>2, SendUnder

LEMMA KeyUser ==
  ASSUME TypeOK, FlowInv, KeyInv, User, Live, NEW k \in Key \ unheard', Make_keymap(k) # 0
  PROVE  Follows(Under', KeyMsgs(k), Told(k, k \in held'),
                 k \in lost' \/ (Make_keymap(k) \in keys' <=> k \in held'))
<1>1. UNCHANGED <<tcp, keys>> /\ ws # "closed"
  BY DEF User, guest
<1>2. k \notin unheard => Follows(Under, KeyMsgs(k), Told(k, k \in held),
                            k \in lost \/ (Make_keymap(k) \in keys <=> k \in held))
  BY DEF KeyInv
<1>3. ASSUME NEW m \in Message, Send(m), m \notin KeyMsgs(k), k \notin unheard,
             (k \in held') = (k \in held)
      PROVE  Follows(Under', KeyMsgs(k), Told(k, k \in held'),
                     k \in lost' \/ (Make_keymap(k) \in keys' <=> k \in held'))
  <2> DEFINE h == k \in held
  <2>1. h \in BOOLEAN /\ (k \in held') = h
    BY <1>3
  <2>2. Follows(Under, KeyMsgs(k), Told(k, h), k \in lost \/ (Make_keymap(k) \in keys <=> h))
    BY <1>2, <1>3
  <2> HIDE DEF h
  <2>3. Follows(Under', KeyMsgs(k), Told(k, h), k \in lost' \/ (Make_keymap(k) \in keys' <=> h))
    BY <1>1, <1>3, <2>1, <2>2, KeySent
  <2> QED BY <2>1, <2>3
<1>4. ASSUME SendNothing, k \notin unheard, (k \in held') = (k \in held)
      PROVE  Follows(Under', KeyMsgs(k), Told(k, k \in held'),
                     k \in lost' \/ (Make_keymap(k) \in keys' <=> k \in held'))
  <2>1. Under' = Under /\ lost' = lost
    BY <1>1, <1>4 DEF SendNothing, Under
  <2> QED BY <1>1, <1>2, <1>4, <2>1
<1>5. ASSUME NEW j \in Key, Send(KeyMsg(1, j)), held' = held \cup {j}, unheard' = unheard \ {j}
      PROVE  Follows(Under', KeyMsgs(k), Told(k, k \in held'),
                     k \in lost' \/ (Make_keymap(k) \in keys' <=> k \in held'))
  <2>1. KeyMsg(1, j) \in Message
    BY MessageTypes
  <2>2. CASE j = k
    <3> DEFINE h == k \in held'
    <3>1. h = TRUE
      BY <1>5, <2>2
    <3>2. KeyMsg(1, k) \in KeyMsgs(k) /\ KeyMsg(1, k) \in Told(k, TRUE)
      BY KeyFacts, ToldFacts
    <3> HIDE DEF h
    <3>3. Follows(Under', KeyMsgs(k), Told(k, h), k \in lost' \/ (Make_keymap(k) \in keys' <=> h))
      BY <1>1, <1>5, <2>1, <2>2, <3>1, <3>2, KeySent
    <3> QED BY <3>3 DEF h
  <2>3. CASE j # k
    <3>1. (k \in held') = (k \in held) /\ k \notin unheard /\ KeyMsg(1, j) \notin KeyMsgs(k)
      BY SMTT(30), <1>5, <2>3, KeyFacts
    <3> QED BY <1>3, <1>5, <2>1, <3>1
  <2> QED BY <2>2, <2>3
<1>6. ASSUME NEW j \in Key, Send(KeyMsg(0, j)), held' = held \ {j}, unheard' = unheard
      PROVE  Follows(Under', KeyMsgs(k), Told(k, k \in held'),
                     k \in lost' \/ (Make_keymap(k) \in keys' <=> k \in held'))
  <2>1. KeyMsg(0, j) \in Message
    BY MessageTypes
  <2>2. CASE j = k
    <3> DEFINE h == k \in held'
    <3>1. h = FALSE
      BY <1>6, <2>2
    <3>2. KeyMsg(0, k) \in KeyMsgs(k) /\ KeyMsg(0, k) \in Told(k, FALSE)
      BY KeyFacts, ToldFacts
    <3> HIDE DEF h
    <3>3. Follows(Under', KeyMsgs(k), Told(k, h), k \in lost' \/ (Make_keymap(k) \in keys' <=> h))
      BY <1>1, <1>6, <2>1, <2>2, <3>1, <3>2, KeySent
    <3> QED BY <3>3 DEF h
  <2>3. CASE j # k
    <3>1. (k \in held') = (k \in held) /\ k \notin unheard /\ KeyMsg(0, j) \notin KeyMsgs(k)
      BY SMTT(30), <1>6, <2>3, KeyFacts
    <3> QED BY <1>3, <1>6, <2>1, <3>1
  <2> QED BY <2>2, <2>3
<1>7. ASSUME NEW j \in Key, SendNothing, held' = held \ {j}, unheard' = unheard \cup {j}
      PROVE  Follows(Under', KeyMsgs(k), Told(k, k \in held'),
                     k \in lost' \/ (Make_keymap(k) \in keys' <=> k \in held'))
  <2>1. (k \in held') = (k \in held) /\ k \notin unheard
    BY SMTT(30), <1>7
  <2> QED BY <1>4, <1>7, <2>1
<1>8. CASE UNCHANGED <<held, unheard>>
  <2>1. k \notin unheard /\ (k \in held') = (k \in held)
    BY <1>8
  <2>2. ASSUME NEW st \in {0, 1, 4}, Send(Mouse(st))
        PROVE  Follows(Under', KeyMsgs(k), Told(k, k \in held'),
                       k \in lost' \/ (Make_keymap(k) \in keys' <=> k \in held'))
    <3>1. Mouse(st) \in Message /\ Mouse(st) \notin KeyMsgs(k)
      BY MessageTypes, KeyFacts
    <3> QED BY <1>3, <2>1, <2>2, <3>1
  <2>3. ASSUME SendNothing
        PROVE  Follows(Under', KeyMsgs(k), Told(k, k \in held'),
                       k \in lost' \/ (Make_keymap(k) \in keys' <=> k \in held'))
    BY <1>4, <2>1, <2>3
  <2> QED BY <1>5, <1>6, <1>7, <2>2, <2>3, UserCases
<1> QED BY <1>5, <1>6, <1>7, <1>8, UserCases

LEMMA KeyForward ==
  ASSUME TypeOK, FlowInv, KeyInv, Forward, Live, NEW k \in Key \ unheard, Make_keymap(k) # 0
  PROVE  Follows(Under', KeyMsgs(k), Told(k, k \in held),
                 k \in lost' \/ (Make_keymap(k) \in keys <=> k \in held))
<1> DEFINE X == KeyMsgs(k)
           G == Told(k, k \in held)
           ok == k \in lost \/ (Make_keymap(k) \in keys <=> k \in held)
           ok2 == k \in lost' \/ (Make_keymap(k) \in keys <=> k \in held)
<1>1. Follows(Under, X, G, ok)
  BY DEF KeyInv
<1>2. CASE Cut(Under, Under', 0) /\ lost' = lost
  <2>1. ok => ok2
    BY <1>2
  <2> HIDE DEF X, G, ok, ok2
  <2>2. (\A i \in 2..0 : FALSE) /\ ~(0 >= 1)
    OBVIOUS
  <2>3. Follows(Under', X, G, ok2)
    BY <1>1, <1>2, <2>1, <2>2, CutFollows
  <2> QED BY <2>3 DEF X, G, ok2
<1>3. CASE Cut(Under, Under', 1) /\ Under[1] \in Message /\ Lose({Under[1]}, {})
  <2>1. Under[1] \in X => k \in lost'
    BY SMTT(30), <1>3, KeyFacts, LoseKey
  <2>2. k \in lost => k \in lost'
    BY SMTT(30), <1>3, LoseKey
  <2>3. (Under[1] \in X => ok2) /\ (ok => ok2)
    BY <2>1, <2>2
  <2> HIDE DEF X, G, ok, ok2
  <2>4. (\A i \in 2..1 : FALSE) /\ 1 \in 1..1
    OBVIOUS
  <2>5. Follows(Under', X, G, ok2)
    BY <1>1, <1>3, <2>3, <2>4, CutFollows
  <2> QED BY <2>5 DEF X, G, ok2
<1> QED BY <1>2, <1>3, ForwardUnder

LEMMA KeyRead ==
  ASSUME TypeOK, FlowInv, KeyInv, Read, Live, ~junk', NEW k \in Key \ unheard,
         Make_keymap(k) # 0
  PROVE  Follows(Under', KeyMsgs(k), Told(k, k \in held),
                 k \in lost' \/ (Make_keymap(k) \in keys' <=> k \in held))
<1> DEFINE X == KeyMsgs(k)
           G == Told(k, k \in held)
           ok == k \in lost \/ (Make_keymap(k) \in keys <=> k \in held)
           ok2 == k \in lost' \/ (Make_keymap(k) \in keys' <=> k \in held)
<1>1. Follows(Under, X, G, ok)
  BY DEF KeyInv
<1>2. PICK n \in Nat : /\ n >= 1 /\ Cut(Under, Under', n)
                       /\ \A i \in 1..n : Under[i] \in Message
                       /\ Lose({Under[i] : i \in 2..n}, {Under[1]})
                       /\ Handle(Under[1])
  BY ReadUnder
<1>3. 1 \in 1..n /\ (\A i \in 2..n : i \in 1..n) /\ Under[1] \in Message
  BY <1>2
<1>4. ASSUME NEW i \in 2..n, Under[i] \in X PROVE ok2
  <2>1. Under[i].type = KINPUT /\ Under[i].key = k
    BY <1>2, <1>3, <1>4, KeyFacts
  <2>2. k \in lost'
    BY SMTT(30), <1>2, <2>1, LoseKey
  <2> QED BY <2>2
<1>5. ASSUME Under[1] \in X, Under[1] \in G PROVE ok2
  <2>1. Under[1].key = k /\ Under[1] \notin MouseMsg
    BY SMTT(30), <1>3, <1>5, KeyFacts DEF MouseMsg
  <2>2. KeyCommand(Under[1].state, Make_keymap(k))
    BY <1>2, <1>3, <2>1, HandleMessage
  <2>3. Under[1].state = 1 <=> k \in held
    BY <1>5 DEF Told
  <2> QED BY <2>2, <2>3 DEF KeyCommand
<1>6. ASSUME Under[1] \notin X, ok PROVE ok2
  <2>1. k \in lost => k \in lost'
    <3>1. ~(Under[1].type = KINPUT /\ Under[1].key = k)
      BY <1>3, <1>6, KeyFacts
    <3> QED BY SMTT(30), <1>2, <3>1, LoseKey
  <2>2. Make_keymap(k) \in keys' <=> Make_keymap(k) \in keys
    <3>1. CASE Under[1] \in MouseMsg
      BY <1>2, <1>3, <3>1, HandleMessage
    <3>2. CASE Under[1] \notin MouseMsg
      <4>1. KeyCommand(Under[1].state, Make_keymap(Under[1].key))
        BY <1>2, <1>3, <3>2, HandleMessage
      <4>2. Under[1].key \in Key /\ Under[1].key # k
        BY <1>3, <1>6, <3>2, MessageTypes
      <4>3. Make_keymap(Under[1].key) # Make_keymap(k)
        BY <4>2, KeyFacts
      <4> QED BY <4>1, <4>3 DEF KeyCommand
    <3> QED BY <3>1, <3>2
  <2> QED BY <1>6, <2>1, <2>2
<1> HIDE DEF X, G, ok, ok2
<1>7. Follows(Under', X, G, ok2)
  BY <1>1, <1>2, <1>3, <1>4, <1>5, <1>6, CutFollows
<1> QED BY <1>7 DEF X, G, ok2

LEMMA KeyNext == TypeOK /\ FlowInv /\ KeyInv /\ [Next]_vars => KeyInv'
<1> SUFFICES ASSUME TypeOK, FlowInv, KeyInv, [Next]_vars, Live',
                    NEW k \in Key \ unheard', Make_keymap(k) # 0
             PROVE  Follows(Under', KeyMsgs(k), Told(k, k \in held'),
                            k \in lost' \/ (Make_keymap(k) \in keys' <=> k \in held'))
  BY DEF KeyInv
<1>1. Live
  BY LiveSteps
<1>2. CASE User
  BY <1>1, <1>2, KeyUser
<1>3. CASE Forward /\ UNCHANGED <<unheard, held, keys>>
  BY <1>1, <1>3, KeyForward
<1>4. CASE Read /\ ~junk' /\ UNCHANGED <<unheard, held>>
  BY <1>1, <1>4, KeyRead
<1>5. CASE UNCHANGED <<toWorker, tcp, unheard, lost, keys, held>>
  BY <1>1, <1>5 DEF KeyInv, Under
<1> QED BY <1>2, <1>3, <1>4, <1>5, LiveSteps

\* A key of the table is down in the guest exactly when the user holds it, as soon
\* as all is delivered, whatever else was lost on the way.
THEOREM KeysFollow == Spec => []KeysFollowUser
<1>1. Init => KeyInv
  <2> SUFFICES ASSUME Init, NEW k \in Key
               PROVE  Follows(Under, KeyMsgs(k), Told(k, k \in held),
                              k \in lost \/ (Make_keymap(k) \in keys <=> k \in held))
    BY DEF KeyInv
  <2>1. Make_keymap(k) \in keys <=> k \in held
    BY DEF Init
  <2> QED BY <2>1, EmptyStart, EmptyFollows
<1>2. TypeOK /\ FlowInv /\ KeyInv /\ [Next]_vars => KeyInv'
  BY KeyNext
<1>3. KeyInv => KeysFollowUser
  <2> SUFFICES ASSUME KeyInv, Settled, NEW k \in Key \ (lost \cup unheard), Make_keymap(k) # 0
               PROVE  Make_keymap(k) \in keys <=> k \in held
    BY DEF KeysFollowUser
  <2>1. Live
    BY DEF Settled, Live
  <2>2. Len(Under) = 0
    BY DEF Settled, Under
  <2> QED BY <2>1, <2>2, EmptyFollows DEF KeyInv
<1> QED BY <1>1, <1>2, <1>3, MouseAlways, PTL DEF Spec
=============================================================================
