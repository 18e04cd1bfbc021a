--------------------------- MODULE MembersProofs ---------------------------
(***************************************************************************)
(* Proofs about Members, for every set of requests and of accounts.        *)
(* Commands, answers and callbacks stay in step, whatever a broken         *)
(* connection has left on the wire, and each request sends each of its     *)
(* commands once.  From that: a registration has its index, which no other *)
(* one gets, before it inserts the member; who has joined can log in; and  *)
(* every request gets its answer.                                          *)
(***************************************************************************)
EXTENDS Members, TLAPS

\* A leaf is tried with Zenon first, then with the SMT solver.
USE ZenonT(20), SMTT(30)

-----------------------------------------------------------------------------
\* The first a calls of p are answered; the others are on the wire w, in the order
\* of p, with commands between them that nobody waits for.
InOrder(w, p, a) ==
  /\ a <= Len(p)
  /\ \A i, j \in 1..Len(w) : w[i] = w[j] => i = j
  /\ \A i, j \in 1..Len(p) : p[i] = p[j] => i = j
  /\ \A i \in 1..Len(p) : i <= a <=> p[i] \notin Elems(w)
  /\ \A i, j \in 1..Len(w), k, l \in 1..Len(p) :
       i < j /\ w[i] = p[k] /\ w[j] = p[l] => k < l

OpsOf(kind) == CASE kind = "join" -> {"initIndexers", "getIndexers", "checkIdMember",
                                      "insertMember"}
                 [] kind = "idCheck" -> {"checkIdMember"}
                 [] kind = "login" -> {"checkLoginMember", "getIndexMember"}

\* A request sends each of its commands once, the second ones after the callback
\* of the first.  W, P and F are the calls on the wire, pending and failing; asked
\* is what the requests ask.
Once(asked, W, P, F) ==
  /\ \A c \in W \cup P \cup F :
       c \in Call /\ asked[c.req] # None /\ c.op \in OpsOf(asked[c.req].kind)
  /\ \A c, d \in W \cup P \cup F : c.op = d.op /\ c.req = d.req => c = d
  /\ \A c \in W \cup P \cup F, d \in P \cup F : c.req = d.req =>
       /\ ~(c.op = "insertMember" /\ d.op = "checkIdMember")
       /\ ~(c.op = "getIndexMember" /\ d.op = "checkLoginMember")
  /\ P \cap F = {}

QueueInv ==
  /\ InOrder(wire, pending, Len(answers))
  /\ Once(ask, Elems(wire), Elems(pending), Elems(failing))
  /\ \A i, j \in 1..Len(failing) : failing[i] = failing[j] => i = j
  /\ \A r \in Req : ask[r] = None => inputIndex[r] = None

-----------------------------------------------------------------------------
\* Sequences.
LEMMA SeqLen ==
  ASSUME NEW S, NEW q \in Seq(S)
  PROVE  Len(q) \in Nat /\ q \in [1..Len(q) -> S] /\ DOMAIN q = 1..Len(q)
OBVIOUS

LEMMA SeqEmpty ==
  ASSUME NEW S
  PROVE  /\ <<>> \in Seq(S) /\ Len(<<>>) = 0
         /\ \A q \in Seq(S) : q # <<>> => Len(q) \in Nat \ {0}
OBVIOUS

LEMMA SeqAppend ==
  ASSUME NEW S, NEW q \in Seq(S), NEW c \in S
  PROVE  /\ Append(q, c) \in Seq(S) /\ Len(Append(q, c)) = Len(q) + 1
         /\ \A i \in 1..Len(q) : Append(q, c)[i] = q[i]
         /\ Append(q, c)[Len(q) + 1] = c
OBVIOUS

LEMMA SeqTail ==
  ASSUME NEW S, NEW q \in Seq(S), q # <<>>
  PROVE  /\ Head(q) \in S /\ Tail(q) \in Seq(S) /\ Len(Tail(q)) = Len(q) - 1
         /\ \A i \in 1..Len(Tail(q)) : Tail(q)[i] = q[i + 1]
OBVIOUS

\* Sequences and their elements.
LEMMA ElemsAppend ==
  ASSUME NEW S, NEW q \in Seq(S), NEW c \in S
  PROVE  Elems(Append(q, c)) = Elems(q) \cup {c}
<1>1. /\ Len(Append(q, c)) = Len(q) + 1 /\ Append(q, c)[Len(q) + 1] = c
      /\ \A i \in 1..Len(q) : Append(q, c)[i] = q[i]
  BY SMTT(30), SeqAppend
<1>2. Len(q) \in Nat
  BY SeqLen
<1> QED BY SMTT(30), <1>1, <1>2 DEF Elems

LEMMA ElemsTail ==
  ASSUME NEW S, NEW q \in Seq(S), q # <<>>
  PROVE  /\ Head(q) \in Elems(q) /\ Head(q) = q[1]
         /\ Elems(Tail(q)) \subseteq Elems(q)
         /\ Elems(q) = Elems(Tail(q)) \cup {Head(q)}
<1>1. /\ Len(Tail(q)) = Len(q) - 1 /\ \A i \in 1..Len(Tail(q)) : Tail(q)[i] = q[i + 1]
  BY SeqTail
<1>2. Len(q) \in Nat /\ Len(q) # 0 /\ Head(q) = q[1]
  BY SeqLen, SeqEmpty
<1>3. ASSUME NEW i \in 1..Len(q), i # 1 PROVE q[i] \in Elems(Tail(q))
  <2> DEFINE k == i - 1
  <2>1. k \in 1..Len(Tail(q)) /\ i = k + 1
    BY SMTT(30), <1>1, <1>2, <1>3
  <2> HIDE DEF k
  <2>2. Tail(q)[k] = q[i]
    BY <1>1, <2>1
  <2> QED BY <2>1, <2>2 DEF Elems
<1>4. Elems(Tail(q)) \subseteq Elems(q)
  BY SMTT(30), <1>1, <1>2 DEF Elems
<1> QED BY SMTT(30), <1>2, <1>3, <1>4 DEF Elems

LEMMA ElemsSubSeq ==
  ASSUME NEW S, NEW q \in Seq(S), NEW n \in 0..Len(q)
  PROVE  /\ SubSeq(q, 1, n) \in Seq(S) /\ Len(SubSeq(q, 1, n)) = n
         /\ \A i \in 1..n : SubSeq(q, 1, n)[i] = q[i]
         /\ Elems(SubSeq(q, 1, n)) \subseteq Elems(q)
<1>1. /\ SubSeq(q, 1, n) \in Seq(S) /\ Len(SubSeq(q, 1, n)) = n
      /\ \A i \in 1..n : SubSeq(q, 1, n)[i] = q[i]
  OBVIOUS
<1> QED BY SMTT(30), <1>1, SeqLen DEF Elems

LEMMA ElemsEmpty == Elems(<<>>) = {}
BY DEF Elems

-----------------------------------------------------------------------------
\* The order of commands and callbacks: a command is sent, with or without a
\* callback; MongoDB executes one; a callback runs; the connection breaks.
LEMMA SendKeepsOrder ==
  ASSUME NEW w \in Seq(Call), NEW p \in Seq(Call), NEW a \in Nat, InOrder(w, p, a),
         NEW c \in Call, c \notin Elems(w), c \notin Elems(p)
  PROVE  InOrder(Append(w, c), Append(p, c), a)
<1> DEFINE w2 == Append(w, c)
           p2 == Append(p, c)
<1>1. /\ Len(w2) = Len(w) + 1 /\ w2[Len(w) + 1] = c /\ Len(w) \in Nat
      /\ \A i \in 1..Len(w) : w2[i] = w[i] /\ w[i] # c
  BY SMTT(30), SeqAppend, SeqLen DEF Elems
<1>2. /\ Len(p2) = Len(p) + 1 /\ p2[Len(p) + 1] = c /\ Len(p) \in Nat
      /\ \A i \in 1..Len(p) : p2[i] = p[i] /\ p[i] # c
  BY SMTT(30), SeqAppend, SeqLen DEF Elems
<1>3. Elems(w2) = Elems(w) \cup {c}
  BY SMTT(30), ElemsAppend
<1> HIDE DEF w2, p2
<1>4. \A i, j \in 1..Len(w2) : w2[i] = w2[j] => i = j
  BY SMTT(30), <1>1 DEF InOrder
<1>5. a <= Len(p2) /\ \A i, j \in 1..Len(p2) : p2[i] = p2[j] => i = j
  BY SMTT(30), <1>2 DEF InOrder
<1>6. \A i \in 1..Len(p2) : i <= a <=> p2[i] \notin Elems(w2)
  BY SMTT(30), <1>2, <1>3 DEF InOrder
<1>7. ASSUME NEW i \in 1..Len(w2), NEW j \in 1..Len(w2), NEW k \in 1..Len(p2),
             NEW l \in 1..Len(p2), i < j, w2[i] = p2[k], w2[j] = p2[l]
      PROVE  k < l
  <2>1. i \in 1..Len(w) /\ k \in 1..Len(p) /\ w[i] = p[k]
    BY <1>1, <1>2, <1>7
  <2>2. CASE j = Len(w) + 1
    BY SMTT(30), <1>1, <1>2, <1>7, <2>1, <2>2
  <2>3. CASE j # Len(w) + 1
    <3>1. j \in 1..Len(w) /\ l \in 1..Len(p) /\ w[j] = p[l]
      BY <1>1, <1>2, <1>7, <2>3
    <3> QED BY <1>7, <2>1, <3>1 DEF InOrder
  <2> QED BY <2>2, <2>3
<1> QED BY <1>4, <1>5, <1>6, <1>7 DEF InOrder, w2, p2

LEMMA SilentKeepsOrder ==
  ASSUME NEW w \in Seq(Call), NEW p \in Seq(Call), NEW a \in Nat, InOrder(w, p, a),
         NEW c \in Call, c \notin Elems(w), c \notin Elems(p)
  PROVE  InOrder(Append(w, c), p, a)
<1> DEFINE w2 == Append(w, c)
<1>1. /\ Len(w2) = Len(w) + 1 /\ w2[Len(w) + 1] = c /\ Len(w) \in Nat
      /\ \A i \in 1..Len(w) : w2[i] = w[i] /\ w[i] # c
  BY SMTT(30), SeqAppend, SeqLen DEF Elems
<1>2. Len(p) \in Nat /\ \A i \in 1..Len(p) : p[i] # c
  BY SeqLen DEF Elems
<1>3. Elems(w2) = Elems(w) \cup {c}
  BY SMTT(30), ElemsAppend
<1> HIDE DEF w2
<1>4. \A i, j \in 1..Len(w2) : w2[i] = w2[j] => i = j
  BY SMTT(30), <1>1 DEF InOrder
<1>5. \A i \in 1..Len(p) : i <= a <=> p[i] \notin Elems(w2)
  BY <1>2, <1>3 DEF InOrder
<1>6. ASSUME NEW i \in 1..Len(w2), NEW j \in 1..Len(w2), NEW k \in 1..Len(p),
             NEW l \in 1..Len(p), i < j, w2[i] = p[k], w2[j] = p[l]
      PROVE  k < l
  <2>1. i \in 1..Len(w) /\ j \in 1..Len(w) /\ w[i] = p[k] /\ w[j] = p[l]
    BY <1>1, <1>2, <1>6
  <2> QED BY <1>6, <2>1 DEF InOrder
<1> QED BY <1>4, <1>5, <1>6 DEF InOrder, w2

LEMMA ExecuteKeepsOrder ==
  ASSUME NEW w \in Seq(Call), NEW p \in Seq(Call), NEW a \in Nat, InOrder(w, p, a), w # <<>>
  PROVE  /\ Head(w) \in Elems(p) =>
              /\ a + 1 \in 1..Len(p) /\ p[a + 1] = Head(w)
              /\ InOrder(Tail(w), p, a + 1)
         /\ Head(w) \notin Elems(p) => InOrder(Tail(w), p, a)
<1> DEFINE w2 == Tail(w)
           c == Head(w)
<1>1. /\ Len(w2) = Len(w) - 1 /\ \A i \in 1..Len(w2) : w2[i] = w[i + 1]
      /\ Len(w) \in Nat /\ Len(w) # 0 /\ c = w[1]
  BY SMTT(30), SeqTail, SeqLen, SeqEmpty
<1>2. Elems(w) = Elems(w2) \cup {c}
  BY ElemsTail
<1>3. Len(p) \in Nat
  BY SeqLen
<1> HIDE DEF w2, c
<1>4. c \notin Elems(w2)
  BY SMTT(30), <1>1 DEF Elems, InOrder
<1>5. \A i, j \in 1..Len(w2) : w2[i] = w2[j] => i = j
  BY SMTT(30), <1>1 DEF InOrder
<1>6. \A i, j \in 1..Len(w2), k, l \in 1..Len(p) :
        i < j /\ w2[i] = p[k] /\ w2[j] = p[l] => k < l
  BY SMTT(30), <1>1 DEF InOrder
<1>7. ASSUME c \in Elems(p) PROVE a + 1 \in 1..Len(p) /\ p[a + 1] = c
  <2>1. PICK k \in 1..Len(p) : p[k] = c
    BY <1>7 DEF Elems
  <2>2. k > a
    BY SMTT(30), <1>2, <2>1 DEF InOrder
  <2>3. a + 1 \in 1..Len(p)
    BY <1>3, <2>2
  <2>4. PICK j \in 1..Len(w) : w[j] = p[a + 1]
    BY SMTT(30), <2>3 DEF InOrder, Elems
  <2>5. j # 1 => k < a + 1
    BY SMTT(30), <1>1, <2>1, <2>3, <2>4 DEF InOrder
  <2> QED BY SMTT(30), <1>1, <2>2, <2>3, <2>4, <2>5
<1>8. ASSUME c \in Elems(p) PROVE InOrder(w2, p, a + 1)
  <2>1. \A i \in 1..Len(p) : i <= a + 1 <=> p[i] \notin Elems(w2)
    BY SMTT(30), <1>2, <1>3, <1>4, <1>7, <1>8 DEF InOrder
  <2> QED BY SMTT(30), <1>3, <1>5, <1>6, <1>7, <1>8, <2>1 DEF InOrder
<1>9. ASSUME c \notin Elems(p) PROVE InOrder(w2, p, a)
  <2>1. \A i \in 1..Len(p) : p[i] # c
    BY <1>9 DEF Elems
  <2> QED BY <1>2, <1>5, <1>6, <2>1 DEF InOrder
<1> QED BY <1>7, <1>8, <1>9 DEF w2, c

LEMMA CallbackKeepsOrder ==
  ASSUME NEW w \in Seq(Call), NEW p \in Seq(Call), NEW a \in Nat, a # 0, InOrder(w, p, a)
  PROVE  p # <<>> /\ InOrder(w, Tail(p), a - 1) /\ Head(p) \notin Elems(Tail(p))
<1>1. p # <<>> /\ Len(p) \in Nat
  BY SMTT(30), SeqLen, SeqEmpty DEF InOrder
<1> DEFINE p2 == Tail(p)
<1>2. /\ Len(p2) = Len(p) - 1 /\ \A i \in 1..Len(p2) : p2[i] = p[i + 1]
      /\ Head(p) = p[1]
  BY SMTT(30), <1>1, SeqTail
<1>3. Len(p) # 0
  BY SMTT(30) DEF InOrder
<1> HIDE DEF p2
<1>4. p[1] \notin Elems(p2)
  BY SMTT(30), <1>1, <1>2, <1>3 DEF Elems, InOrder
<1>5. \A i \in 1..Len(p2) : i <= a - 1 <=> p2[i] \notin Elems(w)
  BY SMTT(30), <1>1, <1>2 DEF InOrder
<1>6. \A i, j \in 1..Len(w), k, l \in 1..Len(p2) :
        i < j /\ w[i] = p2[k] /\ w[j] = p2[l] => k < l
  <2>1. Len(w) \in Nat
    BY SeqLen
  <2> QED BY SMTT(30), <1>1, <1>2, <2>1 DEF InOrder
<1>7. a - 1 <= Len(p2) /\ \A i, j \in 1..Len(p2) : p2[i] = p2[j] => i = j
  BY SMTT(30), <1>1, <1>2 DEF InOrder
<1>8. InOrder(w, p2, a - 1)
  BY <1>5, <1>6, <1>7 DEF InOrder
<1> QED BY <1>1, <1>2, <1>4, <1>8 DEF p2

LEMMA BreakKeepsOrder ==
  ASSUME NEW w \in Seq(Call), NEW p, NEW a, InOrder(w, p, a), NEW n \in 0..Len(w)
  PROVE  InOrder(SubSeq(w, 1, n), <<>>, 0)
<1>1. Len(w) \in Nat
  BY SeqLen
<1> QED BY SMTT(30), <1>1, ElemsSubSeq DEF InOrder

-----------------------------------------------------------------------------
\* What the steps do to the queues.
LEMMA Concat ==
  ASSUME NEW S, NEW q \in Seq(S), NEW a \in S, NEW b \in S, NEW c \in S
  PROVE  /\ q \o <<>> = q /\ q \o <<a>> = Append(q, a)
         /\ q \o <<a, b>> = Append(Append(q, a), b)
         /\ q \o <<a, b, c>> = Append(Append(Append(q, a), b), c)
<1>1. q \o <<>> = q /\ q \o <<a>> = Append(q, a)
  OBVIOUS
<1>2. q \o <<a, b>> = Append(Append(q, a), b)
  OBVIOUS
<1>3. q \o <<a, b, c>> = Append(Append(Append(q, a), b), c)
  OBVIOUS
<1> QED BY <1>1, <1>2, <1>3

LEMMA CallType ==
  ASSUME TypeOK, NEW r \in Req, NEW op \in Op
  PROVE  /\ C(op, r) \in Call /\ C(op, r).op = op /\ C(op, r).req = r
         /\ C(op, r).index = inputIndex[r]
         /\ op # "initIndexers" => C(op, r) \in Wait
BY DEF TypeOK, C, Call, Wait

LEMMA WaitSeq == ASSUME NEW q \in Seq(Wait) PROVE q \in Seq(Call)
<1>1. Wait \subseteq Call
  BY DEF Wait
<1> QED BY <1>1

\* A request is posted.
PostsJoin(r) ==
  /\ wire' = Append(Append(Append(wire, C("initIndexers", r)), C("getIndexers", r)),
                    C("checkIdMember", r))
  /\ pending' = Append(Append(pending, C("getIndexers", r)), C("checkIdMember", r))

Posts(op, r) == wire' = Append(wire, C(op, r)) /\ pending' = Append(pending, C(op, r))

LEMMA PostCases ==
  ASSUME TypeOK, NEW r \in Req, NEW a \in Ask, Post(r, a)
  PROVE  \/ a.kind = "join" /\ PostsJoin(r)
         \/ a.kind = "idCheck" /\ Posts("checkIdMember", r)
         \/ a.kind = "login" /\ Posts("checkLoginMember", r)
<1>1. a.kind \in Kind /\ wire \in Seq(Call) /\ pending \in Seq(Wait)
  BY DEF Ask, TypeOK
<1>2. \A op \in Op : C(op, r) \in Call /\ (op # "initIndexers" => C(op, r) \in Wait)
  BY CallType
<1>3. /\ C("initIndexers", r) \in Call
      /\ C("getIndexers", r) \in Call /\ C("getIndexers", r) \in Wait
      /\ C("checkIdMember", r) \in Call /\ C("checkIdMember", r) \in Wait
      /\ C("checkLoginMember", r) \in Call /\ C("checkLoginMember", r) \in Wait
  BY <1>2 DEF Op
<1>4. CASE a.kind = "join"
  <2>1. joinMember(r)
    BY <1>4 DEF Post
  <2>2. /\ wire \o <<C("initIndexers", r), C("getIndexers", r), C("checkIdMember", r)>>
           = Append(Append(Append(wire, C("initIndexers", r)), C("getIndexers", r)),
                    C("checkIdMember", r))
        /\ pending \o <<C("getIndexers", r), C("checkIdMember", r)>>
           = Append(Append(pending, C("getIndexers", r)), C("checkIdMember", r))
    BY SMTT(30), <1>1, <1>3, Concat
  <2> QED BY <1>4, <2>1, <2>2 DEF joinMember, PostsJoin
<1>5. CASE a.kind = "idCheck"
  <2>1. idCheckMember(r)
    BY <1>5 DEF Post
  <2> QED BY SMTT(30), <1>1, <1>3, <1>5, <2>1, Concat DEF idCheckMember, Sent, Posts
<1>6. CASE a.kind = "login"
  <2>1. loginMember(r)
    BY <1>6 DEF Post
  <2> QED BY SMTT(30), <1>1, <1>3, <1>6, <2>1, Concat DEF loginMember, Sent, Posts
<1> QED BY <1>1, <1>4, <1>5, <1>6 DEF Kind

\* The callback of a query: it sends a second command, or tells the browser.
Asks(op, c, rest) == wire' = Append(wire, C(op, c.req)) /\ pending' = Append(rest, C(op, c.req))
Rests(rest)       == wire' = wire /\ pending' = rest

Inserts(c, rest) ==
  /\ c.op = "checkIdMember" /\ ask[c.req].kind = "join" /\ Asks("insertMember", c, rest)
  /\ answer' = [answer EXCEPT ![c.req] = TRUE] /\ known' = known \cup {Credentials(c.req)}

AsksIndex(c, found, rest) ==
  /\ c.op = "checkLoginMember" /\ found /\ Asks("getIndexMember", c, rest)
  /\ UNCHANGED <<answer, known>>

Tells(c, found, rest) ==
  /\ Rests(rest) /\ UNCHANGED known
  /\ \E b \in BOOLEAN : /\ answer' = [answer EXCEPT ![c.req] = b]
                        /\ c.op = "checkLoginMember" => ~found
                        /\ c.op = "getIndexMember" => b

TellsNobody(c, found, rest) ==
  c.op = "getIndexMember" /\ ~found /\ Rests(rest) /\ UNCHANGED <<answer, known>>

LEMMA AnswerCases ==
  ASSUME TypeOK, NEW c \in Wait, c.op \notin {"getIndexers", "insertMember"},
         NEW found \in BOOLEAN, NEW rest \in Seq(Wait), OnAnswer(c, found, rest)
  PROVE  /\ inputIndex' = inputIndex
         /\ \/ Inserts(c, rest) \/ AsksIndex(c, found, rest)
            \/ Tells(c, found, rest) \/ TellsNobody(c, found, rest)
<1>1. c.op \in {"checkIdMember", "checkLoginMember", "getIndexMember"} /\ c.req \in Req
  BY DEF Wait, Call, Op
<1>2. /\ C("insertMember", c.req) \in Call /\ C("insertMember", c.req) \in Wait
      /\ C("getIndexMember", c.req) \in Call /\ C("getIndexMember", c.req) \in Wait
  BY <1>1, CallType DEF Op
<1>3. wire \in Seq(Call)
  BY DEF TypeOK
<1>4. /\ wire \o <<>> = wire /\ rest \o <<>> = rest
      /\ \A op \in {"insertMember", "getIndexMember"} :
           /\ wire \o <<C(op, c.req)>> = Append(wire, C(op, c.req))
           /\ rest \o <<C(op, c.req)>> = Append(rest, C(op, c.req))
  BY SMTT(30), <1>2, <1>3, Concat
<1>5. CASE c.op = "checkIdMember"
  <2>1. OnId(c.req, found, rest)
    BY <1>5 DEF OnAnswer
  <2>2. CASE ask[c.req].kind = "join" /\ ~Taken(ask[c.req].email, found)
    <3>1. JoinInserts(c.req, rest)
      BY <2>1, <2>2 DEF OnId
    <3> QED BY <1>4, <1>5, <2>2, <3>1 DEF JoinInserts, Sent, Answer, Inserts, Asks, OnAnswer
  <2>3. CASE ~(ask[c.req].kind = "join" /\ ~Taken(ask[c.req].email, found))
    <3> DEFINE b == ask[c.req].kind = "idCheck" /\ Taken(ask[c.req].email, found)
    <3>1. Answer(c.req, b) /\ Sent(rest, <<>>) /\ UNCHANGED known /\ b \in BOOLEAN
      BY <2>1, <2>3 DEF OnId
    <3> HIDE DEF b
    <3> QED BY <1>4, <1>5, <3>1 DEF Sent, Answer, Tells, Rests, OnAnswer
  <2> QED BY <2>2, <2>3
<1>6. CASE c.op = "checkLoginMember"
  <2>1. OnLogin(c.req, found, rest)
    BY <1>6 DEF OnAnswer
  <2> QED
    BY <1>4, <1>6, <2>1 DEF OnLogin, Sent, Answer, AsksIndex, Asks, Tells, Rests, OnAnswer
<1>7. CASE c.op = "getIndexMember"
  <2>1. OnIndex(c.req, found, rest)
    BY <1>7 DEF OnAnswer
  <2> QED
    BY <1>4, <1>7, <2>1 DEF OnIndex, Sent, Answer, Tells, TellsNobody, Rests, OnAnswer
<1> QED BY <1>1, <1>5, <1>6, <1>7

-----------------------------------------------------------------------------
\* A callback runs: with an answer, at the head of pending, or with the error of a
\* lost connection, at the head of failing.
Outcome(c, found, rest) ==
  \/ Inserts(c, rest) \/ AsksIndex(c, found, rest)
  \/ Tells(c, found, rest) \/ TellsNobody(c, found, rest)

Counts(c, seq, rest) ==
  /\ c.op = "getIndexers" /\ seq # None /\ inputIndex' = [inputIndex EXCEPT ![c.req] = seq]
  /\ Rests(rest) /\ UNCHANGED <<answer, known>>

Inserted(c, rest) ==
  c.op = "insertMember" /\ Rests(rest) /\ UNCHANGED <<inputIndex, answer, known>>

Queries(c, found, rest) ==
  /\ c.op \notin {"getIndexers", "insertMember"}
  /\ inputIndex' = inputIndex /\ Outcome(c, found, rest)

LEMMA ElemsType ==
  ASSUME TypeOK
  PROVE  /\ Elems(wire) \subseteq Call /\ Elems(pending) \subseteq Wait
         /\ Elems(failing) \subseteq Wait /\ Wait \subseteq Call
         /\ pending \in Seq(Call) /\ Len(answers) \in Nat
<1>1. \A q \in Seq(Call) : \A i \in 1..Len(q) : q[i] \in Call
  BY SeqLen
<1>2. \A q \in Seq(Wait) : \A i \in 1..Len(q) : q[i] \in Wait
  BY SeqLen
<1>3. Len(answers) \in Nat
  BY SeqLen DEF TypeOK
<1> QED BY SMTT(30), <1>1, <1>2, <1>3, WaitSeq DEF TypeOK, Elems, Wait

LEMMA CallbackFacts ==
  ASSUME TypeOK, QueueInv, Callback
  PROVE  /\ pending # <<>> /\ Head(pending) \in Wait /\ Tail(pending) \in Seq(Wait)
         /\ Elems(pending) = Elems(Tail(pending)) \cup {Head(pending)}
         /\ Head(pending) \notin Elems(Tail(pending))
         /\ ask[Head(pending).req] \in Ask /\ failing = <<>>
         /\ Head(answers) = answers[1] /\ 1 \in 1..Len(answers)
         /\ Head(answers).seq \in Nat \cup {None} /\ Head(answers).found \in BOOLEAN
         /\ answers' \in Seq([seq: Nat \cup {None}, found: BOOLEAN])
         /\ Len(answers') = Len(answers) - 1 /\ Len(answers) \in Nat
         /\ \A i \in 1..Len(answers') : answers'[i] = answers[i + 1]
         /\ InOrder(wire, Tail(pending), Len(answers'))
         /\ \/ Counts(Head(pending), Head(answers).seq, Tail(pending))
            \/ Inserted(Head(pending), Tail(pending))
            \/ Queries(Head(pending), Head(answers).found, Tail(pending))
<1> DEFINE A == [seq: Nat \cup {None}, found: BOOLEAN]
<1>1. answers \in Seq(A) /\ answers # <<>> /\ answers' = Tail(answers)
  BY DEF TypeOK, Callback
<1>2. /\ Head(answers) \in A /\ Tail(answers) \in Seq(A) /\ Head(answers) = answers[1]
      /\ Len(Tail(answers)) = Len(answers) - 1 /\ Len(answers) \in Nat \ {0}
      /\ \A i \in 1..Len(Tail(answers)) : Tail(answers)[i] = answers[i + 1]
  <2> HIDE DEF A
  <2> QED BY SMTT(30), <1>1, SeqTail, SeqEmpty
<1>3. /\ wire \in Seq(Call) /\ pending \in Seq(Wait) /\ pending \in Seq(Call)
      /\ InOrder(wire, pending, Len(answers))
  BY ElemsType DEF TypeOK, QueueInv
<1>4. /\ pending # <<>> /\ InOrder(wire, Tail(pending), Len(answers) - 1)
      /\ Head(pending) \notin Elems(Tail(pending))
  BY <1>2, <1>3, CallbackKeepsOrder
<1>5. /\ Head(pending) \in Wait /\ Tail(pending) \in Seq(Wait)
      /\ Elems(pending) = Elems(Tail(pending)) \cup {Head(pending)}
  BY <1>3, <1>4, SeqTail, ElemsTail
<1>6. ask[Head(pending).req] \in Ask
  <2>1. ask[Head(pending).req] # None
    BY <1>5 DEF QueueInv, Once
  <2> QED BY <1>5, <2>1 DEF TypeOK, Wait, Call
<1>7. wire \o <<>> = wire /\ Tail(pending) \o <<>> = Tail(pending)
  BY <1>3, <1>5
<1>8. \/ Counts(Head(pending), Head(answers).seq, Tail(pending))
      \/ Inserted(Head(pending), Tail(pending))
      \/ Queries(Head(pending), Head(answers).found, Tail(pending))
  <2>1. CASE Head(pending).op = "getIndexers"
    BY <1>7, <2>1 DEF Callback, Sent, Counts, Rests
  <2>2. CASE Head(pending).op = "insertMember"
    BY <1>7, <2>2 DEF Callback, Sent, Inserted, Rests
  <2>3. CASE Head(pending).op \notin {"getIndexers", "insertMember"}
    <3>1. OnAnswer(Head(pending), Head(answers).found, Tail(pending))
      BY <2>3 DEF Callback
    <3>2. Head(answers).found \in BOOLEAN
      BY <1>2
    <3> QED BY <1>5, <2>3, <3>1, <3>2, AnswerCases DEF Queries, Outcome
  <2> QED BY <2>1, <2>2, <2>3
<1>9. failing = <<>>
  BY DEF Callback
<1> QED BY SMTT(30), <1>1, <1>2, <1>4, <1>5, <1>6, <1>8, <1>9

LEMMA CallbackHead ==
  ASSUME TypeOK, QueueInv, Callback
  PROVE  /\ Head(pending) = pending[1] /\ Head(answers) = answers[1] /\ 1 \in 1..Len(answers)
         /\ Head(pending).req \in Req
         /\ \/ Counts(Head(pending), Head(answers).seq, Tail(pending))
            \/ Inserted(Head(pending), Tail(pending))
            \/ Queries(Head(pending), Head(answers).found, Tail(pending))
<1>1. Head(pending).req \in Req
  BY CallbackFacts DEF Wait, Call
<1>2. Head(pending) = pending[1]
  BY SMTT(30), CallbackFacts DEF TypeOK
<1> QED BY <1>1, <1>2, CallbackFacts

\* An answered call is pending, and no pending call is of a request to come.
LEMMA AnswersPending ==
  ASSUME TypeOK, QueueInv
  PROVE  \A j \in 1..Len(answers) : j \in 1..Len(pending)
<1>1. Len(answers) <= Len(pending)
  BY DEF QueueInv, InOrder
<1>2. Len(answers) \in Nat /\ Len(pending) \in Nat
  BY SeqLen DEF TypeOK
<1> QED BY SMTT(30), <1>1, <1>2

LEMMA PendingAsked ==
  ASSUME TypeOK, QueueInv, NEW r \in Req, ask[r] = None
  PROVE  \A c \in Elems(pending) : c.req \in Req /\ c.req # r
<1> SUFFICES ASSUME NEW c \in Elems(pending) PROVE c.req \in Req /\ c.req # r
  OBVIOUS
<1>1. Once(ask, Elems(wire), Elems(pending), Elems(failing))
  BY DEF QueueInv
<1>2. c \in Call /\ ask[c.req] # None
  BY <1>1 DEF Once
<1> QED BY <1>2 DEF Call

LEMMA FailFacts ==
  ASSUME TypeOK, QueueInv, FailFind
  PROVE  /\ failing # <<>> /\ Head(failing) \in Wait /\ Tail(failing) \in Seq(Wait)
         /\ Elems(failing) = Elems(Tail(failing)) \cup {Head(failing)}
         /\ Head(failing) \notin Elems(Tail(failing))
         /\ ask[Head(failing).req] \in Ask /\ failing' = Tail(failing)
         /\ Queries(Head(failing), FALSE, pending)
<1>1. failing \in Seq(Wait) /\ failing # <<>> /\ failing' = Tail(failing)
  BY DEF TypeOK, FailFind
<1>2. /\ Head(failing) \in Wait /\ Tail(failing) \in Seq(Wait) /\ Head(failing) = failing[1]
      /\ Elems(failing) = Elems(Tail(failing)) \cup {Head(failing)}
      /\ Len(Tail(failing)) = Len(failing) - 1 /\ Len(failing) \in Nat \ {0}
      /\ \A i \in 1..Len(Tail(failing)) : Tail(failing)[i] = failing[i + 1]
  BY <1>1, SeqTail, ElemsTail, SeqEmpty
<1>3. Head(failing) \notin Elems(Tail(failing))
  BY SMTT(30), <1>2 DEF Elems, QueueInv
<1>4. ask[Head(failing).req] \in Ask
  <2>1. ask[Head(failing).req] # None
    BY <1>2 DEF QueueInv, Once
  <2> QED BY <1>2, <2>1 DEF TypeOK, Wait, Call
<1>5. Queries(Head(failing), FALSE, pending)
  <2>1. /\ OnAnswer(Head(failing), FALSE, pending)
        /\ Head(failing).op \notin {"getIndexers", "insertMember"}
    BY DEF FailFind
  <2>2. pending \in Seq(Wait)
    BY DEF TypeOK
  <2> QED BY <1>2, <2>1, <2>2, AnswerCases DEF Queries, Outcome
<1> QED BY <1>1, <1>2, <1>3, <1>4, <1>5

\* MongoDB executes a command; the answer belongs to the oldest call without one.
LEMMA ExecuteFacts ==
  ASSUME TypeOK, QueueInv, Execute
  PROVE  /\ wire # <<>> /\ Head(wire) \in Call /\ Head(wire) = wire[1]
         /\ wire' \in Seq(Call) /\ Len(wire') = Len(wire) - 1 /\ Len(wire) \in Nat \ {0}
         /\ \A i \in 1..Len(wire') : wire'[i] = wire[i + 1]
         /\ Elems(wire) = Elems(wire') \cup {Head(wire)}
         /\ ask[Head(wire).req] \in Ask
         /\ InOrder(wire', pending, Len(answers'))
         /\ answers' \in Seq([seq: Nat \cup {None}, found: BOOLEAN])
         /\ \/ answers' = answers
            \/ /\ answers' = Append(answers, Result(Head(wire)))
               /\ Len(answers) + 1 \in 1..Len(pending)
               /\ pending[Len(answers) + 1] = Head(wire)
<1> DEFINE A == [seq: Nat \cup {None}, found: BOOLEAN]
           c == Head(wire)
<1>1. wire \in Seq(Call) /\ wire # <<>> /\ wire' = Tail(wire)
  BY DEF TypeOK, Execute
<1>2. /\ c \in Call /\ c = wire[1] /\ Tail(wire) \in Seq(Call)
      /\ Len(Tail(wire)) = Len(wire) - 1 /\ Len(wire) \in Nat \ {0}
      /\ \A i \in 1..Len(Tail(wire)) : Tail(wire)[i] = wire[i + 1]
      /\ Elems(wire) = Elems(Tail(wire)) \cup {c}
  BY <1>1, SeqTail, ElemsTail, SeqEmpty
<1>3. ask[c.req] \in Ask
  <2>1. ask[c.req] # None
    BY <1>2 DEF QueueInv, Once
  <2> QED BY <1>2, <2>1 DEF TypeOK, Call
<1>4. Result(c) \in A
  <2>1. getIndexers \in Nat \cup {None}
    BY SMTT(30) DEF getIndexers, TypeOK
  <2> QED BY <2>1 DEF Result, FoundLogin, Found
<1>5. answers' = IF c \in Elems(pending) THEN Append(answers, Result(c)) ELSE answers
  BY DEF Execute
<1>6. answers \in Seq(A) /\ Len(answers) \in Nat
  BY ElemsType DEF TypeOK
<1>7. /\ Append(answers, Result(c)) \in Seq(A)
      /\ Len(Append(answers, Result(c))) = Len(answers) + 1
  <2> HIDE DEF A
  <2> QED BY <1>4, <1>6, SeqAppend
<1>8. InOrder(wire, pending, Len(answers)) /\ pending \in Seq(Call)
  BY ElemsType DEF QueueInv
<1>9. /\ c \in Elems(pending) => /\ Len(answers) + 1 \in 1..Len(pending)
                                 /\ pending[Len(answers) + 1] = c
                                 /\ InOrder(Tail(wire), pending, Len(answers) + 1)
      /\ c \notin Elems(pending) => InOrder(Tail(wire), pending, Len(answers))
  BY <1>1, <1>6, <1>8, ExecuteKeepsOrder
<1> HIDE DEF c
<1>10. InOrder(wire', pending, Len(answers'))
  BY <1>1, <1>5, <1>7, <1>9
<1> QED BY <1>1, <1>2, <1>3, <1>5, <1>6, <1>7, <1>9, <1>10 DEF c

-----------------------------------------------------------------------------
\* Each command once: when calls go, when a callback sends the second command of
\* its request, and when a request is posted.
Second(op, c) ==
  \/ op = "insertMember" /\ c.op = "checkIdMember" /\ ask[c.req].kind = "join"
  \/ op = "getIndexMember" /\ c.op = "checkLoginMember"

LEMMA OnceSecond ==
  ASSUME TypeOK, NEW W, NEW P, NEW F, NEW c, Once(ask, W, P \cup {c}, F), c \notin P, c \notin F,
         NEW op \in Op, Second(op, c), NEW n, n = C(op, c.req)
  PROVE  n \notin W /\ n \notin P /\ Once(ask, W \cup {n}, P \cup {n}, F)
<1>1. c.req \in Req /\ c \in Call
  BY DEF Once, Call
<1>2. n \in Call /\ n.op = op /\ n.req = c.req
  BY <1>1, CallType
<1>3. ask[c.req] # None /\ c.op \in OpsOf(ask[c.req].kind) /\ ask[c.req].kind \in Kind
  BY <1>1 DEF Once, TypeOK, Ask
<1>4. op \in OpsOf(ask[c.req].kind)
  BY <1>3 DEF OpsOf, Kind, Second
<1>5. \A d \in W \cup P \cup F : ~(d.op = op /\ d.req = c.req)
  BY DEF Once, Second
<1>6. n \notin W \cup P \cup F
  BY <1>2, <1>5
<1>7. \A d \in W \cup {n} \cup P \cup F :
        d \in Call /\ ask[d.req] # None /\ d.op \in OpsOf(ask[d.req].kind)
  BY <1>2, <1>3, <1>4 DEF Once
<1>8. \A d, e \in W \cup {n} \cup P \cup F : d.op = e.op /\ d.req = e.req => d = e
  BY SMTT(30), <1>2, <1>5 DEF Once
<1>9. \A e \in P \cup F : e.op = c.op /\ e.req = c.req => FALSE
  BY DEF Once
<1>10. \A d \in W \cup {n} \cup P \cup F, e \in P \cup {n} \cup F : d.req = e.req =>
         /\ ~(d.op = "insertMember" /\ e.op = "checkIdMember")
         /\ ~(d.op = "getIndexMember" /\ e.op = "checkLoginMember")
  BY SMTT(30), <1>2, <1>9 DEF Once, Second
<1>11. (P \cup {n}) \cap F = {}
  BY <1>6 DEF Once
<1>12. Once(ask, W \cup {n}, P \cup {n}, F)
  BY SMTT(30), <1>7, <1>8, <1>10, <1>11 DEF Once
<1> QED BY <1>6, <1>12

FirstCalls(r, kind, N, M) ==
  /\ M \subseteq N
  /\ \A c \in N : /\ c \in Call /\ c.req = r /\ c.op \in OpsOf(kind)
                  /\ c.op \notin {"insertMember", "getIndexMember"}
  /\ \A c, d \in N : c.op = d.op => c = d

LEMMA OncePost ==
  ASSUME TypeOK, NEW r \in Req, NEW a \in Ask, Post(r, a),
         NEW W, NEW P, NEW F, Once(ask, W, P, F), NEW N, NEW M, FirstCalls(r, a.kind, N, M)
  PROVE  Once(ask', W \cup N, P \cup M, F)
<1>1. \A c \in W \cup P \cup F : c.req # r /\ c.req \in Req
  BY DEF Once, Call, Post
<1>0. M \subseteq N /\ \A c \in N : c.req = r /\ c \in Call /\ c.op \in OpsOf(a.kind)
  BY DEF FirstCalls
<1>2. ask'[r] = a /\ a # None /\ \A x \in Req : x # r => ask'[x] = ask[x]
  BY AskAssumption DEF TypeOK, Post
<1>3. \A c \in W \cup N \cup P \cup M \cup F :
        c \in Call /\ ask'[c.req] # None /\ c.op \in OpsOf(ask'[c.req].kind)
  BY <1>0, <1>1, <1>2 DEF Once
<1>4. \A c, d \in W \cup N \cup P \cup M \cup F : c.op = d.op /\ c.req = d.req => c = d
  BY <1>0, <1>1 DEF Once, FirstCalls
<1>5. \A c \in W \cup N \cup P \cup M \cup F, d \in P \cup M \cup F : c.req = d.req =>
        /\ ~(c.op = "insertMember" /\ d.op = "checkIdMember")
        /\ ~(c.op = "getIndexMember" /\ d.op = "checkLoginMember")
  BY <1>0, <1>1 DEF Once, FirstCalls
<1>6. (P \cup M) \cap F = {}
  BY <1>0, <1>1 DEF Once, FirstCalls
<1> QED BY <1>0, <1>1, <1>3, <1>4, <1>5, <1>6 DEF Once

-----------------------------------------------------------------------------
\* A posted request: its calls are new, and behind all others.
LEMMA PostFacts ==
  ASSUME TypeOK, QueueInv, NEW r \in Req, NEW a \in Ask, Post(r, a)
  PROVE  /\ wire' \in Seq(Call) /\ pending' \in Seq(Wait)
         /\ InOrder(wire', pending', Len(answers))
         /\ Once(ask', Elems(wire'), Elems(pending'), Elems(failing))
<1> DEFINE i == C("initIndexers", r)
           g == C("getIndexers", r)
           k == C("checkIdMember", r)
           l == C("checkLoginMember", r)
           W == Elems(wire)
           P == Elems(pending)
           F == Elems(failing)
<1>1. /\ wire \in Seq(Call) /\ pending \in Seq(Wait) /\ pending \in Seq(Call)
      /\ Len(answers) \in Nat /\ InOrder(wire, pending, Len(answers))
      /\ Once(ask, W, P, F)
  BY ElemsType DEF TypeOK, QueueInv
<1>0. \A c \in W \cup P : c.req # r
  BY <1>1 DEF Once, Post
<1>2. /\ i \in Call /\ i.op = "initIndexers" /\ i.req = r
      /\ g \in Call /\ g \in Wait /\ g.op = "getIndexers" /\ g.req = r
      /\ k \in Call /\ k \in Wait /\ k.op = "checkIdMember" /\ k.req = r
      /\ l \in Call /\ l \in Wait /\ l.op = "checkLoginMember" /\ l.req = r
  BY SMTT(30), CallType DEF Op
<1> HIDE DEF i, g, k, l, F
<1>3. CASE a.kind = "join" /\ PostsJoin(r)
  <2> DEFINE wi == Append(wire, i)
             wg == Append(wi, g)
             pg == Append(pending, g)
             J == {i, g, k}
             G == {g, k}
  <2>1. wire' = Append(wg, k) /\ pending' = Append(pg, k)
    BY <1>3 DEF PostsJoin, i, g, k
  <2>2. /\ wi \in Seq(Call) /\ Elems(wi) = W \cup {i}
        /\ pg \in Seq(Wait) /\ Elems(pg) = P \cup {g}
    BY SMTT(30), <1>1, <1>2, SeqAppend, ElemsAppend
  <2>3. wg \in Seq(Call) /\ Elems(wg) = W \cup {i, g} /\ pg \in Seq(Call)
    <3> HIDE DEF wi, pg
    <3> QED BY SMTT(30), <1>2, <2>2, SeqAppend, ElemsAppend, WaitSeq
  <2> HIDE DEF wg, pg
  <2>4. /\ wire' \in Seq(Call) /\ pending' \in Seq(Wait)
        /\ Elems(wire') = W \cup J /\ Elems(pending') = P \cup G
    <3>1. Elems(wire') = Elems(wg) \cup {k} /\ Elems(pending') = Elems(pg) \cup {k}
      BY SMTT(30), <1>2, <2>1, <2>2, <2>3, ElemsAppend
    <3> QED BY <1>2, <2>1, <2>2, <2>3, <3>1, SeqAppend
  <2>6. FirstCalls(r, a.kind, J, G)
    BY <1>2, <1>3 DEF OpsOf, FirstCalls
  <2>7. Once(ask', W \cup J, P \cup G, F)
    <3> HIDE DEF J, G, W, P
    <3> QED BY <1>1, <2>6, OncePost
  <2>8. InOrder(wi, pending, Len(answers))
    BY <1>0, <1>1, <1>2, SilentKeepsOrder
  <2>9. InOrder(wg, pg, Len(answers))
    <3>1. g \notin Elems(wi) /\ g \notin P
      BY <1>0, <1>2, <2>2
    <3> HIDE DEF wi
    <3> QED BY <1>1, <1>2, <2>2, <2>8, <3>1, SendKeepsOrder DEF wg, pg
  <2>10. InOrder(wire', pending', Len(answers))
    <3>1. k \notin Elems(wg) /\ k \notin Elems(pg)
      BY <1>0, <1>2, <2>2, <2>3
    <3> QED BY <1>1, <1>2, <2>1, <2>3, <2>9, <3>1, SendKeepsOrder
  <2> QED BY <2>4, <2>7, <2>10 DEF F
<1>4. CASE a.kind = "idCheck" /\ Posts("checkIdMember", r)
  <2>1. wire' = Append(wire, k) /\ pending' = Append(pending, k)
    BY <1>4 DEF Posts, k
  <2>2. /\ wire' \in Seq(Call) /\ pending' \in Seq(Wait)
        /\ Elems(wire') = W \cup {k} /\ Elems(pending') = P \cup {k}
    BY SMTT(30), <1>1, <1>2, <2>1, SeqAppend, ElemsAppend
  <2>3. FirstCalls(r, a.kind, {k}, {k})
    BY <1>2, <1>4 DEF OpsOf, FirstCalls
  <2>5. Once(ask', W \cup {k}, P \cup {k}, F)
    <3> HIDE DEF W, P
    <3> QED BY <1>1, <2>3, OncePost
  <2>6. InOrder(wire', pending', Len(answers))
    BY <1>0, <1>1, <1>2, <2>1, SendKeepsOrder
  <2> QED BY <2>2, <2>5, <2>6 DEF F
<1>5. CASE a.kind = "login" /\ Posts("checkLoginMember", r)
  <2>1. wire' = Append(wire, l) /\ pending' = Append(pending, l)
    BY <1>5 DEF Posts, l
  <2>2. /\ wire' \in Seq(Call) /\ pending' \in Seq(Wait)
        /\ Elems(wire') = W \cup {l} /\ Elems(pending') = P \cup {l}
    BY SMTT(30), <1>1, <1>2, <2>1, SeqAppend, ElemsAppend
  <2>3. FirstCalls(r, a.kind, {l}, {l})
    BY <1>2, <1>5 DEF OpsOf, FirstCalls
  <2>5. Once(ask', W \cup {l}, P \cup {l}, F)
    <3> HIDE DEF W, P
    <3> QED BY <1>1, <2>3, OncePost
  <2>6. InOrder(wire', pending', Len(answers))
    BY <1>0, <1>1, <1>2, <2>1, SendKeepsOrder
  <2> QED BY <2>2, <2>5, <2>6 DEF F
<1> QED BY <1>3, <1>4, <1>5, PostCases

\* A callback that sends a second command.
LEMMA SecondFacts ==
  ASSUME TypeOK, NEW c, NEW op \in Op, Second(op, c), NEW rest \in Seq(Wait), NEW F,
         Once(ask, Elems(wire), Elems(rest) \cup {c}, F), c \notin Elems(rest), c \notin F,
         NEW m \in Nat, InOrder(wire, rest, m), Asks(op, c, rest)
  PROVE  /\ wire' \in Seq(Call) /\ pending' \in Seq(Wait)
         /\ InOrder(wire', pending', m)
         /\ Once(ask, Elems(wire'), Elems(pending'), F)
         /\ Elems(wire') = Elems(wire) \cup {C(op, c.req)}
         /\ Elems(pending') = Elems(rest) \cup {C(op, c.req)}
<1> DEFINE n == C(op, c.req)
<1>1. wire' = Append(wire, n) /\ pending' = Append(rest, n) /\ wire \in Seq(Call)
  BY DEF Asks, TypeOK
<1>2. c.req \in Req /\ op # "initIndexers"
  BY SMTT(30) DEF Once, Call, Second
<1>3. n \in Call /\ n \in Wait
  BY <1>2, CallType
<1>4. n = C(op, c.req)
  OBVIOUS
<1> HIDE DEF n
<1>5. /\ n \notin Elems(wire) /\ n \notin Elems(rest)
      /\ Once(ask, Elems(wire) \cup {n}, Elems(rest) \cup {n}, F)
  <2> DEFINE W == Elems(wire)
             P == Elems(rest)
  <2>1. Once(ask, W, P \cup {c}, F) /\ c \notin P /\ c \notin F
    OBVIOUS
  <2> HIDE DEF W, P
  <2>2. n \notin W /\ n \notin P /\ Once(ask, W \cup {n}, P \cup {n}, F)
    BY ONLY TypeOK, <1>4, <2>1, op \in Op, Second(op, c), OnceSecond
  <2> QED BY <2>2 DEF W, P
<1>6. /\ wire' \in Seq(Call) /\ pending' \in Seq(Wait)
      /\ Elems(wire') = Elems(wire) \cup {n} /\ Elems(pending') = Elems(rest) \cup {n}
  BY SMTT(30), <1>1, <1>3, SeqAppend, ElemsAppend
<1>7. rest \in Seq(Call)
  BY WaitSeq
<1>8. InOrder(wire', pending', m)
  BY <1>1, <1>3, <1>5, <1>7, SendKeepsOrder
<1> QED BY <1>4, <1>5, <1>6, <1>8

LEMMA CallbackQueue ==
  ASSUME TypeOK, QueueInv, Callback
  PROVE  /\ wire' \in Seq(Call) /\ pending' \in Seq(Wait)
         /\ InOrder(wire', pending', Len(answers'))
         /\ Once(ask, Elems(wire'), Elems(pending'), Elems(failing))
<1> DEFINE c == Head(pending)
           rest == Tail(pending)
           F == Elems(failing)
<1>1. /\ rest \in Seq(Wait) /\ Elems(pending) = Elems(rest) \cup {c} /\ c \notin Elems(rest)
      /\ Len(answers') \in Nat /\ InOrder(wire, rest, Len(answers'))
      /\ failing = <<>> /\ wire \in Seq(Call) /\ Once(ask, Elems(wire), Elems(pending), F)
  <2>1. Len(answers') \in Nat
    BY SMTT(30), CallbackFacts
  <2>2. wire \in Seq(Call) /\ Once(ask, Elems(wire), Elems(pending), F)
    BY DEF TypeOK, QueueInv
  <2> QED BY <2>1, <2>2, CallbackFacts
<1>2. \/ Rests(rest)
      \/ \E op \in Op : Second(op, c) /\ Asks(op, c, rest)
  <2>1. \/ Counts(c, Head(answers).seq, rest) \/ Inserted(c, rest)
        \/ Queries(c, Head(answers).found, rest)
    BY CallbackFacts
  <2> QED BY <2>1 DEF Counts, Inserted, Queries, Outcome, Inserts, AsksIndex, Tells,
                      TellsNobody, Second, Op
<1>3. F = {}
  BY <1>1, ElemsEmpty
<1> HIDE DEF c, rest, F
<1>4. CASE Rests(rest)
  <2>1. Elems(rest) \subseteq Elems(pending)
    BY <1>1
  <2>2. Once(ask, Elems(wire), Elems(rest), F)
    BY <1>1, <2>1 DEF Once
  <2> QED BY <1>1, <1>4, <2>2 DEF Rests, F
<1>5. ASSUME NEW op \in Op, Second(op, c), Asks(op, c, rest)
      PROVE  /\ wire' \in Seq(Call) /\ pending' \in Seq(Wait)
             /\ InOrder(wire', pending', Len(answers'))
             /\ Once(ask, Elems(wire'), Elems(pending'), F)
  <2>1. c \notin F /\ Once(ask, Elems(wire), Elems(rest) \cup {c}, F)
    BY <1>1, <1>3
  <2> QED BY <1>1, <1>5, <2>1, SecondFacts
<1> QED BY <1>2, <1>4, <1>5 DEF F

LEMMA FailQueue ==
  ASSUME TypeOK, QueueInv, FailFind
  PROVE  /\ wire' \in Seq(Call) /\ pending' \in Seq(Wait)
         /\ InOrder(wire', pending', Len(answers))
         /\ Once(ask, Elems(wire'), Elems(pending'), Elems(failing'))
<1> DEFINE c == Head(failing)
           P == Elems(pending)
           F == Elems(Tail(failing))
<1>1. /\ Elems(failing) = F \cup {c} /\ c \notin F /\ failing' = Tail(failing)
      /\ Queries(c, FALSE, pending)
  BY FailFacts
<1>2. /\ Len(answers) \in Nat /\ InOrder(wire, pending, Len(answers))
      /\ wire \in Seq(Call) /\ pending \in Seq(Wait)
      /\ Once(ask, Elems(wire), P, Elems(failing))
  <2>1. Len(answers) \in Nat /\ wire \in Seq(Call) /\ pending \in Seq(Wait)
    BY ElemsType DEF TypeOK
  <2> QED BY <2>1 DEF QueueInv
<1>3. \/ Rests(pending)
      \/ \E op \in Op : Second(op, c) /\ Asks(op, c, pending)
  BY <1>1 DEF Queries, Outcome, Inserts, AsksIndex, Tells, TellsNobody, Second, Op
<1> HIDE DEF c, P, F
<1>4. Once(ask, Elems(wire), P, F) /\ c \notin P /\ Once(ask, Elems(wire), P \cup {c}, F)
  BY SMTT(30), <1>1, <1>2 DEF Once
<1>5. CASE Rests(pending)
  BY <1>1, <1>2, <1>4, <1>5 DEF Rests, P, F
<1>6. ASSUME NEW op \in Op, Second(op, c), Asks(op, c, pending)
      PROVE  /\ wire' \in Seq(Call) /\ pending' \in Seq(Wait)
             /\ InOrder(wire', pending', Len(answers))
             /\ Once(ask, Elems(wire'), Elems(pending'), F)
  <2>1. c \notin Elems(pending) /\ Once(ask, Elems(wire), Elems(pending) \cup {c}, F)
    BY <1>4 DEF P
  <2> QED BY <1>1, <1>2, <1>6, <2>1, SecondFacts
<1> QED BY <1>1, <1>3, <1>5, <1>6 DEF F

-----------------------------------------------------------------------------
\* The connection breaks, or the process ends: the wire keeps a first part.
LEMMA BreakFacts ==
  ASSUME TypeOK, QueueInv, ConnectionLost \/ FailThrows
  PROVE  \E n \in 0..Len(wire) :
           /\ wire' = SubSeq(wire, 1, n) /\ wire' \in Seq(Call) /\ Len(wire') = n
           /\ \A i \in 1..n : wire'[i] = wire[i]
           /\ Elems(wire') \subseteq Elems(wire)
           /\ pending' = <<>> /\ answers' = <<>>
           /\ InOrder(wire', <<>>, 0)
<1>1. PICK n \in 0..Len(wire) : wire' = SubSeq(wire, 1, n) /\ pending' = <<>> /\ answers' = <<>>
  BY DEF ConnectionLost, FailThrows
<1>2. wire \in Seq(Call) /\ InOrder(wire, pending, Len(answers))
  BY DEF TypeOK, QueueInv
<1> QED BY SMTT(30), <1>1, <1>2, ElemsSubSeq, BreakKeepsOrder

LEMMA TypeNext == TypeOK /\ QueueInv /\ [Next]_vars => TypeOK'
<1> SUFFICES ASSUME TypeOK, QueueInv, [Next]_vars PROVE TypeOK'
  OBVIOUS
<1>1. ASSUME NEW r \in Req, NEW a \in Ask, Post(r, a) PROVE TypeOK'
  BY <1>1, PostFacts DEF Post, TypeOK, mongo
<1>2. CASE Execute
  <2>1. Head(wire) \in Call /\ ask[Head(wire).req] \in Ask /\ wire' \in Seq(Call)
        /\ answers' \in Seq([seq: Nat \cup {None}, found: BOOLEAN])
    BY <1>2, ExecuteFacts
  <2>2. Document(Head(wire)) \in Doc
    BY <2>1 DEF Document, Doc, Call, Ask
  <2>3. user_index' \in Nat \cup {None}
    BY SMTT(30), <1>2 DEF Execute, TypeOK, initIndexers, getIndexers
  <2>4. members' \subseteq Doc
    BY <1>2, <2>2 DEF Execute, TypeOK
  <2>5. seen' \in [Req -> BOOLEAN]
    <3>1. Found(ask[Head(wire).req].email) \in BOOLEAN
      BY DEF Found
    <3> QED BY <1>2, <3>1 DEF Execute, TypeOK
  <2> QED BY <1>2, <2>1, <2>3, <2>4, <2>5 DEF Execute, TypeOK, lb
<1>3. CASE Callback
  <2>1. /\ wire' \in Seq(Call) /\ pending' \in Seq(Wait)
        /\ answers' \in Seq([seq: Nat \cup {None}, found: BOOLEAN])
    BY <1>3, CallbackQueue, CallbackFacts
  <2>2. /\ Head(pending).req \in Req /\ ask[Head(pending).req] \in Ask
        /\ Head(answers).seq \in Nat \cup {None}
        /\ \/ Counts(Head(pending), Head(answers).seq, Tail(pending))
           \/ Inserted(Head(pending), Tail(pending))
           \/ Queries(Head(pending), Head(answers).found, Tail(pending))
    BY <1>3, CallbackFacts DEF Wait, Call
  <2>3. Credentials(Head(pending).req) \in Email \X Password
    BY <2>2 DEF Credentials, Ask
  <2>4. inputIndex' \in [Req -> Nat \cup {None}]
    BY <2>2 DEF Counts, Inserted, Queries, TypeOK
  <2>5. answer' \in [Req -> BOOLEAN \cup {None}]
    BY <2>2 DEF Counts, Inserted, Queries, Outcome, Inserts, AsksIndex, Tells, TellsNobody,
                TypeOK
  <2>6. known' \subseteq Email \X Password
    BY <2>2, <2>3 DEF Counts, Inserted, Queries, Outcome, Inserts, AsksIndex, Tells,
                      TellsNobody, TypeOK
  <2> QED BY <1>3, <2>1, <2>4, <2>5, <2>6 DEF Callback, TypeOK, mongo
<1>4. CASE ConnectionLost
  BY SMTT(30), <1>4, BreakFacts DEF ConnectionLost, TypeOK, mongo, lb
<1>5. CASE FailFind
  <2>1. wire' \in Seq(Call) /\ pending' \in Seq(Wait) /\ failing' \in Seq(Wait)
    BY <1>5, FailQueue, FailFacts
  <2>2. /\ Head(failing).req \in Req /\ ask[Head(failing).req] \in Ask
        /\ Queries(Head(failing), FALSE, pending)
    BY <1>5, FailFacts DEF Wait, Call
  <2>3. Credentials(Head(failing).req) \in Email \X Password
    BY <2>2 DEF Credentials, Ask
  <2>4. inputIndex' = inputIndex
    BY <2>2 DEF Queries
  <2>5. answer' \in [Req -> BOOLEAN \cup {None}]
    BY <2>2 DEF Queries, Outcome, Inserts, AsksIndex, Tells, TellsNobody, TypeOK
  <2>6. known' \subseteq Email \X Password
    BY <2>2, <2>3 DEF Queries, Outcome, Inserts, AsksIndex, Tells, TellsNobody, TypeOK
  <2> QED BY <1>5, <2>1, <2>4, <2>5, <2>6 DEF FailFind, TypeOK, mongo
<1>6. CASE FailThrows
  <2>1. wire' \in Seq(Call) /\ pending' = <<>> /\ answers' = <<>>
    BY <1>6, BreakFacts
  <2>2. /\ failing' = <<>> /\ up' = FALSE /\ known' = {} /\ due' = {}
        /\ UNCHANGED <<members, user_index, ask, inputIndex, answer, seen, lost>>
    BY <1>6 DEF FailThrows, mongo, lb
  <2> QED BY <2>1, <2>2, SeqEmpty DEF TypeOK
<1>7. CASE Restart
  BY <1>7 DEF Restart, TypeOK, mongo, lb, hist
<1>8. CASE UNCHANGED vars
  BY <1>8 DEF vars, TypeOK, mongo, lb, hist
<1> QED BY <1>1, <1>2, <1>3, <1>4, <1>5, <1>6, <1>7, <1>8 DEF Next

LEMMA QueueNext == TypeOK /\ QueueInv /\ [Next]_vars => QueueInv'
<1> SUFFICES ASSUME TypeOK, QueueInv, [Next]_vars PROVE QueueInv'
  OBVIOUS
<1>0. /\ InOrder(wire, pending, Len(answers))
      /\ Once(ask, Elems(wire), Elems(pending), Elems(failing))
      /\ \A i, j \in 1..Len(failing) : failing[i] = failing[j] => i = j
      /\ \A r \in Req : ask[r] = None => inputIndex[r] = None
  BY DEF QueueInv
<1>1. ASSUME NEW r \in Req, NEW a \in Ask, Post(r, a) PROVE QueueInv'
  <2>1. \A x \in Req : ask'[x] = None => inputIndex'[x] = None
    BY <1>0, <1>1, AskAssumption DEF Post, TypeOK
  <2>2. answers' = answers /\ failing' = failing
    BY <1>1 DEF Post
  <2>3. /\ InOrder(wire', pending', Len(answers))
        /\ Once(ask', Elems(wire'), Elems(pending'), Elems(failing))
    BY <1>1, PostFacts
  <2> QED BY <1>0, <2>1, <2>2, <2>3 DEF QueueInv
<1>2. CASE Execute
  <2>1. InOrder(wire', pending, Len(answers')) /\ Elems(wire') \subseteq Elems(wire)
    BY <1>2, ExecuteFacts
  <2>2. Once(ask, Elems(wire'), Elems(pending), Elems(failing))
    BY <1>0, <2>1 DEF Once
  <2> QED BY <1>0, <1>2, <2>1, <2>2 DEF Execute, lb, QueueInv
<1>3. CASE Callback
  <2>1. /\ Head(pending).req \in Req /\ ask[Head(pending).req] \in Ask
        /\ \/ Counts(Head(pending), Head(answers).seq, Tail(pending))
           \/ inputIndex' = inputIndex
    BY <1>3, CallbackFacts DEF Wait, Call, Inserted, Queries
  <2>2. \A r \in Req : ask[r] = None => inputIndex'[r] = None
    BY <1>0, <2>1, AskAssumption DEF Counts, TypeOK
  <2> QED BY SMTT(30), <1>0, <1>3, <2>2, CallbackQueue DEF Callback, QueueInv
<1>4. CASE ConnectionLost
  <2>1. /\ Elems(wire') \subseteq Elems(wire) /\ pending' = <<>> /\ Len(answers') = 0
        /\ InOrder(wire', pending', Len(answers'))
    BY <1>4, BreakFacts
  <2>2. failing = <<>> /\ failing' = pending /\ ask' = ask /\ inputIndex' = inputIndex
    BY <1>4 DEF ConnectionLost, lb
  <2>3. Once(ask', Elems(wire'), Elems(pending'), Elems(failing'))
    BY SMTT(30), <1>0, <2>1, <2>2, ElemsEmpty DEF Once
  <2>4. \A i, j \in 1..Len(failing') : failing'[i] = failing'[j] => i = j
    BY <1>0, <2>2 DEF InOrder
  <2> QED BY <1>0, <2>1, <2>2, <2>3, <2>4 DEF QueueInv
<1>5. CASE FailFind
  <2>1. inputIndex' = inputIndex /\ ask' = ask /\ answers' = answers
    BY <1>5, FailFacts DEF Queries, FailFind
  <2>2. \A i, j \in 1..Len(failing') : failing'[i] = failing'[j] => i = j
    <3>1. /\ failing # <<>> /\ failing \in Seq(Wait) /\ failing' = Tail(failing)
      BY <1>5 DEF FailFind, TypeOK
    <3>2. /\ Len(failing') = Len(failing) - 1 /\ Len(failing) \in Nat
          /\ \A i \in 1..Len(failing') : failing'[i] = failing[i + 1]
      BY <3>1, SeqTail, SeqLen
    <3> QED BY SMTT(30), <1>0, <3>2
  <2> QED BY <1>0, <1>5, <2>1, <2>2, FailQueue DEF QueueInv
<1>6. CASE FailThrows
  <2>1. /\ Elems(wire') \subseteq Elems(wire) /\ pending' = <<>> /\ Len(answers') = 0
        /\ InOrder(wire', pending', Len(answers'))
    BY <1>6, BreakFacts
  <2>2. failing' = <<>> /\ ask' = ask /\ inputIndex' = inputIndex
    BY <1>6 DEF FailThrows, lb
  <2>3. Once(ask', Elems(wire'), Elems(pending'), Elems(failing'))
    BY SMTT(30), <1>0, <2>1, <2>2, ElemsEmpty DEF Once
  <2> QED BY SMTT(30), <1>0, <2>1, <2>2, <2>3 DEF QueueInv
<1>7. CASE Restart \/ UNCHANGED vars
  <2>1. UNCHANGED <<wire, pending, answers, failing, ask, inputIndex>>
    BY <1>7 DEF Restart, vars, lb
  <2> QED BY <2>1 DEF QueueInv
<1> QED BY <1>1, <1>2, <1>3, <1>4, <1>5, <1>6, <1>7 DEF Next

\* The state stays well-formed: every callback finds the call it belongs to, and
\* MongoDB gets each command of a request once.
THEOREM TypeCorrect == Spec => [](TypeOK /\ QueueInv)
<1>1. Init => TypeOK
  <2> SUFFICES ASSUME Init PROVE TypeOK
    OBVIOUS
  <2>1. /\ wire \in Seq(Call) /\ pending \in Seq(Wait) /\ failing \in Seq(Wait)
        /\ answers \in Seq([seq: Nat \cup {None}, found: BOOLEAN])
    BY SeqEmpty DEF Init
  <2>2. answer \in [Req -> BOOLEAN \cup {None}] /\ seen \in [Req -> BOOLEAN]
    BY DEF Init
  <2> QED BY <2>1, <2>2 DEF Init, TypeOK
<1>2. Init => QueueInv
  BY ElemsEmpty DEF Init, QueueInv, InOrder, Once
<1> QED BY <1>1, <1>2, TypeNext, QueueNext, PTL DEF Spec

-----------------------------------------------------------------------------
\* Answers stay with their calls.
LEMMA PostAnswers ==
  ASSUME TypeOK, QueueInv, NEW r \in Req, NEW a \in Ask, Post(r, a)
  PROVE  answers' = answers /\ \A i \in 1..Len(answers) : pending'[i] = pending[i]
<1>1. answers' = answers /\ pending \in Seq(Wait) /\ Len(answers) \in Nat
      /\ Len(answers) <= Len(pending)
  BY ElemsType DEF Post, TypeOK, QueueInv, InOrder
<1> DEFINE g == C("getIndexers", r)
           k == C("checkIdMember", r)
           l == C("checkLoginMember", r)
<1>2. g \in Wait /\ k \in Wait /\ l \in Wait
  BY CallType DEF Op
<1>3. \/ pending' = Append(Append(pending, g), k)
      \/ pending' = Append(pending, k) \/ pending' = Append(pending, l)
  BY PostCases DEF PostsJoin, Posts
<1> HIDE DEF g, k, l
<1> DEFINE pg == Append(pending, g)
<1>4. /\ pg \in Seq(Wait) /\ Len(pg) = Len(pending) + 1 /\ Len(pending) \in Nat
      /\ \A i \in 1..Len(pending) : pg[i] = pending[i]
  BY SMTT(30), <1>1, <1>2, SeqAppend, SeqLen
<1>5. CASE pending' = Append(pg, k)
  <2> HIDE DEF pg
  <2>1. \A i \in 1..Len(pg) : pending'[i] = pg[i]
    BY SMTT(30), <1>2, <1>4, <1>5, SeqAppend
  <2> QED BY <1>1, <1>4, <2>1
<1>6. CASE pending' = Append(pending, k) \/ pending' = Append(pending, l)
  <2>1. \A i \in 1..Len(pending) : pending'[i] = pending[i]
    BY SMTT(30), <1>1, <1>2, <1>6, SeqAppend
  <2> QED BY <1>1, <1>4, <2>1
<1> QED BY <1>3, <1>5, <1>6

LEMMA CallbackAnswers ==
  ASSUME TypeOK, QueueInv, Callback
  PROVE  \A i \in 1..Len(answers') : /\ i + 1 \in 1..Len(answers) /\ i + 1 # 1
                                     /\ answers'[i] = answers[i + 1]
                                     /\ pending'[i] = pending[i + 1]
<1> DEFINE c == Head(pending)
           rest == Tail(pending)
<1>1. /\ pending # <<>> /\ rest \in Seq(Wait) /\ c.req \in Req /\ pending \in Seq(Wait)
      /\ Len(answers') = Len(answers) - 1 /\ Len(answers) \in Nat
      /\ \A i \in 1..Len(answers') : answers'[i] = answers[i + 1]
      /\ Len(answers) <= Len(pending)
  BY CallbackFacts DEF TypeOK, QueueInv, InOrder, Wait, Call
<1>2. /\ Len(rest) = Len(pending) - 1 /\ Len(pending) \in Nat
      /\ \A i \in 1..Len(rest) : rest[i] = pending[i + 1]
  BY <1>1, SeqTail, SeqLen
<1>3. \/ pending' = rest
      \/ \E op \in {"insertMember", "getIndexMember"} : pending' = Append(rest, C(op, c.req))
  BY CallbackFacts DEF Counts, Inserted, Queries, Outcome, Inserts, AsksIndex, Tells,
                       TellsNobody, Asks, Rests
<1>4. \A op \in {"insertMember", "getIndexMember"} : C(op, c.req) \in Wait
  BY <1>1, CallType DEF Op
<1> HIDE DEF rest
<1>5. \A i \in 1..Len(rest) : pending'[i] = rest[i]
  <2>1. CASE pending' = rest
    BY <2>1
  <2>2. ASSUME NEW op \in {"insertMember", "getIndexMember"},
               pending' = Append(rest, C(op, c.req))
        PROVE  \A i \in 1..Len(rest) : pending'[i] = rest[i]
    <3> DEFINE d == C(op, c.req)
    <3>1. d \in Wait /\ pending' = Append(rest, d)
      BY <1>4, <2>2
    <3> HIDE DEF d, c
    <3> QED BY SMTT(30), <1>1, <3>1, SeqAppend
  <2> QED BY <1>3, <2>1, <2>2
<1> QED BY SMTT(30), <1>1, <1>2, <1>5

LEMMA FailAnswers ==
  ASSUME TypeOK, QueueInv, FailFind
  PROVE  answers' = answers /\ \A i \in 1..Len(answers) : pending'[i] = pending[i]
<1> DEFINE c == Head(failing)
<1>1. /\ c.req \in Req /\ pending \in Seq(Wait) /\ answers' = answers
      /\ Len(answers) \in Nat /\ Len(answers) <= Len(pending)
  <2>1. c.req \in Req
    BY FailFacts DEF Wait, Call
  <2>2. pending \in Seq(Wait) /\ Len(answers) \in Nat
    BY ElemsType DEF TypeOK
  <2>3. answers' = answers /\ Len(answers) <= Len(pending)
    BY DEF FailFind, QueueInv, InOrder
  <2> QED BY <2>1, <2>2, <2>3
<1>2. \/ pending' = pending
      \/ \E op \in {"insertMember", "getIndexMember"} : pending' = Append(pending, C(op, c.req))
  BY FailFacts DEF Queries, Outcome, Inserts, AsksIndex, Tells, TellsNobody, Asks, Rests
<1>3. \A op \in {"insertMember", "getIndexMember"} : C(op, c.req) \in Wait
  BY <1>1, CallType DEF Op
<1> HIDE DEF c
<1>4. Len(pending) \in Nat /\ \A i \in 1..Len(pending) : pending'[i] = pending[i]
  BY SMTT(30), <1>1, <1>2, <1>3, SeqAppend, SeqLen
<1> QED BY <1>1, <1>4

LEMMA ExecuteAnswers ==
  ASSUME TypeOK, QueueInv, Execute
  PROVE  /\ pending' = pending /\ Len(answers) \in Nat
         /\ \/ answers' = answers
            \/ /\ Len(answers') = Len(answers) + 1
               /\ \A i \in 1..Len(answers) : answers'[i] = answers[i]
               /\ answers'[Len(answers) + 1] = Result(Head(wire))
               /\ pending[Len(answers) + 1] = Head(wire)
<1> DEFINE A == [seq: Nat \cup {None}, found: BOOLEAN]
<1>1. answers \in Seq(A) /\ pending' = pending /\ Len(answers) \in Nat
  BY ElemsType DEF TypeOK, Execute
<1>2. Result(Head(wire)) \in A
  BY SMTT(30) DEF Result, Found, FoundLogin, getIndexers, TypeOK
<1>3. \/ answers' = answers
      \/ /\ answers' = Append(answers, Result(Head(wire)))
         /\ pending[Len(answers) + 1] = Head(wire)
  BY ExecuteFacts
<1> HIDE DEF A
<1> QED BY SMTT(30), <1>1, <1>2, <1>3, SeqAppend

-----------------------------------------------------------------------------
\* The counter is there before it is counted.
CounterFirst(counter, w) == \A j \in 1..Len(w) : w[j].op = "getIndexers" =>
  counter # None \/ \E i \in 1..Len(w) : i < j /\ w[i].op = "initIndexers"

CounterInv == CounterThere /\ CounterFirst(user_index, wire)

\* A registration has its index, or its getIndexers is called back before.
IndexFirst(asked, index, q) == \A j \in 1..Len(q) :
  q[j].op = "checkIdMember" /\ asked[q[j].req].kind = "join" =>
    \/ index[q[j].req] # None
    \/ \E i \in 1..Len(q) : i < j /\ q[i].op = "getIndexers" /\ q[i].req = q[j].req

Counted(n) == n \in Nat /\ user_index \in Nat /\ n <= user_index

\* A member is what its request asked for, with the index of the request.
Belongs(d) == /\ d.index = inputIndex[d._id] /\ d.index # None /\ ask[d._id] # None
              /\ d.email = ask[d._id].email /\ d.password = ask[d._id].password

\* The indexes counted so far, in answers and in requests, are all different.
CountInv ==
  /\ \A r \in Req : inputIndex[r] # None => Counted(inputIndex[r])
  /\ \A r, s \in Req : inputIndex[r] # None /\ inputIndex[r] = inputIndex[s] => r = s
  /\ \A i \in 1..Len(answers) : pending[i].op = "getIndexers" =>
       Counted(answers[i].seq) /\ \A r \in Req : inputIndex[r] # answers[i].seq
  /\ \A i, j \in 1..Len(answers) :
       pending[i].op = "getIndexers" /\ pending[j].op = "getIndexers"
         /\ answers[i].seq = answers[j].seq => i = j

IndexInv ==
  /\ IndexFirst(ask, inputIndex, pending) /\ IndexFirst(ask, inputIndex, failing)
  /\ \A c \in Elems(pending) \cup Elems(failing) :
       c.op = "getIndexers" => inputIndex[c.req] = None
  /\ \A c \in Elems(wire) \cup Elems(pending) \cup Elems(failing) :
       c.op = "insertMember" => c.index = inputIndex[c.req] /\ c.index # None
  /\ \A d \in members : Belongs(d)

-----------------------------------------------------------------------------
\* What the callbacks put on the wire.
LEMMA CallbackWire ==
  ASSUME TypeOK, QueueInv, Callback \/ FailFind
  PROVE  \/ wire' = wire
         \/ \E op \in {"insertMember", "getIndexMember"}, r \in Req :
              wire' = Append(wire, C(op, r))
<1>1. CASE Callback
  <2>1. Head(pending).req \in Req
    BY <1>1, CallbackFacts DEF Wait, Call
  <2> QED BY <1>1, <2>1, CallbackFacts
          DEF Counts, Inserted, Queries, Outcome, Inserts, AsksIndex, Tells, TellsNobody, Asks, Rests
<1>2. CASE FailFind
  <2>1. Head(failing).req \in Req
    BY <1>2, FailFacts DEF Wait, Call
  <2> QED BY <1>2, <2>1, FailFacts
          DEF Queries, Outcome, Inserts, AsksIndex, Tells, TellsNobody, Asks, Rests
<1> QED BY <1>1, <1>2

LEMMA CounterAppend ==
  ASSUME NEW w \in Seq(Call), NEW n, CounterFirst(n, w), NEW c \in Call,
         c.op = "getIndexers" => \E i \in 1..Len(w) : w[i].op = "initIndexers"
  PROVE  CounterFirst(n, Append(w, c))
<1> DEFINE w2 == Append(w, c)
<1>1. /\ Len(w2) = Len(w) + 1 /\ w2[Len(w) + 1] = c /\ Len(w) \in Nat
      /\ \A i \in 1..Len(w) : w2[i] = w[i]
  BY SMTT(30), SeqAppend, SeqLen
<1> HIDE DEF w2
<1>2. CounterFirst(n, w2)
  BY SMTT(30), <1>1 DEF CounterFirst
<1> QED BY <1>2 DEF w2

LEMMA CounterNext == TypeOK /\ QueueInv /\ CounterInv /\ [Next]_vars => CounterInv'
<1> SUFFICES ASSUME TypeOK, QueueInv, CounterInv, [Next]_vars PROVE CounterInv'
  OBVIOUS
<1>0. /\ wire \in Seq(Call) /\ CounterFirst(user_index, wire)
      /\ DOMAIN answers = 1..Len(answers)
      /\ \A i \in 1..Len(answers) : answers[i].seq # None
  BY SeqLen DEF TypeOK, CounterInv, CounterThere
<1>1. ASSUME NEW r \in Req, NEW a \in Ask, Post(r, a) PROVE CounterInv'
  <2>1. user_index' = user_index /\ answers' = answers
    BY <1>1 DEF Post, mongo
  <2> DEFINE i == C("initIndexers", r)
             g == C("getIndexers", r)
             k == C("checkIdMember", r)
             l == C("checkLoginMember", r)
  <2>2. /\ i \in Call /\ i.op = "initIndexers" /\ g \in Call /\ k \in Call /\ l \in Call
        /\ k.op = "checkIdMember" /\ l.op = "checkLoginMember"
    BY SMTT(30), CallType DEF Op
  <2>3. \/ wire' = Append(Append(Append(wire, i), g), k)
        \/ wire' = Append(wire, k) \/ wire' = Append(wire, l)
    BY <1>1, PostCases DEF PostsJoin, Posts
  <2> HIDE DEF i, g, k, l
  <2>4. CASE wire' = Append(Append(Append(wire, i), g), k)
    <3> DEFINE wi == Append(wire, i)
               wg == Append(wi, g)
    <3>1. /\ wi \in Seq(Call) /\ CounterFirst(user_index, wi)
          /\ \E j \in 1..Len(wi) : wi[j].op = "initIndexers"
      <4>1. wi \in Seq(Call) /\ Len(wi) = Len(wire) + 1 /\ wi[Len(wire) + 1] = i
            /\ Len(wire) \in Nat
        BY SMTT(30), <1>0, <2>2, SeqAppend, SeqLen
      <4>2. CounterFirst(user_index, wi)
        BY <1>0, <2>2, CounterAppend
      <4> HIDE DEF wi
      <4> QED BY <2>2, <4>1, <4>2
    <3> HIDE DEF wi
    <3>2. wg \in Seq(Call) /\ CounterFirst(user_index, wg)
      BY <2>2, <3>1, SeqAppend, CounterAppend
    <3> HIDE DEF wg
    <3>3. wire' = Append(wg, k)
      BY <2>4 DEF wi, wg
    <3> QED BY <1>0, <2>1, <2>2, <3>2, <3>3, CounterAppend DEF CounterInv, CounterThere
  <2> QED BY <1>0, <2>1, <2>2, <2>3, <2>4, CounterAppend DEF CounterInv, CounterThere
<1>2. CASE Execute
  <2> DEFINE c == Head(wire)
  <2>1. /\ c = wire[1] /\ Len(wire') = Len(wire) - 1 /\ Len(wire) \in Nat \ {0}
        /\ \A i \in 1..Len(wire') : wire'[i] = wire[i + 1]
        /\ \/ answers' = answers \/ answers' = Append(answers, Result(c))
        /\ answers' \in Seq([seq: Nat \cup {None}, found: BOOLEAN])
    BY <1>2, ExecuteFacts
  <2>2. user_index' = CASE c.op = "initIndexers" -> initIndexers
                        [] c.op = "getIndexers"  -> getIndexers
                        [] OTHER -> user_index
    BY <1>2 DEF Execute
  <2> HIDE DEF c
  <2>3. c.op = "getIndexers" => user_index # None
    BY SMTT(30), <1>0, <2>1 DEF CounterFirst
  <2>4. /\ user_index # None => user_index' # None
        /\ c.op = "initIndexers" => user_index' # None
    BY SMTT(30), <2>2, MembersAssumption DEF initIndexers, getIndexers, TypeOK
  <2>5. CounterFirst(user_index', wire')
    <3> SUFFICES ASSUME NEW j \in 1..Len(wire'), wire'[j].op = "getIndexers", user_index' = None
                 PROVE  \E i \in 1..Len(wire') : i < j /\ wire'[i].op = "initIndexers"
      BY DEF CounterFirst
    <3> DEFINE j2 == j + 1
    <3>1. j2 \in 1..Len(wire) /\ wire[j2].op = "getIndexers" /\ j = j2 - 1
      BY <2>1
    <3> HIDE DEF j2
    <3>2. PICK i \in 1..Len(wire) : i < j2 /\ wire[i].op = "initIndexers"
      BY <1>0, <2>4, <3>1 DEF CounterFirst
    <3>3. i # 1
      BY <2>1, <2>4, <3>2
    <3> DEFINE i2 == i - 1
    <3>4. i2 \in 1..Len(wire') /\ i2 < j /\ i = i2 + 1
      BY SMTT(30), <2>1, <3>1, <3>2, <3>3
    <3> HIDE DEF i2
    <3>5. wire'[i2] = wire[i]
      BY <2>1, <3>4
    <3> QED BY <3>2, <3>4, <3>5
  <2>6. Result(c).seq # None
    BY SMTT(30), <2>3, MembersAssumption DEF Result, getIndexers, TypeOK
  <2>7. \A i \in 1..Len(answers') : answers'[i].seq # None
    <3>1. CASE answers' = answers
      BY <1>0, <3>1
    <3>2. CASE answers' = Append(answers, Result(c))
      <4>1. /\ Len(answers') = Len(answers) + 1 /\ answers'[Len(answers) + 1] = Result(c)
            /\ \A i \in 1..Len(answers) : answers'[i] = answers[i] /\ Len(answers) \in Nat
        <5>1. answers \in Seq([seq: Nat \cup {None}, found: BOOLEAN])
          BY DEF TypeOK
        <5>2. Result(c) \in [seq: Nat \cup {None}, found: BOOLEAN]
          BY SMTT(30), <2>6 DEF Result, getIndexers, TypeOK, Found, FoundLogin
        <5> QED BY SMTT(30), <3>2, <5>1, <5>2, SeqAppend, SeqLen
      <4>2. Len(answers) \in Nat
        BY ElemsType
      <4> QED BY <1>0, <2>6, <4>1, <4>2
    <3> QED BY <2>1, <3>1, <3>2
  <2>8. DOMAIN answers' = 1..Len(answers')
    BY <2>1, SeqLen
  <2> QED BY <2>5, <2>7, <2>8 DEF CounterInv, CounterThere
<1>3. CASE Callback \/ FailFind
  <2>1. user_index' = user_index
    BY <1>3 DEF Callback, FailFind, mongo
  <2>2. /\ DOMAIN answers' = 1..Len(answers')
        /\ \A i \in 1..Len(answers') : answers'[i].seq # None
    <3>1. CASE Callback
      <4>1. /\ answers' \in Seq([seq: Nat \cup {None}, found: BOOLEAN])
            /\ Len(answers') = Len(answers) - 1 /\ Len(answers) \in Nat
            /\ \A i \in 1..Len(answers') : answers'[i] = answers[i + 1]
        BY <3>1, CallbackFacts
      <4> QED BY SMTT(30), <1>0, <4>1, SeqLen
    <3>2. CASE FailFind
      BY <1>0, <3>2 DEF FailFind
    <3> QED BY <1>3, <3>1, <3>2
  <2>3. CounterFirst(user_index, wire')
    <3>1. \A op \in {"insertMember", "getIndexMember"}, r \in Req :
            C(op, r) \in Call /\ C(op, r).op # "getIndexers"
      BY CallType DEF Op
    <3> QED BY <1>0, <1>3, <3>1, CallbackWire, CounterAppend
  <2> QED BY <2>1, <2>2, <2>3 DEF CounterInv, CounterThere
<1>4. CASE ConnectionLost \/ FailThrows
  <2>1. user_index' = user_index
    BY <1>4 DEF ConnectionLost, FailThrows, mongo
  <2>2. PICK n \in 0..Len(wire) :
           Len(wire') = n /\ answers' = <<>> /\ \A i \in 1..n : wire'[i] = wire[i]
    BY <1>4, BreakFacts
  <2>3. CounterFirst(user_index, wire')
    <3>1. Len(wire) \in Nat
      BY <1>0, SeqLen
    <3> SUFFICES ASSUME NEW j \in 1..n, wire'[j].op = "getIndexers", user_index = None
                 PROVE  \E i \in 1..n : i < j /\ wire'[i].op = "initIndexers"
      BY <2>2 DEF CounterFirst
    <3>2. j \in 1..Len(wire) /\ wire[j].op = "getIndexers"
      <4>1. j \in 1..Len(wire)
        BY SMTT(30), <3>1
      <4> QED BY <2>2, <4>1
    <3>3. PICK i \in 1..Len(wire) : i < j /\ wire[i].op = "initIndexers"
      BY <1>0, <3>2 DEF CounterFirst
    <3>4. i \in 1..n
      BY SMTT(30), <3>1, <3>3
    <3> QED BY <2>2, <3>3, <3>4
  <2> QED BY <2>1, <2>2, <2>3 DEF CounterInv, CounterThere
<1>5. CASE Restart \/ UNCHANGED vars
  <2>1. UNCHANGED <<wire, answers, user_index>>
    BY <1>5 DEF Restart, vars, mongo
  <2> QED BY <2>1 DEF CounterInv, CounterThere
<1> QED BY <1>1, <1>2, <1>3, <1>4, <1>5 DEF Next

\* getIndexers always finds the counter, with any number of registrations, breaks
\* of the connection and restarts: its callback never reads seq of null.
THEOREM CounterBeforeCount == Spec => []CounterThere
<1>1. Init => CounterInv
  BY SMTT(30) DEF Init, CounterInv, CounterThere, CounterFirst
<1>2. CounterInv => CounterThere
  BY DEF CounterInv
<1> QED BY <1>1, <1>2, CounterNext, TypeCorrect, PTL DEF Spec

-----------------------------------------------------------------------------
LEMMA IndexAppend ==
  ASSUME NEW asked, NEW index, NEW q \in Seq(Wait), IndexFirst(asked, index, q), NEW c \in Wait,
         c.op = "checkIdMember" /\ asked[c.req].kind = "join" =>
           \E i \in 1..Len(q) : q[i].op = "getIndexers" /\ q[i].req = c.req
  PROVE  IndexFirst(asked, index, Append(q, c))
<1> DEFINE q2 == Append(q, c)
<1>1. /\ Len(q2) = Len(q) + 1 /\ q2[Len(q) + 1] = c /\ Len(q) \in Nat
      /\ \A i \in 1..Len(q) : q2[i] = q[i]
  BY SMTT(30), SeqAppend, SeqLen
<1> HIDE DEF q2
<1>2. IndexFirst(asked, index, q2)
  <2> SUFFICES ASSUME NEW j \in 1..Len(q2), q2[j].op = "checkIdMember",
                      asked[q2[j].req].kind = "join", index[q2[j].req] = None
               PROVE  \E i \in 1..Len(q2) : i < j /\ q2[i].op = "getIndexers" /\ q2[i].req = q2[j].req
    BY DEF IndexFirst
  <2>1. \A i \in 1..Len(q) : i \in 1..Len(q2) /\ i < Len(q) + 1
    BY SMTT(30), <1>1
  <2>2. CASE j = Len(q) + 1
    <3>1. PICK i \in 1..Len(q) : q[i].op = "getIndexers" /\ q[i].req = c.req
      BY <1>1, <2>2
    <3> QED BY <1>1, <2>1, <2>2, <3>1
  <2>3. CASE j \in 1..Len(q)
    <3>1. PICK i \in 1..Len(q) : i < j /\ q[i].op = "getIndexers" /\ q[i].req = q[j].req
      BY <1>1, <2>3 DEF IndexFirst
    <3> QED BY <1>1, <2>1, <2>3, <3>1
  <2>4. j = Len(q) + 1 \/ j \in 1..Len(q)
    BY SMTT(30), <1>1
  <2> QED BY <2>2, <2>3, <2>4
<1> QED BY <1>2 DEF q2

LEMMA IndexTail ==
  ASSUME NEW asked, NEW index, NEW index2, NEW q \in Seq(Wait), q # <<>>,
         IndexFirst(asked, index, q),
         \A r \in Req : index[r] # None => index2[r] # None,
         Head(q).op = "getIndexers" => index2[Head(q).req] # None
  PROVE  IndexFirst(asked, index2, Tail(q))
<1> DEFINE q2 == Tail(q)
<1>1. /\ Len(q2) = Len(q) - 1 /\ Len(q) \in Nat \ {0} /\ Head(q) = q[1]
      /\ \A i \in 1..Len(q2) : q2[i] = q[i + 1]
      /\ \A i \in 1..Len(q) : q[i].req \in Req
  <2>1. \A i \in 1..Len(q) : q[i] \in Wait
    BY SeqLen
  <2> QED BY SMTT(30), <2>1, SeqTail, SeqEmpty DEF Wait, Call
<1> HIDE DEF q2
<1>2. IndexFirst(asked, index2, q2)
  <2> SUFFICES ASSUME NEW j \in 1..Len(q2), q2[j].op = "checkIdMember",
                      asked[q2[j].req].kind = "join", index2[q2[j].req] = None
               PROVE  \E i \in 1..Len(q2) : i < j /\ q2[i].op = "getIndexers"
                                            /\ q2[i].req = q2[j].req
    BY DEF IndexFirst
  <2> DEFINE k == j + 1
  <2>1. k \in 1..Len(q) /\ q[k] = q2[j] /\ j = k - 1
    BY SMTT(30), <1>1
  <2> HIDE DEF k
  <2>2. PICK i \in 1..Len(q) : i < k /\ q[i].op = "getIndexers" /\ q[i].req = q[k].req
    BY <1>1, <2>1 DEF IndexFirst
  <2>3. i # 1
    BY <1>1, <2>1, <2>2
  <2> DEFINE h == i - 1
  <2>4. h \in 1..Len(q2) /\ h < j /\ i = h + 1
    BY SMTT(30), <1>1, <2>1, <2>2, <2>3
  <2> HIDE DEF h
  <2>5. q2[h] = q[i]
    BY <1>1, <2>4
  <2> QED BY <2>1, <2>2, <2>4, <2>5
<1> QED BY <1>2 DEF q2

\* A callback that runs at the head of a queue has an index to insert.
LEMMA HeadIndexed ==
  ASSUME NEW q \in Seq(Wait), q # <<>>, IndexFirst(ask, inputIndex, q),
         Head(q).op = "checkIdMember", ask[Head(q).req].kind = "join"
  PROVE  inputIndex[Head(q).req] # None
<1>1. Head(q) = q[1] /\ Len(q) \in Nat \ {0}
  BY SeqEmpty
<1> QED BY SMTT(30), <1>1 DEF IndexFirst

\* The second command of a request: an insert has the index of its request.
LEMMA SecondIndexed ==
  ASSUME TypeOK, NEW q \in Seq(Wait), q # <<>>, IndexFirst(ask, inputIndex, q),
         NEW found, NEW rest, Queries(Head(q), found, rest)
  PROVE  \/ Rests(rest)
         \/ \E op \in {"insertMember", "getIndexMember"} :
              /\ Asks(op, Head(q), rest) /\ C(op, Head(q).req) \in Wait
              /\ C(op, Head(q).req).op = op /\ C(op, Head(q).req).req = Head(q).req
              /\ op = "insertMember" =>
                   /\ C(op, Head(q).req).index = inputIndex[Head(q).req]
                   /\ inputIndex[Head(q).req] # None
<1>1. Head(q).req \in Req
  BY SMTT(30), SeqTail DEF Wait, Call
<1>2. \A op \in {"insertMember", "getIndexMember"} :
        /\ C(op, Head(q).req) \in Wait /\ C(op, Head(q).req).op = op
        /\ C(op, Head(q).req).req = Head(q).req
        /\ C(op, Head(q).req).index = inputIndex[Head(q).req]
  BY SMTT(30), <1>1, CallType DEF Op
<1>3. CASE Inserts(Head(q), rest)
  BY <1>2, <1>3, HeadIndexed DEF Inserts
<1>4. CASE AsksIndex(Head(q), found, rest)
  BY <1>2, <1>4 DEF AsksIndex
<1> QED BY <1>3, <1>4 DEF Queries, Outcome, Tells, TellsNobody

LEMMA IndexPost ==
  ASSUME TypeOK, QueueInv, IndexInv, NEW r \in Req, NEW a \in Ask, Post(r, a)
  PROVE  IndexInv'
<1> DEFINE i == C("initIndexers", r)
           g == C("getIndexers", r)
           k == C("checkIdMember", r)
           l == C("checkLoginMember", r)
<1>1. /\ i \in Call /\ i.op = "initIndexers" /\ g \in Call /\ k \in Call /\ l \in Call
      /\ g \in Wait /\ g.op = "getIndexers" /\ g.req = r
      /\ k \in Wait /\ k.op = "checkIdMember" /\ k.req = r
      /\ l \in Wait /\ l.op = "checkLoginMember"
  BY SMTT(30), CallType DEF Op
<1>2. \/ /\ wire' = Append(Append(Append(wire, i), g), k)
         /\ pending' = Append(Append(pending, g), k)
      \/ wire' = Append(wire, k) /\ pending' = Append(pending, k) /\ a.kind = "idCheck"
      \/ wire' = Append(wire, l) /\ pending' = Append(pending, l)
  BY PostCases DEF PostsJoin, Posts
<1> HIDE DEF i, g, k, l
<1>3. /\ ask[r] = None /\ ask'[r] = a /\ \A x \in Req : x # r => ask'[x] = ask[x]
      /\ failing = <<>> /\ failing' = failing /\ inputIndex' = inputIndex /\ members' = members
      /\ ask' = [ask EXCEPT ![r] = a]
  BY DEF Post, TypeOK, mongo
<1>4. /\ wire \in Seq(Call) /\ pending \in Seq(Wait) /\ inputIndex[r] = None
      /\ \A c \in Elems(pending) : c.req # r /\ c.req \in Req
  <2>1. wire \in Seq(Call) /\ pending \in Seq(Wait) /\ inputIndex[r] = None
    BY <1>3, ElemsType DEF TypeOK, QueueInv
  <2> QED BY <1>3, <2>1, PendingAsked
<1>5. IndexFirst(ask', inputIndex, pending)
  <2>1. \A j \in 1..Len(pending) : pending[j].req # r /\ pending[j].req \in Req
    BY <1>4 DEF Elems
  <2> QED BY SMTT(30), <1>3, <2>1 DEF IndexInv, IndexFirst
<1>6. IndexFirst(ask', inputIndex, pending')
  <2> DEFINE pg == Append(pending, g)
  <2>1. /\ pg \in Seq(Wait) /\ IndexFirst(ask', inputIndex, pg)
        /\ \E j \in 1..Len(pg) : pg[j].op = "getIndexers" /\ pg[j].req = k.req
    <3>1. pg \in Seq(Wait) /\ Len(pg) = Len(pending) + 1 /\ pg[Len(pending) + 1] = g
          /\ Len(pending) \in Nat
      BY SMTT(30), <1>1, <1>4, SeqAppend, SeqLen
    <3>2. IndexFirst(ask', inputIndex, pg)
      BY <1>1, <1>4, <1>5, IndexAppend
    <3> HIDE DEF pg
    <3> QED BY <1>1, <3>1, <3>2
  <2>2. CASE pending' = Append(pg, k)
    <3> HIDE DEF pg
    <3> QED BY <1>1, <2>1, <2>2, IndexAppend
  <2>3. CASE pending' = Append(pending, k) /\ a.kind = "idCheck"
    BY <1>1, <1>3, <1>4, <1>5, <2>3, IndexAppend
  <2>4. CASE pending' = Append(pending, l)
    BY <1>1, <1>4, <1>5, <2>4, IndexAppend
  <2> QED BY <1>2, <2>2, <2>3, <2>4
<1>7. IndexFirst(ask', inputIndex', failing')
  BY SMTT(30), <1>3 DEF IndexFirst
<1>8. /\ Elems(wire') \subseteq Elems(wire) \cup {i, g, k, l}
      /\ Elems(pending') \subseteq Elems(pending) \cup {g, k, l}
  <2>1. CASE wire' = Append(Append(Append(wire, i), g), k)
             /\ pending' = Append(Append(pending, g), k)
    <3> DEFINE wi == Append(wire, i)
               wg == Append(wi, g)
               pg == Append(pending, g)
    <3>1. /\ wi \in Seq(Call) /\ Elems(wi) = Elems(wire) \cup {i}
          /\ pg \in Seq(Wait) /\ Elems(pg) = Elems(pending) \cup {g}
      BY SMTT(30), <1>1, <1>4, SeqAppend, ElemsAppend
    <3> HIDE DEF wi, pg
    <3>2. wg \in Seq(Call) /\ Elems(wg) = Elems(wi) \cup {g}
      BY SMTT(30), <1>1, <3>1, SeqAppend, ElemsAppend
    <3>3. wire' = Append(wg, k) /\ pending' = Append(pg, k)
      BY <2>1 DEF wi, wg, pg
    <3> HIDE DEF wg
    <3>4. Elems(wire') = Elems(wg) \cup {k} /\ Elems(pending') = Elems(pg) \cup {k}
      BY SMTT(30), <1>1, <3>1, <3>2, <3>3, ElemsAppend
    <3> QED BY <3>1, <3>2, <3>4
  <2>2. CASE wire' = Append(wire, k) /\ pending' = Append(pending, k)
    <3>1. Elems(wire') = Elems(wire) \cup {k} /\ Elems(pending') = Elems(pending) \cup {k}
      BY SMTT(30), <1>1, <1>4, <2>2, ElemsAppend
    <3> QED BY <3>1
  <2>3. CASE wire' = Append(wire, l) /\ pending' = Append(pending, l)
    <3>1. Elems(wire') = Elems(wire) \cup {l} /\ Elems(pending') = Elems(pending) \cup {l}
      BY SMTT(30), <1>1, <1>4, <2>3, ElemsAppend
    <3> QED BY <3>1
  <2> QED BY <1>2, <2>1, <2>2, <2>3
<1>9. \A c \in Elems(pending') \cup Elems(failing') :
        c.op = "getIndexers" => inputIndex'[c.req] = None
  BY <1>1, <1>3, <1>4, <1>8 DEF IndexInv
<1>10. \A c \in Elems(wire') \cup Elems(pending') \cup Elems(failing') :
         c.op = "insertMember" => c.index = inputIndex'[c.req] /\ c.index # None
  BY <1>1, <1>3, <1>8 DEF IndexInv
<1>11. \A d \in members' : Belongs(d)'
  <2> SUFFICES ASSUME NEW d \in members PROVE Belongs(d)'
    BY <1>3
  <2>1. Belongs(d) /\ d._id \in Req
    BY DEF IndexInv, TypeOK, Doc
  <2> QED BY <1>3, <2>1 DEF Belongs
<1> QED BY <1>3, <1>6, <1>7, <1>9, <1>10, <1>11 DEF IndexInv

LEMMA IndexCallback ==
  ASSUME TypeOK, QueueInv, IndexInv, Callback
  PROVE  IndexInv'
<1> DEFINE c == Head(pending)
           rest == Tail(pending)
<1>1. /\ pending # <<>> /\ c \in Wait /\ rest \in Seq(Wait) /\ c.req \in Req
      /\ Elems(pending) = Elems(rest) \cup {c} /\ c \notin Elems(rest)
      /\ failing = <<>> /\ pending \in Seq(Wait) /\ wire \in Seq(Call)
  BY CallbackFacts DEF TypeOK, Wait, Call
<1>2. failing' = failing /\ ask' = ask /\ members' = members
  BY DEF Callback, mongo
<1>3. /\ IndexFirst(ask, inputIndex, pending)
      /\ \A d \in Elems(pending) : d.op = "getIndexers" => inputIndex[d.req] = None
      /\ \A d \in Elems(wire) \cup Elems(pending) :
           d.op = "insertMember" => d.index = inputIndex[d.req] /\ d.index # None
      /\ \A d \in members : Belongs(d)
      /\ \A d, e \in Elems(pending) : d.op = e.op /\ d.req = e.req => d = e
  BY DEF IndexInv, QueueInv, Once
<1>4. IndexFirst(ask', inputIndex', failing') /\ Elems(failing') = {}
  BY SMTT(30), <1>1, <1>2, ElemsEmpty DEF IndexFirst
<1>5. CASE Counts(c, Head(answers).seq, rest)
  <2>1. /\ c.op = "getIndexers" /\ Head(answers).seq # None /\ wire' = wire /\ pending' = rest
        /\ inputIndex' = [inputIndex EXCEPT ![c.req] = Head(answers).seq]
    BY <1>5 DEF Counts, Rests
  <2>2. /\ inputIndex[c.req] = None /\ inputIndex'[c.req] # None
        /\ \A r \in Req : r # c.req => inputIndex'[r] = inputIndex[r]
    BY <1>1, <1>3, <2>1 DEF TypeOK
  <2>3. IndexFirst(ask', inputIndex', pending')
    <3>1. \A r \in Req : inputIndex[r] # None => inputIndex'[r] # None
      BY <2>2
    <3>2. inputIndex'[Head(pending).req] # None
      BY <2>2
    <3>3. IndexFirst(ask, inputIndex, pending) /\ pending \in Seq(Wait) /\ pending # <<>>
      BY <1>1, <1>3
    <3>4. IndexFirst(ask, inputIndex', Tail(pending))
      BY <3>1, <3>2, <3>3, IndexTail
    <3> QED BY <1>2, <2>1, <3>4
  <2>4. \A d \in Elems(rest) : d.op = "getIndexers" => inputIndex'[d.req] = None
    <3>1. \A d \in Elems(rest) : d.req \in Req
      BY <1>1, ElemsType DEF Wait, Call
    <3> QED BY SMTT(30), <1>1, <1>3, <2>1, <2>2, <3>1
  <2>5. \A d \in Elems(wire) \cup Elems(rest) :
          d.op = "insertMember" => d.index = inputIndex'[d.req] /\ d.index # None
    <3>1. \A d \in Elems(wire) \cup Elems(rest) : d.req \in Req
      BY <1>1, ElemsType DEF Wait, Call
    <3> QED BY SMTT(30), <1>1, <1>3, <2>2, <3>1
  <2>6. \A d \in members : Belongs(d)'
    <3> SUFFICES ASSUME NEW d \in members PROVE Belongs(d)'
      OBVIOUS
    <3>1. Belongs(d) /\ d._id \in Req
      BY <1>3 DEF TypeOK, Doc
    <3> QED BY <1>2, <2>2, <3>1 DEF Belongs
  <2> QED BY <1>2, <1>4, <2>1, <2>3, <2>4, <2>5, <2>6 DEF IndexInv
<1>6. ASSUME inputIndex' = inputIndex,
             \/ Rests(rest)
             \/ \E op \in {"insertMember", "getIndexMember"} :
                  /\ Asks(op, c, rest) /\ C(op, c.req) \in Wait
                  /\ C(op, c.req).op = op /\ C(op, c.req).req = c.req
                  /\ op = "insertMember" =>
                       C(op, c.req).index = inputIndex[c.req] /\ inputIndex[c.req] # None,
             c.op # "getIndexers"
      PROVE  IndexInv'
  <2>1. IndexFirst(ask, inputIndex, rest)
    BY <1>1, <1>3, <1>6, IndexTail
  <2>2. \A d \in members' : Belongs(d)'
    BY <1>2, <1>3, <1>6 DEF Belongs
  <2>3. CASE Rests(rest)
    <3>1. /\ \A d \in Elems(rest) : d.op = "getIndexers" => inputIndex[d.req] = None
          /\ \A d \in Elems(wire) \cup Elems(rest) :
               d.op = "insertMember" => d.index = inputIndex[d.req] /\ d.index # None
      BY <1>1, <1>3
    <3> QED BY <1>2, <1>4, <1>6, <2>1, <2>2, <2>3, <3>1 DEF IndexInv, Rests
  <2>4. CASE ~Rests(rest)
    <3>1. PICK op \in {"insertMember", "getIndexMember"} :
            /\ Asks(op, c, rest) /\ C(op, c.req) \in Wait
            /\ C(op, c.req).op = op /\ C(op, c.req).req = c.req
            /\ op = "insertMember" =>
                 C(op, c.req).index = inputIndex[c.req] /\ inputIndex[c.req] # None
      BY <1>6, <2>4
    <3> DEFINE n == C(op, c.req)
    <3>2. /\ wire' = Append(wire, n) /\ pending' = Append(rest, n)
          /\ n \in Wait /\ n \in Call /\ n.op = op /\ n.req = c.req
          /\ op = "insertMember" => n.index = inputIndex[c.req] /\ inputIndex[c.req] # None
      BY <3>1 DEF Asks, Wait
    <3> HIDE DEF n, c, rest
    <3>3. IndexFirst(ask, inputIndex, pending')
      BY <1>1, <2>1, <3>2, IndexAppend
    <3>4. Elems(wire') = Elems(wire) \cup {n} /\ Elems(pending') = Elems(rest) \cup {n}
      BY SMTT(30), <1>1, <3>2, ElemsAppend
    <3>5. /\ \A d \in Elems(pending') : d.op = "getIndexers" => inputIndex[d.req] = None
          /\ \A d \in Elems(wire') \cup Elems(pending') :
               d.op = "insertMember" => d.index = inputIndex[d.req] /\ d.index # None
      BY <1>1, <1>3, <3>2, <3>4
    <3> QED BY <1>2, <1>4, <1>6, <2>2, <3>3, <3>5 DEF IndexInv
  <2> QED BY <2>3, <2>4
<1>7. CASE Inserted(c, rest)
  BY <1>6, <1>7 DEF Inserted
<1>8. CASE Queries(c, Head(answers).found, rest)
  BY <1>1, <1>3, <1>6, <1>8, SecondIndexed DEF Queries
<1> QED BY <1>5, <1>7, <1>8, CallbackFacts

LEMMA IndexFail ==
  ASSUME TypeOK, QueueInv, IndexInv, FailFind
  PROVE  IndexInv'
<1> DEFINE c == Head(failing)
           F == Tail(failing)
<1>1. /\ failing # <<>> /\ c \in Wait /\ F \in Seq(Wait) /\ c.req \in Req
      /\ Elems(failing) = Elems(F) \cup {c} /\ failing' = F
      /\ failing \in Seq(Wait) /\ wire \in Seq(Call) /\ pending \in Seq(Wait)
      /\ Queries(c, FALSE, pending)
  BY FailFacts DEF TypeOK, Wait, Call
<1>2. /\ ask' = ask /\ members' = members /\ inputIndex' = inputIndex
      /\ c.op # "getIndexers"
  BY <1>1 DEF FailFind, mongo, Queries
<1>3. /\ IndexFirst(ask, inputIndex, pending) /\ IndexFirst(ask, inputIndex, failing)
      /\ \A d \in Elems(pending) \cup Elems(failing) :
           d.op = "getIndexers" => inputIndex[d.req] = None
      /\ \A d \in Elems(wire) \cup Elems(pending) \cup Elems(failing) :
           d.op = "insertMember" => d.index = inputIndex[d.req] /\ d.index # None
      /\ \A d \in members : Belongs(d)
  BY DEF IndexInv
<1>4. IndexFirst(ask, inputIndex, F)
  BY <1>1, <1>2, <1>3, IndexTail
<1>5. \A d \in members' : Belongs(d)'
  BY <1>2, <1>3 DEF Belongs
<1>6. \/ Rests(pending)
      \/ \E op \in {"insertMember", "getIndexMember"} :
           /\ Asks(op, c, pending) /\ C(op, c.req) \in Wait
           /\ C(op, c.req).op = op /\ C(op, c.req).req = c.req
           /\ op = "insertMember" =>
                C(op, c.req).index = inputIndex[c.req] /\ inputIndex[c.req] # None
  BY <1>1, <1>3, SecondIndexed
<1> HIDE DEF c, F
<1>7. CASE Rests(pending)
  <2>1. /\ \A d \in Elems(pending) \cup Elems(F) :
             d.op = "getIndexers" => inputIndex[d.req] = None
        /\ \A d \in Elems(wire) \cup Elems(pending) \cup Elems(F) :
             d.op = "insertMember" => d.index = inputIndex[d.req] /\ d.index # None
    BY <1>1, <1>3
  <2> QED BY <1>1, <1>2, <1>3, <1>4, <1>5, <1>7, <2>1 DEF IndexInv, Rests
<1>8. CASE ~Rests(pending)
  <2>1. PICK op \in {"insertMember", "getIndexMember"} :
          /\ Asks(op, c, pending) /\ C(op, c.req) \in Wait
          /\ C(op, c.req).op = op /\ C(op, c.req).req = c.req
          /\ op = "insertMember" =>
               C(op, c.req).index = inputIndex[c.req] /\ inputIndex[c.req] # None
    BY <1>6, <1>8
  <2> DEFINE n == C(op, c.req)
  <2>2. /\ wire' = Append(wire, n) /\ pending' = Append(pending, n)
        /\ n \in Wait /\ n \in Call /\ n.op = op /\ n.req = c.req
        /\ op = "insertMember" => n.index = inputIndex[c.req] /\ inputIndex[c.req] # None
    BY <2>1 DEF Asks, Wait
  <2> HIDE DEF n
  <2>3. IndexFirst(ask, inputIndex, pending')
    BY <1>1, <1>3, <2>2, IndexAppend
  <2>4. Elems(wire') = Elems(wire) \cup {n} /\ Elems(pending') = Elems(pending) \cup {n}
    BY SMTT(30), <1>1, <2>2, ElemsAppend
  <2>5. /\ \A d \in Elems(pending') \cup Elems(F) :
             d.op = "getIndexers" => inputIndex[d.req] = None
        /\ \A d \in Elems(wire') \cup Elems(pending') \cup Elems(F) :
             d.op = "insertMember" => d.index = inputIndex[d.req] /\ d.index # None
    BY <1>1, <1>3, <2>2, <2>4
  <2> QED BY <1>1, <1>2, <1>4, <1>5, <2>3, <2>5 DEF IndexInv
<1> QED BY <1>7, <1>8

LEMMA IndexNext == TypeOK /\ QueueInv /\ IndexInv /\ [Next]_vars => IndexInv'
<1> SUFFICES ASSUME TypeOK, QueueInv, IndexInv, [Next]_vars PROVE IndexInv'
  OBVIOUS
<1>1. /\ IndexFirst(ask, inputIndex, pending) /\ IndexFirst(ask, inputIndex, failing)
      /\ \A c \in Elems(pending) \cup Elems(failing) :
           c.op = "getIndexers" => inputIndex[c.req] = None
      /\ \A c \in Elems(wire) \cup Elems(pending) \cup Elems(failing) :
           c.op = "insertMember" => c.index = inputIndex[c.req] /\ c.index # None
      /\ \A d \in members : Belongs(d)
  BY DEF IndexInv
<1>2. CASE Execute
  <2>1. UNCHANGED <<pending, failing, ask, inputIndex>>
    BY <1>2 DEF Execute, lb
  <2>2. /\ Elems(wire) = Elems(wire') \cup {Head(wire)} /\ Head(wire) \in Call
        /\ ask[Head(wire).req] \in Ask
    BY <1>2, ExecuteFacts
  <2>3. \A d \in members : Belongs(d)'
    BY <1>1, <2>1 DEF Belongs
  <2>5. members' = IF Head(wire).op = "insertMember" THEN members \cup {Document(Head(wire))}
                   ELSE members
    BY <1>2 DEF Execute
  <2>6. \A d \in members' : Belongs(d)'
    <3> DEFINE D == Document(Head(wire))
    <3>1. \A d \in members' : d \in members \/ (Head(wire).op = "insertMember" /\ d = D)
      BY <2>5
    <3> SUFFICES ASSUME NEW d \in members' PROVE Belongs(d)'
      OBVIOUS
    <3>3. CASE d \in members
      BY <2>3, <3>3
    <3>4. CASE d \notin members
      <4>1. d = D /\ Head(wire).op = "insertMember"
        BY <3>1, <3>4
      <4> QED BY <1>1, <2>1, <2>2, <4>1, AskAssumption DEF Belongs, Document
    <3> QED BY <3>3, <3>4
  <2>7. \A c \in Elems(wire') \cup Elems(pending) \cup Elems(failing) :
          c.op = "insertMember" => c.index = inputIndex[c.req] /\ c.index # None
    BY <1>1, <2>2
  <2> QED BY <1>1, <2>1, <2>6, <2>7 DEF IndexInv
<1>3. CASE ConnectionLost
  <2>1. Elems(wire') \subseteq Elems(wire) /\ pending' = <<>>
    BY <1>3, BreakFacts
  <2>2. failing' = pending /\ UNCHANGED <<members, ask, inputIndex>>
    BY <1>3 DEF ConnectionLost, mongo, lb
  <2>3. IndexFirst(ask', inputIndex', pending') /\ Elems(pending') = {}
    BY SMTT(30), <2>1, ElemsEmpty DEF IndexFirst
  <2>4. \A d \in members' : Belongs(d)'
    BY <1>1, <2>2 DEF Belongs
  <2> QED BY <1>1, <2>1, <2>2, <2>3, <2>4 DEF IndexInv
<1>4. CASE FailThrows
  <2>1. Elems(wire') \subseteq Elems(wire) /\ pending' = <<>>
    BY <1>4, BreakFacts
  <2>2. failing' = <<>> /\ UNCHANGED <<members, ask, inputIndex>>
    BY <1>4 DEF FailThrows, mongo, lb
  <2>3. /\ IndexFirst(ask', inputIndex', pending') /\ IndexFirst(ask', inputIndex', failing')
        /\ Elems(pending') = {} /\ Elems(failing') = {}
    BY SMTT(30), <2>1, <2>2, ElemsEmpty DEF IndexFirst
  <2>4. \A d \in members' : Belongs(d)'
    BY <1>1, <2>2 DEF Belongs
  <2> QED BY <1>1, <2>1, <2>2, <2>3, <2>4 DEF IndexInv
<1>5. CASE Restart \/ UNCHANGED vars
  <2>1. UNCHANGED <<wire, pending, failing, members, ask, inputIndex>>
    BY <1>5 DEF Restart, vars, mongo, lb
  <2> QED BY <2>1 DEF IndexInv, Belongs
<1> QED BY <1>2, <1>3, <1>4, <1>5, IndexPost, IndexCallback, IndexFail DEF Next

-----------------------------------------------------------------------------
LEMMA CountNext ==
  TypeOK /\ QueueInv /\ CounterInv /\ CountInv /\ [Next]_vars => CountInv'
<1> SUFFICES ASSUME TypeOK, QueueInv, CounterInv, CountInv, [Next]_vars PROVE CountInv'
  OBVIOUS
<1>0. /\ \A r \in Req : inputIndex[r] # None => Counted(inputIndex[r])
      /\ \A r, s \in Req : inputIndex[r] # None /\ inputIndex[r] = inputIndex[s] => r = s
      /\ \A i \in 1..Len(answers) : pending[i].op = "getIndexers" =>
           Counted(answers[i].seq) /\ \A r \in Req : inputIndex[r] # answers[i].seq
      /\ \A i, j \in 1..Len(answers) :
           pending[i].op = "getIndexers" /\ pending[j].op = "getIndexers"
             /\ answers[i].seq = answers[j].seq => i = j
  BY DEF CountInv
<1>1. ASSUME answers' = answers, \A i \in 1..Len(answers) : pending'[i] = pending[i],
             inputIndex' = inputIndex, user_index' = user_index
      PROVE  CountInv'
  BY SMTT(30), <1>0, <1>1 DEF CountInv, Counted
<1>2. ASSUME NEW r \in Req, NEW a \in Ask, Post(r, a) PROVE CountInv'
  <2>1. inputIndex' = inputIndex /\ user_index' = user_index
    BY <1>2 DEF Post, mongo
  <2> QED BY <1>1, <1>2, <2>1, PostAnswers
<1>3. CASE Execute
  <2> DEFINE c == Head(wire)
             m == Len(answers)
  <2>1. inputIndex' = inputIndex
    BY <1>3 DEF Execute, lb
  <2>2. /\ pending' = pending /\ m \in Nat
        /\ \/ answers' = answers
           \/ /\ Len(answers') = m + 1 /\ \A i \in 1..m : answers'[i] = answers[i]
              /\ answers'[m + 1] = Result(c) /\ pending[m + 1] = c
    BY <1>3, ExecuteAnswers
  <2>3. user_index' = CASE c.op = "initIndexers" -> initIndexers
                        [] c.op = "getIndexers"  -> getIndexers
                        [] OTHER -> user_index
    BY <1>3 DEF Execute
  <2>4. c.op = "getIndexers" => user_index # None
    <3>1. c = wire[1] /\ Len(wire) \in Nat \ {0} /\ CounterFirst(user_index, wire)
      BY <1>3, ExecuteFacts DEF CounterInv
    <3> HIDE DEF c
    <3> QED BY <3>1 DEF CounterFirst
  <2> HIDE DEF c, m
  <2>5. /\ user_index \in Nat => user_index' \in Nat /\ user_index <= user_index'
        /\ c.op = "getIndexers" => /\ user_index \in Nat /\ user_index' = user_index + 1
                                   /\ Result(c).seq = user_index'
    BY SMTT(30), <2>3, <2>4, MembersAssumption DEF TypeOK, initIndexers, getIndexers, Result
  <2>6. \A n : Counted(n) => /\ Counted(n)'
                             /\ c.op = "getIndexers" => n # Result(c).seq
    BY <2>5 DEF Counted
  <2>7. /\ \A r \in Req : inputIndex'[r] # None => Counted(inputIndex[r])'
        /\ \A r, s \in Req : inputIndex'[r] # None /\ inputIndex'[r] = inputIndex'[s] => r = s
    <3>1. \A r \in Req : inputIndex[r] # None => Counted(inputIndex[r])
      BY <1>0
    <3>2. \A r, s \in Req : inputIndex[r] # None /\ inputIndex[r] = inputIndex[s] => r = s
      BY <1>0
    <3>3. \A r \in Req : inputIndex'[r] # None => Counted(inputIndex[r])'
      BY SMTT(30), <2>1, <2>5, <3>1 DEF Counted
    <3> QED BY <2>1, <3>2, <3>3
  <2>8. c.op = "getIndexers" =>
          /\ Result(c).seq \in Nat /\ user_index' \in Nat /\ Result(c).seq <= user_index'
          /\ Result(c).seq # None /\ \A r \in Req : inputIndex[r] # Result(c).seq
    <3>1. \A r \in Req : inputIndex[r] # None => Counted(inputIndex[r])
      BY <1>0
    <3> SUFFICES ASSUME c.op = "getIndexers"
        PROVE  /\ Result(c).seq \in Nat /\ user_index' \in Nat /\ Result(c).seq <= user_index'
               /\ Result(c).seq # None /\ \A r \in Req : inputIndex[r] # Result(c).seq
      OBVIOUS
    <3>2. /\ Result(c).seq \in Nat /\ user_index' \in Nat /\ Result(c).seq <= user_index'
          /\ Result(c).seq # None
      BY SMTT(30), <2>5, MembersAssumption
    <3> QED BY <2>6, <3>1, <3>2
  <2>9. CASE answers' = answers
    BY SMTT(30), <1>0, <2>1, <2>2, <2>5, <2>7, <2>9 DEF CountInv, Counted
  <2>10. CASE answers' # answers
    <3>1. /\ Len(answers') = m + 1 /\ \A i \in 1..m : answers'[i] = answers[i]
          /\ answers'[m + 1] = Result(c) /\ pending[m + 1] = c /\ m = Len(answers)
      BY <2>2, <2>10 DEF m
    <3>2. ASSUME NEW i \in 1..Len(answers'), pending[i].op = "getIndexers"
          PROVE  /\ answers'[i].seq \in Nat /\ user_index' \in Nat
                 /\ answers'[i].seq <= user_index'
                 /\ \A r \in Req : inputIndex[r] # answers'[i].seq
                 /\ i # m + 1 => answers'[i] = answers[i] /\ i \in 1..m
                                 /\ Counted(answers[i].seq)
      <4>1. CASE i = m + 1
        BY <2>8, <3>1, <3>2, <4>1
      <4>2. CASE i # m + 1
        <5>1. i \in 1..m /\ answers'[i] = answers[i]
          BY <2>2, <3>1, <4>2
        <5>2. Counted(answers[i].seq) /\ \A r \in Req : inputIndex[r] # answers[i].seq
          BY <1>0, <3>1, <3>2, <5>1
        <5> QED BY <2>5, <5>1, <5>2 DEF Counted
      <4> QED BY <4>1, <4>2
    <3>3. ASSUME NEW i \in 1..Len(answers'), NEW j \in 1..Len(answers'),
                 pending[i].op = "getIndexers", pending[j].op = "getIndexers",
                 answers'[i].seq = answers'[j].seq, i # j
          PROVE  FALSE
      <4>1. CASE i = m + 1
        <5>1. c.op = "getIndexers" /\ Counted(answers[j].seq) /\ answers[j].seq = Result(c).seq
          BY <3>1, <3>2, <3>3, <4>1
        <5> QED BY <2>6, <5>1
      <4>2. CASE j = m + 1
        <5>1. c.op = "getIndexers" /\ Counted(answers[i].seq) /\ answers[i].seq = Result(c).seq
          BY <3>1, <3>2, <3>3, <4>2
        <5> QED BY <2>6, <5>1
      <4>3. CASE i # m + 1 /\ j # m + 1
        <5>1. i \in 1..Len(answers) /\ j \in 1..Len(answers)
              /\ answers[i].seq = answers[j].seq
          BY <3>1, <3>2, <3>3, <4>3
        <5> QED BY <1>0, <3>3, <5>1
      <4> QED BY <4>1, <4>2, <4>3
    <3> QED BY <2>1, <2>2, <2>7, <3>2, <3>3 DEF CountInv, Counted
  <2> QED BY <2>9, <2>10
<1>4. CASE Callback
  <2> DEFINE c == Head(pending)
             n == Head(answers).seq
  <2>1. /\ c = pending[1] /\ n = answers[1].seq /\ 1 \in 1..Len(answers) /\ c.req \in Req
        /\ \/ inputIndex' = inputIndex
           \/ /\ c.op = "getIndexers" /\ n # None
              /\ inputIndex' = [inputIndex EXCEPT ![c.req] = n]
    <3>1. /\ c = pending[1] /\ n = answers[1].seq /\ 1 \in 1..Len(answers) /\ c.req \in Req
          /\ \/ Counts(c, n, Tail(pending)) \/ Inserted(c, Tail(pending))
             \/ Queries(c, Head(answers).found, Tail(pending))
      BY <1>4, CallbackHead
    <3> HIDE DEF c, n
    <3> QED BY <3>1 DEF Counts, Inserted, Queries
  <2>2. \A i \in 1..Len(answers') : /\ i + 1 \in 1..Len(answers) /\ i + 1 # 1
                                    /\ answers'[i] = answers[i + 1]
                                    /\ pending'[i] = pending[i + 1]
    BY <1>4, CallbackAnswers
  <2>3. user_index' = user_index /\ Len(answers') \in Nat
    <3>1. Len(answers') = Len(answers) - 1 /\ Len(answers) \in Nat /\ 1 \in 1..Len(answers)
      BY <1>4, CallbackFacts
    <3>2. Len(answers') \in Nat
      BY SMTT(30), <3>1
    <3> QED BY <1>4, <3>2 DEF Callback, mongo
  <2>4. \A i, j \in 1..Len(answers') :
          pending'[i].op = "getIndexers" /\ pending'[j].op = "getIndexers"
            /\ answers'[i].seq = answers'[j].seq => i = j
    BY SMTT(30), <1>0, <2>2, <2>3
  <2> HIDE DEF c, n
  <2>5. CASE inputIndex' = inputIndex
    <3>1. \A i \in 1..Len(answers') : pending'[i].op = "getIndexers" =>
            Counted(answers'[i].seq) /\ \A r \in Req : inputIndex[r] # answers'[i].seq
      BY SMTT(30), <1>0, <2>2
    <3> QED BY <1>0, <2>3, <2>4, <2>5, <3>1 DEF CountInv, Counted
  <2>6. CASE inputIndex' # inputIndex
    <3>1. /\ c.op = "getIndexers" /\ n # None /\ inputIndex'[c.req] = n
          /\ \A r \in Req : r # c.req => inputIndex'[r] = inputIndex[r]
      BY <2>1, <2>6 DEF TypeOK
    <3>2. Counted(n) /\ \A r \in Req : inputIndex[r] # n
      BY SMTT(30), <1>0, <2>1, <3>1
    <3>3. \A r \in Req : inputIndex'[r] # None => Counted(inputIndex'[r])
      BY <1>0, <3>1, <3>2
    <3>4. \A r, s \in Req : inputIndex'[r] # None /\ inputIndex'[r] = inputIndex'[s] => r = s
      BY SMTT(30), <1>0, <3>1, <3>2
    <3>5. \A i \in 1..Len(answers') : pending'[i].op = "getIndexers" =>
            Counted(answers'[i].seq) /\ \A r \in Req : inputIndex'[r] # answers'[i].seq
      <4> SUFFICES ASSUME NEW i \in 1..Len(answers'), pending'[i].op = "getIndexers"
                   PROVE  Counted(answers'[i].seq)
                          /\ \A r \in Req : inputIndex'[r] # answers'[i].seq
        OBVIOUS
      <4> DEFINE k == i + 1
      <4>1. /\ k \in 1..Len(answers) /\ k # 1 /\ pending[k].op = "getIndexers"
            /\ answers'[i] = answers[k]
        BY <2>2
      <4> HIDE DEF k
      <4>2. Counted(answers[k].seq) /\ \A r \in Req : inputIndex[r] # answers[k].seq
        BY <1>0, <4>1
      <4>3. answers[k].seq # n
        BY <1>0, <2>1, <3>1, <4>1
      <4> QED BY <3>1, <4>1, <4>2, <4>3
    <3> QED BY <2>3, <2>4, <3>3, <3>4, <3>5 DEF CountInv, Counted
  <2> QED BY <2>5, <2>6
<1>5. CASE FailFind
  <2>1. inputIndex' = inputIndex /\ user_index' = user_index
    BY <1>5, FailFacts DEF FailFind, mongo, Queries
  <2> QED BY <1>1, <1>5, <2>1, FailAnswers
<1>6. CASE ConnectionLost \/ FailThrows
  <2>1. Len(answers') = 0
    BY <1>6, BreakFacts
  <2>2. inputIndex' = inputIndex /\ user_index' = user_index
    BY <1>6 DEF ConnectionLost, FailThrows, mongo, lb
  <2> QED BY SMTT(30), <1>0, <2>1, <2>2 DEF CountInv, Counted
<1>7. CASE Restart \/ UNCHANGED vars
  BY <1>1, <1>7 DEF Restart, vars, mongo, lb
<1> QED BY <1>2, <1>3, <1>4, <1>5, <1>6, <1>7 DEF Next

\* Every member has an index of its own, whatever requests run at once and however
\* often the connection breaks or the process ends.
THEOREM IndexesDiffer == Spec => []OwnIndex
<1>1. Init => IndexInv /\ CountInv
  BY SMTT(30), ElemsEmpty DEF Init, IndexInv, CountInv, IndexFirst
<1>2. TypeOK /\ IndexInv /\ CountInv => OwnIndex
  <2> SUFFICES ASSUME TypeOK, IndexInv, CountInv PROVE OwnIndex
    OBVIOUS
  <2>1. \A d \in members : Belongs(d) /\ d \in Doc
    BY DEF IndexInv, TypeOK
  <2>2. ASSUME NEW d \in members, NEW e \in members, d.index = e.index PROVE d = e
    <3>1. d._id \in Req /\ e._id \in Req /\ d._id = e._id
      BY SMTT(30), <2>1, <2>2 DEF Belongs, Doc, CountInv
    <3> QED BY SMTT(30), <2>1, <3>1 DEF Belongs, Doc
  <2> QED BY <2>1, <2>2 DEF OwnIndex, Belongs
<1>3. Init => CounterInv
  BY SMTT(30) DEF Init, CounterInv, CounterThere, CounterFirst
<1> QED BY <1>1, <1>2, <1>3, IndexNext, CountNext, CounterNext, TypeCorrect, PTL DEF Spec

-----------------------------------------------------------------------------
\* A login of D is behind the insert of its credentials on the wire, or that has
\* been executed; docs are the members.
Cred(asked, r) == <<asked[r].email, asked[r].password>>
Has(docs, k)   == \E d \in docs : <<d.email, d.password>> = k

LoginFirst(asked, docs, D, w) == \A j \in 1..Len(w) :
  w[j].op = "checkLoginMember" /\ w[j].req \in D =>
    \/ Has(docs, Cred(asked, w[j].req))
    \/ \E i \in 1..Len(w) : /\ i < j /\ w[i].op = "insertMember"
                            /\ Cred(asked, w[i].req) = Cred(asked, w[j].req)

\* What a browser was told of is a member, or on the wire W.
KnownSent(asked, docs, K, W) == \A k \in K :
  Has(docs, k) \/ \E c \in W : c.op = "insertMember" /\ Cred(asked, c.req) = k

LoginInv ==
  /\ LoginAfterJoin /\ LoginFirst(ask, members, due, wire)
  /\ KnownSent(ask, members, known, Elems(wire))
  /\ \A r \in Req : ask[r] = None => answer[r] = None
  /\ \A r \in due : ask[r] # None /\ ask[r].kind = "login"
  /\ failing # <<>> => due = {}
  /\ \A i \in 1..Len(answers) :
       pending[i].op = "checkLoginMember" /\ pending[i].req \in due => answers[i].found

\* Every request has its answer, or among the calls P the callback that gives it.
Waits(asked, told, P) == \A r \in Req : asked[r] # None /\ told[r] = None =>
  \E c \in P : c.req = r /\ c.op \in {"checkIdMember", "checkLoginMember", "getIndexMember"}

\* The second query of a login finds its member.
IsMember(docs, e) == \E d \in docs : d.email = e

IndexFound(asked, docs, P) ==
  \A c \in P : c.op = "getIndexMember" => IsMember(docs, asked[c.req].email)

AnswersTrue(asked, docs, p, a) == \A i \in 1..Len(a) :
  /\ p[i].op = "checkLoginMember" /\ a[i].found => Has(docs, Cred(asked, p[i].req))
  /\ p[i].op = "getIndexMember" => a[i].found

ForgottenInv ==
  /\ ~lost => failing = <<>> /\ up /\ Waits(ask, answer, Elems(pending))
  /\ IndexFound(ask, members, Elems(pending)) /\ AnswersTrue(ask, members, pending, answers)

-----------------------------------------------------------------------------
LEMMA LoginAppend ==
  ASSUME NEW asked, NEW docs, NEW D, NEW w \in Seq(Call), LoginFirst(asked, docs, D, w),
         NEW c \in Call,
         c.op = "checkLoginMember" /\ c.req \in D =>
           \/ Has(docs, Cred(asked, c.req))
           \/ \E d \in Elems(w) : d.op = "insertMember" /\ Cred(asked, d.req) = Cred(asked, c.req)
  PROVE  LoginFirst(asked, docs, D, Append(w, c))
<1> DEFINE w2 == Append(w, c)
<1>1. /\ Len(w2) = Len(w) + 1 /\ w2[Len(w) + 1] = c /\ Len(w) \in Nat
      /\ \A i \in 1..Len(w) : w2[i] = w[i]
  BY SMTT(30), SeqAppend, SeqLen
<1> HIDE DEF w2
<1>2. LoginFirst(asked, docs, D, w2)
  <2> SUFFICES ASSUME NEW j \in 1..Len(w2), w2[j].op = "checkLoginMember", w2[j].req \in D,
                      ~Has(docs, Cred(asked, w2[j].req))
               PROVE  \E i \in 1..Len(w2) : /\ i < j /\ w2[i].op = "insertMember"
                                            /\ Cred(asked, w2[i].req) = Cred(asked, w2[j].req)
    BY DEF LoginFirst
  <2>1. CASE j = Len(w) + 1
    <3>1. PICK i \in 1..Len(w) : /\ w[i].op = "insertMember"
                                 /\ Cred(asked, w[i].req) = Cred(asked, c.req)
      BY <1>1, <2>1 DEF Elems
    <3> QED BY <1>1, <2>1, <3>1
  <2>2. CASE j # Len(w) + 1
    <3>1. j \in 1..Len(w) /\ w2[j] = w[j]
      BY <1>1, <2>2
    <3>2. PICK i \in 1..Len(w) : /\ i < j /\ w[i].op = "insertMember"
                                 /\ Cred(asked, w[i].req) = Cred(asked, w[j].req)
      BY <3>1 DEF LoginFirst
    <3> QED BY <1>1, <3>1, <3>2
  <2> QED BY <2>1, <2>2
<1> QED BY <1>2 DEF w2

LEMMA LoginPost ==
  ASSUME TypeOK, QueueInv, LoginInv, NEW r \in Req, NEW a \in Ask, Post(r, a)
  PROVE  LoginInv'
<1>0. /\ LoginFirst(ask, members, due, wire) /\ KnownSent(ask, members, known, Elems(wire))
      /\ \A q \in Req : ask[q] = None => answer[q] = None
      /\ \A q \in due : ask[q] # None /\ ask[q].kind = "login"
      /\ \A q \in due : answer[q] # FALSE
      /\ wire \in Seq(Call) /\ due \subseteq Req
  BY DEF LoginInv, LoginAfterJoin, TypeOK
<1>1. /\ ask[r] = None /\ ask'[r] = a /\ a # None
      /\ \A q \in Req : q # r => ask'[q] = ask[q]
      /\ failing = <<>> /\ failing' = failing /\ known' = known /\ members' = members
      /\ answer' = answer
      /\ due' = IF a.kind = "login" /\ <<a.email, a.password>> \in known
                THEN due \cup {r} ELSE due
  BY AskAssumption DEF Post, TypeOK, mongo
<1>2. \A c \in Elems(wire) \cup Elems(pending) : c.req \in Req /\ c.req # r
  <2>1. \A c \in Elems(wire) \cup Elems(pending) : c \in Call /\ ask[c.req] # None
    BY DEF QueueInv, Once
  <2> QED BY <1>1, <2>1 DEF Call
<1>3. /\ \A i \in 1..Len(wire) : wire[i].req \in Req /\ wire[i].req # r
      /\ \A i \in 1..Len(pending) : pending[i].req # r
  BY <1>2 DEF Elems
<1>4. \A q \in Req : q # r => Cred(ask', q) = Cred(ask, q)
  BY <1>1 DEF Cred
<1>5. LoginFirst(ask', members, due', wire)
  <2>1. \A q \in due' : q # r => q \in due
    BY <1>1
  <2>2. \A j \in 1..Len(wire) : Cred(ask', wire[j].req) = Cred(ask, wire[j].req)
    BY <1>3, <1>4
  <2>3. ASSUME NEW j \in 1..Len(wire),
               wire[j].op = "checkLoginMember", wire[j].req \in due'
        PROVE  \/ Has(members, Cred(ask', wire[j].req))
               \/ \E n \in 1..Len(wire) :
                    /\ n < j /\ wire[n].op = "insertMember"
                    /\ Cred(ask', wire[n].req) = Cred(ask', wire[j].req)
    <3>1. wire[j].req \in due
      BY <1>3, <2>1, <2>3
    <3>2. \/ Has(members, Cred(ask, wire[j].req))
          \/ \E n \in 1..Len(wire) :
               /\ n < j /\ wire[n].op = "insertMember"
               /\ Cred(ask, wire[n].req) = Cred(ask, wire[j].req)
      BY <1>0, <2>3, <3>1 DEF LoginFirst
    <3> QED BY <2>2, <3>2
  <2> QED BY <2>3 DEF LoginFirst
<1>6. KnownSent(ask', members, known, Elems(wire))
  BY <1>0, <1>2, <1>4 DEF KnownSent
<1>7. ASSUME a.kind = "login", r \in due'
      PROVE  \/ Has(members, Cred(ask', r))
             \/ \E d \in Elems(wire) : d.op = "insertMember" /\ Cred(ask', d.req) = Cred(ask', r)
  <2>1. Cred(ask', r) \in known
    BY <1>0, <1>1, <1>7 DEF Cred
  <2> QED BY <1>6, <2>1 DEF KnownSent
<1> DEFINE i == C("initIndexers", r)
           g == C("getIndexers", r)
           k == C("checkIdMember", r)
           l == C("checkLoginMember", r)
<1>8. /\ i \in Call /\ i.op = "initIndexers" /\ g \in Call /\ g.op = "getIndexers"
      /\ k \in Call /\ k.op = "checkIdMember"
      /\ l \in Call /\ l.op = "checkLoginMember" /\ l.req = r
  BY SMTT(30), CallType DEF Op
<1>9. \/ wire' = Append(Append(Append(wire, i), g), k)
      \/ wire' = Append(wire, k)
      \/ a.kind = "login" /\ wire' = Append(wire, l)
  BY PostCases DEF PostsJoin, Posts
<1> HIDE DEF i, g, k, l
<1>10. LoginFirst(ask', members, due', wire') /\ Elems(wire) \subseteq Elems(wire')
  <2>1. CASE wire' = Append(Append(Append(wire, i), g), k)
    <3> DEFINE wi == Append(wire, i)
               wg == Append(wi, g)
    <3>1. LoginFirst(ask', members, due', wi) /\ wi \in Seq(Call)
          /\ Elems(wi) = Elems(wire) \cup {i}
      <4>1. LoginFirst(ask', members, due', wi)
        BY <1>0, <1>5, <1>8, LoginAppend
      <4>2. wi \in Seq(Call)
        BY <1>0, <1>8, SeqAppend
      <4>3. Elems(wi) = Elems(wire) \cup {i}
        BY SMTT(30), <1>0, <1>8, ElemsAppend
      <4> QED BY <4>1, <4>2, <4>3
    <3> HIDE DEF wi
    <3>2. LoginFirst(ask', members, due', wg) /\ wg \in Seq(Call)
          /\ Elems(wg) = Elems(wi) \cup {g}
      <4>1. LoginFirst(ask', members, due', wg)
        BY <1>8, <3>1, LoginAppend
      <4>2. wg \in Seq(Call)
        BY <1>8, <3>1, SeqAppend
      <4>3. Elems(wg) = Elems(wi) \cup {g}
        BY SMTT(30), <1>8, <3>1, ElemsAppend
      <4> QED BY <4>1, <4>2, <4>3
    <3>3. wire' = Append(wg, k)
      BY <2>1 DEF wi
    <3> HIDE DEF wg
    <3>4. LoginFirst(ask', members, due', Append(wg, k))
      BY <1>8, <3>2, LoginAppend
    <3>5. Elems(Append(wg, k)) = Elems(wg) \cup {k}
      BY SMTT(30), <1>8, <3>2, ElemsAppend
    <3> QED BY <3>1, <3>2, <3>3, <3>4, <3>5
  <2>2. CASE wire' = Append(wire, k)
    <3>1. LoginFirst(ask', members, due', Append(wire, k))
      BY <1>0, <1>5, <1>8, LoginAppend
    <3>2. Elems(Append(wire, k)) = Elems(wire) \cup {k}
      BY SMTT(30), <1>0, <1>8, ElemsAppend
    <3> QED BY <2>2, <3>1, <3>2
  <2>3. CASE a.kind = "login" /\ wire' = Append(wire, l)
    <3>1. Elems(wire') = Elems(wire) \cup {l}
      BY SMTT(30), <1>0, <1>8, <2>3, ElemsAppend
    <3> QED BY <1>0, <1>5, <1>7, <1>8, <2>3, <3>1, LoginAppend
  <2> QED BY <1>9, <2>1, <2>2, <2>3
<1>11. KnownSent(ask', members', known', Elems(wire'))
  BY <1>1, <1>6, <1>10 DEF KnownSent
<1>12. LoginAfterJoin'
  BY <1>0, <1>1, MembersAssumption DEF LoginAfterJoin
<1>13. \A q \in due' : ask'[q] # None /\ ask'[q].kind = "login"
  BY <1>0, <1>1
<1>14. \A j \in 1..Len(answers') :
         pending'[j].op = "checkLoginMember" /\ pending'[j].req \in due' => answers'[j].found
  <2>1. answers' = answers /\ \A j \in 1..Len(answers) : pending'[j] = pending[j]
    BY PostAnswers
  <2>2. \A j \in 1..Len(answers) : j \in 1..Len(pending)
    BY AnswersPending
  <2>3. \A q \in due' : q # r => q \in due
    BY <1>1
  <2>4. \A j \in 1..Len(answers) :
          pending[j].op = "checkLoginMember" /\ pending[j].req \in due => answers[j].found
    BY DEF LoginInv
  <2> QED BY <1>3, <2>1, <2>2, <2>3, <2>4
<1>15. \A q \in Req : ask'[q] = None => answer'[q] = None
  BY <1>0, <1>1
<1> QED BY <1>1, <1>10, <1>11, <1>12, <1>13, <1>14, <1>15 DEF LoginInv

LEMMA LoginExecute ==
  ASSUME TypeOK, QueueInv, LoginInv, Execute
  PROVE  LoginInv'
<1> DEFINE c == Head(wire)
           m == Len(answers)
<1>0. /\ LoginFirst(ask, members, due, wire) /\ KnownSent(ask, members, known, Elems(wire))
  BY DEF LoginInv
<1>1. ask' = ask /\ answer' = answer /\ known' = known /\ due' = due /\ failing' = failing
  BY DEF Execute, lb
<1>2. /\ c = wire[1] /\ Len(wire') = Len(wire) - 1 /\ Len(wire) \in Nat \ {0}
      /\ \A i \in 1..Len(wire') : wire'[i] = wire[i + 1]
      /\ Elems(wire) = Elems(wire') \cup {c} /\ wire' \in Seq(Call)
  BY ExecuteFacts
<1>3. members' = IF c.op = "insertMember" THEN members \cup {Document(c)} ELSE members
  BY DEF Execute
<1>4. c.op = "insertMember" => Has(members', Cred(ask, c.req))
  <2>1. /\ Document(c).email = ask[c.req].email /\ Document(c).password = ask[c.req].password
        /\ c.op = "insertMember" => Document(c) \in members'
    BY <1>3 DEF Document
  <2> QED BY <2>1 DEF Has, Cred
<1>5. \A k : Has(members, k) => Has(members', k)
  BY <1>3 DEF Has
<1>6. c.op = "checkLoginMember" /\ c.req \in due => Result(c).found
  <2> SUFFICES ASSUME c.op = "checkLoginMember", c.req \in due PROVE Result(c).found
    OBVIOUS
  <2>1. Has(members, Cred(ask, c.req))
    <3> HIDE DEF c
    <3> QED BY SMTT(30), <1>0, <1>2 DEF LoginFirst
  <2> QED BY <2>1 DEF Result, Has, Cred, FoundLogin, Credentials
<1>7. /\ pending' = pending /\ m \in Nat
      /\ \/ answers' = answers
         \/ /\ Len(answers') = m + 1 /\ \A i \in 1..m : answers'[i] = answers[i]
            /\ answers'[m + 1] = Result(c) /\ pending[m + 1] = c
  BY ExecuteAnswers
<1> HIDE DEF c
<1>8. LoginFirst(ask, members', due, wire')
  <2> SUFFICES ASSUME NEW j \in 1..Len(wire'), wire'[j].op = "checkLoginMember",
                      wire'[j].req \in due, ~Has(members', Cred(ask, wire'[j].req))
               PROVE  \E i \in 1..Len(wire') : /\ i < j /\ wire'[i].op = "insertMember"
                                               /\ Cred(ask, wire'[i].req) = Cred(ask, wire'[j].req)
    BY DEF LoginFirst
  <2> DEFINE k == j + 1
  <2>1. k \in 1..Len(wire) /\ wire'[j] = wire[k] /\ j = k - 1
    BY SMTT(30), <1>2
  <2> HIDE DEF k
  <2>2. PICK i \in 1..Len(wire) : /\ i < k /\ wire[i].op = "insertMember"
                                  /\ Cred(ask, wire[i].req) = Cred(ask, wire[k].req)
    BY <1>0, <1>5, <2>1 DEF LoginFirst
  <2>3. i # 1
    BY <1>2, <1>4, <2>1, <2>2
  <2> DEFINE h == i - 1
  <2>4. h \in 1..Len(wire') /\ h < j /\ i = h + 1
    BY SMTT(30), <1>2, <2>1, <2>2, <2>3
  <2> HIDE DEF h
  <2>5. wire'[h] = wire[i]
    BY <1>2, <2>4
  <2> QED BY <2>1, <2>2, <2>4, <2>5
<1>9. KnownSent(ask, members', known, Elems(wire'))
  BY <1>0, <1>2, <1>4, <1>5 DEF KnownSent
<1>10. \A i \in 1..Len(answers') :
         pending[i].op = "checkLoginMember" /\ pending[i].req \in due => answers'[i].found
  <2>1. \A i \in 1..m :
          pending[i].op = "checkLoginMember" /\ pending[i].req \in due => answers[i].found
    BY DEF LoginInv
  <2> QED BY <1>6, <1>7, <2>1
<1> QED BY <1>1, <1>7, <1>8, <1>9, <1>10 DEF LoginInv, LoginAfterJoin

\* A callback sends the insert of what it tells the browser of.
LEMMA LoginSends ==
  ASSUME TypeOK, LoginInv, NEW c \in Wait, ask[c.req] # None, NEW found, NEW rest,
         Queries(c, found, rest)
  PROVE  /\ LoginFirst(ask, members, due, wire')
         /\ KnownSent(ask, members, known', Elems(wire'))
         /\ \A q \in Req : ask[q] = None => answer'[q] = None
<1>0. /\ LoginFirst(ask, members, due, wire) /\ KnownSent(ask, members, known, Elems(wire))
      /\ \A q \in Req : ask[q] = None => answer[q] = None
      /\ wire \in Seq(Call) /\ answer \in [Req -> BOOLEAN \cup {None}]
  BY DEF LoginInv, TypeOK
<1>1. c.req \in Req
  BY DEF Wait, Call
<1>2. ASSUME NEW op \in {"insertMember", "getIndexMember"}, Asks(op, c, rest)
      PROVE  /\ LoginFirst(ask, members, due, wire')
             /\ Elems(wire') = Elems(wire) \cup {C(op, c.req)}
             /\ C(op, c.req).op = op /\ C(op, c.req).req = c.req
  <2> DEFINE n == C(op, c.req)
  <2>1. n \in Call /\ n.op = op /\ n.req = c.req
    BY SMTT(30), <1>1, CallType DEF Op
  <2>2. wire' = Append(wire, n)
    BY <1>2 DEF Asks
  <2> HIDE DEF n
  <2>3. LoginFirst(ask, members, due, wire') /\ Elems(wire') = Elems(wire) \cup {n}
    <3>1. LoginFirst(ask, members, due, Append(wire, n))
      BY <1>0, <2>1, LoginAppend
    <3>2. Elems(Append(wire, n)) = Elems(wire) \cup {n}
      BY SMTT(30), <1>0, <2>1, ElemsAppend
    <3> QED BY <2>2, <3>1, <3>2
  <2> QED BY <2>1, <2>3 DEF n
<1>3. CASE Inserts(c, rest)
  <2>1. /\ LoginFirst(ask, members, due, wire')
        /\ Elems(wire') = Elems(wire) \cup {C("insertMember", c.req)}
        /\ C("insertMember", c.req).op = "insertMember" /\ C("insertMember", c.req).req = c.req
    BY <1>2, <1>3 DEF Inserts
  <2>2. known' = known \cup {Cred(ask, c.req)}
    BY <1>3 DEF Inserts, Cred, Credentials
  <2>3. \A q \in Req : q # c.req => answer'[q] = answer[q]
    BY <1>0, <1>3 DEF Inserts
  <2>4. KnownSent(ask, members, known', Elems(wire'))
    BY <1>0, <2>1, <2>2 DEF KnownSent
  <2> QED BY <1>0, <2>1, <2>3, <2>4
<1>4. CASE AsksIndex(c, found, rest)
  <2>1. /\ LoginFirst(ask, members, due, wire') /\ answer' = answer /\ known' = known
        /\ Elems(wire') = Elems(wire) \cup {C("getIndexMember", c.req)}
    BY <1>2, <1>4 DEF AsksIndex
  <2>2. KnownSent(ask, members, known', Elems(wire'))
    BY <1>0, <2>1 DEF KnownSent
  <2> QED BY <1>0, <2>1, <2>2
<1>5. CASE Tells(c, found, rest)
  <2>1. /\ wire' = wire /\ known' = known
        /\ \A q \in Req : q # c.req => answer'[q] = answer[q]
    BY <1>0, <1>5 DEF Tells, Rests
  <2> QED BY <1>0, <2>1
<1>6. CASE TellsNobody(c, found, rest)
  BY <1>0, <1>6 DEF TellsNobody, Rests
<1> QED BY <1>3, <1>4, <1>5, <1>6 DEF Queries, Outcome

LEMMA LoginCallback ==
  ASSUME TypeOK, QueueInv, LoginInv, Callback
  PROVE  LoginInv'
<1> DEFINE c == Head(pending)
           a == Head(answers)
           rest == Tail(pending)
<1>0. /\ LoginFirst(ask, members, due, wire) /\ KnownSent(ask, members, known, Elems(wire))
      /\ \A q \in Req : ask[q] = None => answer[q] = None
      /\ \A q \in due : answer[q] # FALSE
      /\ \A q \in due : ask[q] # None /\ ask[q].kind = "login"
      /\ pending \in Seq(Wait) /\ answer \in [Req -> BOOLEAN \cup {None}] /\ due \subseteq Req
  BY DEF LoginInv, LoginAfterJoin, TypeOK
<1>1. /\ ask' = ask /\ members' = members /\ due' = due /\ failing' = failing
  BY DEF Callback, mongo
<1>2. /\ c \in Wait
      /\ ask[c.req] # None /\ c.op \in OpsOf(ask[c.req].kind) /\ c.req \in Req
      /\ Counts(c, a.seq, rest) \/ Inserted(c, rest) \/ Queries(c, a.found, rest)
  <2>1. c \in Wait /\ pending # <<>> /\ c \in Elems(pending)
    BY CallbackFacts
  <2>2. Once(ask, Elems(wire), Elems(pending), Elems(failing))
    BY DEF QueueInv
  <2>3. ask[c.req] # None /\ c.op \in OpsOf(ask[c.req].kind)
    BY <2>1, <2>2 DEF Once
  <2>4. c.req \in Req
    BY <2>1 DEF Wait, Call
  <2>5. Counts(c, a.seq, rest) \/ Inserted(c, rest) \/ Queries(c, a.found, rest)
    BY CallbackFacts
  <2> QED BY <2>1, <2>3, <2>4, <2>5
<1>7. c.op = "checkLoginMember" /\ c.req \in due => a.found
  <2>1. c = pending[1] /\ a = answers[1] /\ 1 \in 1..Len(answers)
    BY CallbackHead
  <2> HIDE DEF c, a
  <2> QED BY <2>1 DEF LoginInv
<1> HIDE DEF c, a, rest
<1>3. /\ LoginFirst(ask, members, due, wire')
      /\ KnownSent(ask, members, known', Elems(wire'))
      /\ \A q \in Req : ask[q] = None => answer'[q] = None
  <2>1. CASE Counts(c, a.seq, rest) \/ Inserted(c, rest)
    BY <1>0, <2>1 DEF Counts, Inserted, Rests
  <2>2. CASE Queries(c, a.found, rest)
    BY <1>2, <2>2, LoginSends
  <2> QED BY <1>2, <2>1, <2>2
<1>4. ASSUME NEW q \in due PROVE answer'[q] # FALSE
  <2>1. CASE answer'[q] = answer[q]
    BY <1>0, <2>1
  <2>2. CASE answer'[q] # answer[q]
    <3>1. Queries(c, a.found, rest)
      BY <1>2, <2>2 DEF Counts, Inserted
    <3>2. Inserts(c, rest) \/ Tells(c, a.found, rest)
      BY <2>2, <3>1 DEF Queries, Outcome, AsksIndex, TellsNobody
    <3>3. q = c.req
      BY <1>0, <1>4, <2>2, <3>2 DEF Inserts, Tells
    <3>4. c.op \in {"checkLoginMember", "getIndexMember"}
      BY <1>0, <1>2, <1>4, <3>3 DEF OpsOf
    <3>5. c.op = "checkLoginMember" => a.found
      BY <1>4, <1>7, <3>3
    <3>6. c.op = "getIndexMember" /\ Tells(c, a.found, rest)
      BY <3>2, <3>4, <3>5 DEF Inserts, Tells
    <3> QED BY <1>0, <1>2, <3>3, <3>6 DEF Tells
  <2> QED BY <2>1, <2>2
<1>5. \A i \in 1..Len(answers') :
        pending'[i].op = "checkLoginMember" /\ pending'[i].req \in due => answers'[i].found
  BY SMTT(30), CallbackAnswers DEF LoginInv
<1>6. failing # <<>> => due = {}
  BY DEF LoginInv
<1> QED BY <1>0, <1>1, <1>3, <1>4, <1>5, <1>6 DEF LoginInv, LoginAfterJoin

LEMMA LoginNext == TypeOK /\ QueueInv /\ LoginInv /\ [Next]_vars => LoginInv'
<1> SUFFICES ASSUME TypeOK, QueueInv, LoginInv, [Next]_vars PROVE LoginInv'
  OBVIOUS
<1>1. CASE FailFind
  <2> DEFINE c == Head(failing)
  <2>1. /\ ask' = ask /\ members' = members /\ due' = {} /\ due = {}
    BY <1>1 DEF FailFind, mongo, LoginInv
  <2>2. c \in Wait /\ ask[c.req] # None /\ Queries(c, FALSE, pending)
    BY <1>1, FailFacts, AskAssumption
  <2> HIDE DEF c
  <2>3. /\ LoginFirst(ask, members, due, wire')
        /\ KnownSent(ask, members, known', Elems(wire'))
        /\ \A q \in Req : ask[q] = None => answer'[q] = None
    BY <2>2, LoginSends
  <2> QED BY <2>1, <2>3 DEF LoginInv, LoginAfterJoin
<1>2. CASE ConnectionLost \/ FailThrows
  <2>1. due' = {} /\ known' = {} /\ answers' = <<>> /\ ask' = ask /\ answer' = answer
    BY <1>2 DEF ConnectionLost, FailThrows, lb
  <2>2. LoginFirst(ask', members', due', wire') /\ KnownSent(ask', members', known', Elems(wire'))
    BY <2>1 DEF LoginFirst, KnownSent
  <2>3. Len(answers') = 0
    BY <2>1
  <2> QED BY <2>1, <2>2, <2>3 DEF LoginInv, LoginAfterJoin
<1>3. CASE Restart \/ UNCHANGED vars
  <2>1. UNCHANGED <<wire, pending, answers, failing, ask, answer, members, known, due>>
    BY <1>3 DEF Restart, vars, mongo, lb, hist
  <2> QED BY <2>1 DEF LoginInv, LoginAfterJoin
<1> QED BY <1>1, <1>2, <1>3, LoginPost, LoginExecute, LoginCallback DEF Next

\* A login that is posted after its registration was answered finds the member,
\* whatever else runs, as long as the connection holds: the insert is before it on
\* the wire.
THEOREM JoinedCanLogin == Spec => []LoginAfterJoin
<1>1. Init => LoginInv
  <2> SUFFICES ASSUME Init PROVE LoginInv
    OBVIOUS
  <2>1. wire = <<>> /\ due = {} /\ known = {} /\ answers = <<>> /\ failing = <<>>
        /\ \A r \in Req : answer[r] = None
    BY DEF Init
  <2>2. LoginFirst(ask, members, due, wire) /\ KnownSent(ask, members, known, Elems(wire))
    BY <2>1 DEF LoginFirst, KnownSent
  <2> QED BY <2>1, <2>2 DEF LoginInv, LoginAfterJoin
<1>2. LoginInv => LoginAfterJoin
  BY DEF LoginInv
<1> QED BY <1>1, <1>2, LoginNext, TypeCorrect, PTL DEF Spec

-----------------------------------------------------------------------------
LEMMA ForgottenPost ==
  ASSUME TypeOK, QueueInv, ForgottenInv, NEW r \in Req, NEW a \in Ask, Post(r, a)
  PROVE  ForgottenInv'
<1> DEFINE g == C("getIndexers", r)
           k == C("checkIdMember", r)
           l == C("checkLoginMember", r)
<1>1. /\ ask[r] = None /\ ask'[r] = a /\ \A q \in Req : q # r => ask'[q] = ask[q]
      /\ failing' = failing /\ members' = members /\ answer' = answer /\ lost' = lost
      /\ up' = up /\ pending \in Seq(Wait)
  BY DEF Post, TypeOK, mongo
<1>2. \A c \in Elems(pending) : c.req \in Req /\ c.req # r
  BY <1>1, PendingAsked
<1>3. /\ g \in Wait /\ g.op = "getIndexers" /\ g.req = r
      /\ k \in Wait /\ k.op = "checkIdMember" /\ k.req = r
      /\ l \in Wait /\ l.op = "checkLoginMember" /\ l.req = r
  BY SMTT(30), CallType DEF Op
<1>4. \/ pending' = Append(Append(pending, g), k)
      \/ pending' = Append(pending, k) \/ pending' = Append(pending, l)
  BY PostCases DEF PostsJoin, Posts
<1> HIDE DEF g, k, l
<1>5. \/ Elems(pending') = Elems(pending) \cup {g, k}
      \/ Elems(pending') = Elems(pending) \cup {k}
      \/ Elems(pending') = Elems(pending) \cup {l}
  <2> DEFINE pg == Append(pending, g)
  <2>1. CASE pending' = Append(pg, k)
    <3>1. pg \in Seq(Wait) /\ Elems(pg) = Elems(pending) \cup {g}
      <4>1. pg \in Seq(Wait)
        BY <1>1, <1>3, SeqAppend
      <4>2. Elems(pg) = Elems(pending) \cup {g}
        BY SMTT(30), <1>1, <1>3, ElemsAppend
      <4> QED BY <4>1, <4>2
    <3> HIDE DEF pg
    <3>2. Elems(pending') = Elems(pg) \cup {k}
      BY SMTT(30), <1>3, <2>1, <3>1, ElemsAppend
    <3> QED BY <3>1, <3>2
  <2>2. CASE pending' = Append(pending, k)
    <3>1. Elems(pending') = Elems(pending) \cup {k}
      BY SMTT(30), <1>1, <1>3, <2>2, ElemsAppend
    <3> QED BY <3>1
  <2>3. CASE pending' = Append(pending, l)
    <3>1. Elems(pending') = Elems(pending) \cup {l}
      BY SMTT(30), <1>1, <1>3, <2>3, ElemsAppend
    <3> QED BY <3>1
  <2> QED BY <1>4, <2>1, <2>2, <2>3
<1>6. Waits(ask, answer, Elems(pending)) => Waits(ask', answer', Elems(pending'))
  <2> SUFFICES ASSUME Waits(ask, answer, Elems(pending)),
                      NEW q \in Req, ask'[q] # None, answer'[q] = None
               PROVE  \E c \in Elems(pending') :
                        c.req = q /\ c.op \in {"checkIdMember", "checkLoginMember", "getIndexMember"}
    BY DEF Waits
  <2>1. CASE q = r
    BY <1>3, <1>5, <2>1
  <2>2. CASE q # r
    BY <1>1, <1>5, <2>2 DEF Waits
  <2> QED BY <2>1, <2>2
<1>7. IndexFound(ask', members', Elems(pending'))
  BY <1>1, <1>2, <1>3, <1>5 DEF ForgottenInv, IndexFound
<1>8. AnswersTrue(ask', members', pending', answers')
  <2>1. answers' = answers /\ \A j \in 1..Len(answers) : pending'[j] = pending[j]
    BY PostAnswers
  <2>2. \A j \in 1..Len(answers) : j \in 1..Len(pending)
    BY AnswersPending
  <2>3. \A j \in 1..Len(answers) : Cred(ask', pending[j].req) = Cred(ask, pending[j].req)
    BY <1>1, <1>2, <2>2 DEF Cred, Elems
  <2> QED BY <1>1, <2>1, <2>3 DEF ForgottenInv, AnswersTrue
<1> QED BY <1>1, <1>6, <1>7, <1>8 DEF ForgottenInv

LEMMA ForgottenExecute ==
  ASSUME TypeOK, QueueInv, ForgottenInv, Execute
  PROVE  ForgottenInv'
<1> DEFINE c == Head(wire)
           m == Len(answers)
<1>1. /\ ask' = ask /\ answer' = answer /\ failing' = failing /\ up' = up /\ lost' = lost
      /\ pending' = pending /\ members \subseteq members'
  BY DEF Execute, lb
<1>2. /\ \A k : Has(members, k) => Has(members', k)
      /\ \A e : IsMember(members, e) => IsMember(members', e)
  BY <1>1 DEF Has, IsMember
<1>3. /\ IndexFound(ask, members, Elems(pending))
      /\ AnswersTrue(ask, members, pending, answers)
  BY DEF ForgottenInv
<1>4. /\ m \in Nat
      /\ \/ answers' = answers
         \/ /\ Len(answers') = m + 1 /\ \A i \in 1..m : answers'[i] = answers[i]
            /\ answers'[m + 1] = Result(c) /\ pending[m + 1] = c /\ c \in Elems(pending)
  BY ExecuteAnswers, ExecuteFacts DEF Elems
<1>5. c.op = "checkLoginMember" /\ Result(c).found => Has(members, Cred(ask, c.req))
  BY DEF Result, FoundLogin, Credentials, Has, Cred
<1>6. c \in Elems(pending) /\ c.op = "getIndexMember" => Result(c).found
  BY <1>3 DEF IndexFound, IsMember, Result, Found
<1> HIDE DEF c
<1>7. AnswersTrue(ask, members', pending, answers')
  BY <1>2, <1>3, <1>4, <1>5, <1>6 DEF AnswersTrue
<1>8. IndexFound(ask, members', Elems(pending))
  BY <1>2, <1>3 DEF IndexFound
<1> QED BY <1>1, <1>7, <1>8 DEF ForgottenInv

LEMMA ForgottenCallback ==
  ASSUME TypeOK, QueueInv, ForgottenInv, Callback
  PROVE  ForgottenInv'
<1> DEFINE c == Head(pending)
           a == Head(answers)
           rest == Tail(pending)
           Q == {"checkIdMember", "checkLoginMember", "getIndexMember"}
<1>1. /\ ask' = ask /\ members' = members /\ failing' = failing /\ up' = up /\ lost' = lost
  BY DEF Callback, mongo
<1>2. /\ c \in Wait
      /\ c.req \in Req /\ rest \in Seq(Wait) /\ Elems(pending) = Elems(rest) \cup {c}
      /\ Counts(c, a.seq, rest) \/ Inserted(c, rest) \/ Queries(c, a.found, rest)
  BY CallbackFacts, CallbackHead
<1>3. /\ IndexFound(ask, members, Elems(pending))
      /\ AnswersTrue(ask, members, pending, answers)
      /\ answer \in [Req -> BOOLEAN \cup {None}]
  BY DEF ForgottenInv, TypeOK
<1>4. \A op \in {"insertMember", "getIndexMember"} :
        /\ C(op, c.req) \in Wait /\ C(op, c.req).op = op /\ C(op, c.req).req = c.req
  BY SMTT(30), <1>2, CallType DEF Op
<1>10. /\ c.op = "checkLoginMember" /\ a.found => Has(members, Cred(ask, c.req))
       /\ c.op = "getIndexMember" => a.found
  <2>1. c = pending[1] /\ a = answers[1] /\ 1 \in 1..Len(answers)
    BY CallbackHead
  <2> HIDE DEF c, a
  <2> QED BY <1>3, <2>1 DEF AnswersTrue
<1> HIDE DEF c, a, rest
<1>5. \A op \in {"insertMember", "getIndexMember"} :
        Asks(op, c, rest) => Elems(pending') = Elems(rest) \cup {C(op, c.req)}
  BY SMTT(30), <1>2, <1>4, ElemsAppend DEF Asks
<1>6. /\ Elems(rest) \subseteq Elems(pending')
      /\ \/ Elems(pending') = Elems(rest)
         \/ Elems(pending') = Elems(rest) \cup {C("insertMember", c.req)}
         \/ /\ Elems(pending') = Elems(rest) \cup {C("getIndexMember", c.req)}
            /\ c.op = "checkLoginMember" /\ a.found
  BY <1>2, <1>5 DEF Counts, Inserted, Queries, Outcome, Inserts, AsksIndex, Tells,
                    TellsNobody, Rests
<1>7. Waits(ask, answer, Elems(pending)) => Waits(ask, answer', Elems(pending'))
  <2> SUFFICES ASSUME Waits(ask, answer, Elems(pending)),
                      NEW q \in Req, ask[q] # None, answer'[q] = None
               PROVE  \E d \in Elems(pending') : d.req = q /\ d.op \in Q
    BY DEF Waits
  <2>1. answer[q] = None
    <3>1. \/ answer' = answer
          \/ \E b \in BOOLEAN : answer' = [answer EXCEPT ![c.req] = b]
      BY <1>2 DEF Counts, Inserted, Queries, Outcome, Inserts, AsksIndex, Tells, TellsNobody
    <3> QED BY <1>2, <1>3, <3>1, MembersAssumption
  <2>2. PICK d \in Elems(pending) : d.req = q /\ d.op \in Q
    BY <2>1 DEF Waits
  <2>3. CASE d # c
    BY <1>2, <1>6, <2>2, <2>3
  <2>4. CASE d = c
    <3>1. Queries(c, a.found, rest)
      BY <1>2, <2>2, <2>4 DEF Counts, Inserted
    <3>2. ~Inserts(c, rest) /\ ~Tells(c, a.found, rest)
      BY <1>2, <1>3, <2>2, <2>4, MembersAssumption DEF Inserts, Tells
    <3>3. ~TellsNobody(c, a.found, rest)
      BY <1>10 DEF TellsNobody
    <3>4. AsksIndex(c, a.found, rest)
      BY <3>1, <3>2, <3>3 DEF Queries, Outcome
    <3>5. Elems(pending') = Elems(rest) \cup {C("getIndexMember", c.req)}
      BY <1>5, <3>4 DEF AsksIndex
    <3> QED BY <1>4, <2>2, <2>4, <3>5
  <2> QED BY <2>3, <2>4
<1>8. IndexFound(ask, members, Elems(pending'))
  <2>1. IndexFound(ask, members, Elems(rest))
    BY <1>2, <1>3 DEF IndexFound
  <2>2. c.op = "checkLoginMember" /\ a.found => IsMember(members, ask[c.req].email)
    <3> SUFFICES ASSUME c.op = "checkLoginMember", a.found
                 PROVE  IsMember(members, ask[c.req].email)
      OBVIOUS
    <3> QED BY <1>10 DEF Has, Cred, IsMember
  <2> QED BY <1>4, <1>6, <2>1, <2>2 DEF IndexFound
<1>9. AnswersTrue(ask, members, pending', answers')
  BY <1>3, CallbackAnswers DEF AnswersTrue
<1> QED BY <1>1, <1>7, <1>8, <1>9 DEF ForgottenInv

LEMMA ForgottenFail ==
  ASSUME TypeOK, QueueInv, ForgottenInv, FailFind
  PROVE  ForgottenInv'
<1> DEFINE c == Head(failing)
<1>1. /\ ask' = ask /\ members' = members /\ lost' /\ pending \in Seq(Wait)
  BY DEF FailFind, mongo, ForgottenInv, TypeOK
<1>2. c.req \in Req /\ Queries(c, FALSE, pending)
  BY FailFacts DEF Wait, Call
<1> DEFINE n == C("insertMember", c.req)
<1>3. n \in Wait /\ n.op = "insertMember"
  BY <1>2, CallType DEF Op
<1>4. pending' = pending \/ pending' = Append(pending, n)
  BY <1>2 DEF Queries, Outcome, Inserts, AsksIndex, Tells, TellsNobody, Asks, Rests
<1> HIDE DEF n
<1>5. Elems(pending') = Elems(pending) \/ Elems(pending') = Elems(pending) \cup {n}
  <2>1. Elems(Append(pending, n)) = Elems(pending) \cup {n}
    BY SMTT(30), <1>1, <1>3, ElemsAppend
  <2> QED BY <1>4, <2>1
<1>6. IndexFound(ask, members, Elems(pending'))
  BY <1>3, <1>5 DEF ForgottenInv, IndexFound
<1>7. AnswersTrue(ask, members, pending', answers')
  BY FailAnswers DEF ForgottenInv, AnswersTrue
<1> QED BY <1>1, <1>6, <1>7 DEF ForgottenInv

LEMMA ForgottenNext == TypeOK /\ QueueInv /\ ForgottenInv /\ [Next]_vars => ForgottenInv'
<1> SUFFICES ASSUME TypeOK, QueueInv, ForgottenInv, [Next]_vars PROVE ForgottenInv'
  OBVIOUS
<1>1. CASE ConnectionLost \/ FailThrows
  <2>1. lost' /\ pending' = <<>> /\ answers' = <<>>
    BY <1>1 DEF ConnectionLost, FailThrows, ForgottenInv
  <2>2. Elems(pending') = {} /\ Len(answers') = 0
    BY <2>1, ElemsEmpty
  <2> QED BY <2>1, <2>2 DEF ForgottenInv, IndexFound, AnswersTrue
<1>2. CASE Restart
  <2>1. lost /\ lost' = lost /\ UNCHANGED <<pending, answers, ask, members>>
    BY <1>2 DEF Restart, ForgottenInv, mongo, lb, hist
  <2> QED BY <2>1 DEF ForgottenInv
<1>3. CASE UNCHANGED vars
  <2>1. UNCHANGED <<pending, answers, failing, ask, answer, members, lost, up>>
    BY <1>3 DEF vars, mongo, lb, hist
  <2> QED BY <2>1 DEF ForgottenInv
<1> QED BY <1>1, <1>2, <1>3, ForgottenPost, ForgottenExecute, ForgottenCallback, ForgottenFail
        DEF Next

\* While the connection holds, every request is answered once its callbacks have
\* run, for any number of requests in any order.
THEOREM AllAnswered == Spec => []NobodyForgotten
<1>1. Init => ForgottenInv
  BY ElemsEmpty DEF Init, ForgottenInv, Waits, IndexFound, AnswersTrue
<1>2. ForgottenInv => NobodyForgotten
  BY ElemsEmpty DEF ForgottenInv, NobodyForgotten, Waits
<1> QED BY <1>1, <1>2, ForgottenNext, TypeCorrect, PTL DEF Spec
=============================================================================
