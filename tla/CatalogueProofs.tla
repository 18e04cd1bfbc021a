--------------------------- MODULE CatalogueProofs ---------------------------
(***************************************************************************)
(* Proofs about Catalogue, for every set of users, images and workers and  *)
(* any number of requests.  Calls to MongoDB and their answers stay in     *)
(* step; an index counted once is used for one entry and one image only;   *)
(* from that: what is deleted stays gone, and no image is overwritten.     *)
(***************************************************************************)
EXTENDS Catalogue, TLAPS

\* A leaf is tried with Zenon first, then with the SMT solver.
USE ZenonT(20), SMTT(30)

\* The first a calls of p are answered; the others are the end of w.
Aligned(w, p, a) ==
  /\ a <= Len(p) /\ Len(p) <= Len(w) + a
  /\ \A j \in 1..Len(p) : a < j => p[j] = w[j + Len(w) - Len(p)]

\* Each request has one call, and a create one more.  No call of p is among those
\* that a broken connection has left at the beginning of w.
Same(c, d) == c.req = d.req /\ (c.op = "insertImage" <=> d.op = "insertImage")
Apart(w, p, a) ==
  /\ \A i, j \in 1..Len(p) : Same(p[i], p[j]) => i = j
  /\ \A i \in 1..(Len(w) + a - Len(p)), j \in 1..Len(p) : ~Same(w[i], p[j])

-----------------------------------------------------------------------------
\* v is q with c at its end; v is q without its first element.
Grown(q, v, c) == /\ Len(q) \in Nat /\ Len(v) = Len(q) + 1 /\ v[Len(q) + 1] = c
                  /\ \A i \in 1..Len(q) : v[i] = q[i]
Shifted(q, v)  == /\ Len(q) \in Nat \ {0} /\ Len(v) = Len(q) - 1
                  /\ \A i \in 1..Len(v) : v[i] = q[i + 1]

LEMMA SeqTypes ==
  ASSUME NEW S, NEW q \in Seq(S)
  PROVE  /\ Len(q) \in Nat /\ \A i \in 1..Len(q) : q[i] \in S
         /\ \A c \in S : Append(q, c) \in Seq(S) /\ Grown(q, Append(q, c), c)
         /\ q # <<>> => /\ Len(q) # 0 /\ Head(q) = q[1] /\ Head(q) \in S
                        /\ Tail(q) \in Seq(S) /\ Shifted(q, Tail(q))
<1>1. Len(q) \in Nat /\ \A i \in 1..Len(q) : q[i] \in S
  BY SMTT(30)
<1>2. \A c \in S : Append(q, c) \in Seq(S) /\ Grown(q, Append(q, c), c)
  BY SMTT(30) DEF Grown
<1>3. ASSUME q # <<>>
      PROVE  /\ Len(q) # 0 /\ Head(q) = q[1] /\ Head(q) \in S
             /\ Tail(q) \in Seq(S) /\ Shifted(q, Tail(q))
  BY SMTT(30), <1>3 DEF Shifted
<1> QED BY <1>1, <1>2, <1>3

LEMMA SeqPrefix ==
  ASSUME NEW S, NEW q \in Seq(S), NEW n \in 0..Len(q)
  PROVE  /\ SubSeq(q, 1, n) \in Seq(S) /\ Len(SubSeq(q, 1, n)) = n
         /\ \A i \in 1..n : i \in 1..Len(q) /\ SubSeq(q, 1, n)[i] = q[i]
BY SMTT(30)

LEMMA SeqEmpty ==
  /\ Len(<<>>) = 0 /\ 1..0 = {} /\ 1..Len(<<>>) = {}
  /\ \A S : <<>> \in Seq(S)
BY SMTT(30)

\* A call is appended to both queues.
Fresh(q, c) == \A i \in 1..Len(q) : ~Same(q[i], c)

LEMMA QueueGrows ==
  ASSUME NEW w, NEW p, NEW v, NEW q, NEW a \in Nat, NEW c,
         Grown(w, v, c), Grown(p, q, c), Aligned(w, p, a), Apart(w, p, a),
         Fresh(w, c), Fresh(p, c)
  PROVE  Aligned(v, q, a) /\ Apart(v, q, a) /\ Len(v) + a - Len(q) = Len(w) + a - Len(p)
<1>1. /\ Len(w) \in Nat /\ Len(p) \in Nat /\ Len(v) = Len(w) + 1 /\ Len(q) = Len(p) + 1
      /\ v[Len(w) + 1] = c /\ q[Len(p) + 1] = c
      /\ \A i \in 1..Len(w) : v[i] = w[i]
      /\ \A i \in 1..Len(p) : q[i] = p[i]
  BY DEF Grown
<1>2. a <= Len(p) /\ Len(p) <= Len(w) + a
  BY DEF Aligned
<1>3. ASSUME NEW j \in 1..Len(q), a < j PROVE q[j] = v[j + Len(v) - Len(q)]
  <2>1. CASE j = Len(p) + 1
    BY SMTT(30), <1>1, <2>1
  <2>2. CASE j # Len(p) + 1
    <3>1. j \in 1..Len(p) /\ j + Len(w) - Len(p) \in 1..Len(w)
          /\ j + Len(v) - Len(q) = j + Len(w) - Len(p)
      BY SMTT(30), <1>1, <1>2, <1>3, <2>2
    <3>2. p[j] = w[j + Len(w) - Len(p)]
      BY <1>3, <3>1 DEF Aligned
    <3> QED BY <1>1, <3>1, <3>2
  <2> QED BY <2>1, <2>2
<1>4. ASSUME NEW i \in 1..Len(q), NEW j \in 1..Len(q), Same(q[i], q[j]) PROVE i = j
  <2>1. Same(q[j], q[i])
    BY <1>4 DEF Same
  <2>2. i \in 1..Len(p) \/ i = Len(p) + 1
    BY SMTT(30), <1>1
  <2>3. j \in 1..Len(p) \/ j = Len(p) + 1
    BY SMTT(30), <1>1
  <2> QED BY <1>1, <1>4, <2>1, <2>2, <2>3 DEF Apart, Fresh
<1>5. ASSUME NEW i \in 1..(Len(v) + a - Len(q)), NEW j \in 1..Len(q) PROVE ~Same(v[i], q[j])
  <2>1. i \in 1..(Len(w) + a - Len(p)) /\ i \in 1..Len(w)
    BY SMTT(30), <1>1, <1>2
  <2>2. j \in 1..Len(p) \/ j = Len(p) + 1
    BY SMTT(30), <1>1
  <2> QED BY <1>1, <2>1, <2>2 DEF Apart, Fresh
<1>6. a <= Len(q) /\ Len(q) <= Len(v) + a /\ Len(v) + a - Len(q) = Len(w) + a - Len(p)
  BY SMTT(30), <1>1, <1>2
<1> QED BY <1>3, <1>4, <1>5, <1>6 DEF Aligned, Apart

\* MongoDB executes the first call of w: it is the first unanswered one of p, or
\* none of them.
LEMMA QueueExecutes ==
  ASSUME NEW w, NEW p, NEW v, NEW a \in Nat, Shifted(w, v), Len(p) \in Nat,
         Aligned(w, p, a), Apart(w, p, a)
  PROVE  \/ /\ Len(w) + a = Len(p) /\ a + 1 \in 1..Len(p) /\ p[a + 1] = w[1]
            /\ Aligned(v, p, a + 1) /\ Apart(v, p, a + 1) /\ Len(v) + a + 1 = Len(p)
         \/ /\ Len(w) + a # Len(p) /\ \A j \in 1..Len(p) : p[j] # w[1]
            /\ Aligned(v, p, a) /\ Apart(v, p, a)
<1>1. /\ Len(w) \in Nat \ {0} /\ Len(v) = Len(w) - 1
      /\ \A i \in 1..Len(v) : v[i] = w[i + 1]
  BY DEF Shifted
<1>2. a <= Len(p) /\ Len(p) <= Len(w) + a /\ Len(w) \in Nat \ {0} /\ Len(v) = Len(w) - 1
  BY <1>1 DEF Aligned
<1>3. ASSUME NEW j \in 1..Len(p), a < j, j + Len(w) - Len(p) # 1
      PROVE  p[j] = v[j + Len(v) - Len(p)]
  <2>1. /\ j + Len(v) - Len(p) \in 1..Len(v)
        /\ (j + Len(v) - Len(p)) + 1 = j + Len(w) - Len(p)
    BY SMTT(30), <1>2, <1>3
  <2>2. p[j] = w[j + Len(w) - Len(p)]
    BY <1>3 DEF Aligned
  <2> QED BY <1>1, <2>1, <2>2
<1>4. CASE Len(w) + a = Len(p)
  <2>1. a + 1 \in 1..Len(p) /\ (a + 1) + Len(w) - Len(p) = 1 /\ a < a + 1
    BY SMTT(30), <1>2, <1>4
  <2>2. p[a + 1] = w[1]
    BY <2>1 DEF Aligned
  <2>3. \A j \in 1..Len(p) : a + 1 < j => a < j /\ j + Len(w) - Len(p) # 1
    BY SMTT(30), <1>2, <1>4
  <2>4. a + 1 <= Len(p) /\ Len(p) <= Len(v) + (a + 1) /\ Len(v) + a + 1 = Len(p)
    BY SMTT(30), <1>2, <1>4
  <2>5. Aligned(v, p, a + 1)
    BY <1>3, <2>3, <2>4 DEF Aligned
  <2>6. 1..(Len(v) + (a + 1) - Len(p)) = {}
    BY SMTT(30), <1>2, <1>4
  <2>7. Apart(v, p, a + 1)
    BY <2>6 DEF Apart
  <2> QED BY <1>4, <2>1, <2>2, <2>4, <2>5, <2>7
<1>5. CASE Len(w) + a # Len(p)
  <2>1. 1 \in 1..(Len(w) + a - Len(p))
    BY SMTT(30), <1>2, <1>5
  <2>2. ASSUME NEW j \in 1..Len(p) PROVE p[j] # w[1]
    <3>1. ~Same(w[1], p[j])
      BY <2>1 DEF Apart
    <3> QED BY <3>1 DEF Same
  <2>3. \A j \in 1..Len(p) : a < j => j + Len(w) - Len(p) # 1
    BY SMTT(30), <1>2, <1>5
  <2>4. a <= Len(p) /\ Len(p) <= Len(v) + a
    BY SMTT(30), <1>2, <1>5
  <2>5. Aligned(v, p, a)
    BY <1>3, <2>3, <2>4 DEF Aligned
  <2>6. ASSUME NEW i \in 1..(Len(v) + a - Len(p)), NEW j \in 1..Len(p) PROVE ~Same(v[i], p[j])
    <3>1. i + 1 \in 1..(Len(w) + a - Len(p)) /\ i \in 1..Len(v)
      BY SMTT(30), <1>2
    <3> QED BY <1>1, <3>1 DEF Apart
  <2>7. Apart(v, p, a)
    BY <2>6 DEF Apart
  <2> QED BY <1>5, <2>2, <2>5, <2>7
<1> QED BY <1>4, <1>5

\* The first call of p is answered, and its callback runs.
LEMMA QueueAnswers ==
  ASSUME NEW w, NEW p, NEW q, NEW a \in Nat \ {0}, Len(w) \in Nat, Shifted(p, q),
         Aligned(w, p, a), Apart(w, p, a)
  PROVE  /\ Aligned(w, q, a - 1) /\ Apart(w, q, a - 1)
         /\ Len(w) + (a - 1) - Len(q) = Len(w) + a - Len(p)
         /\ \A i \in 1..Len(w) : ~Same(w[i], p[1])
         /\ \A i \in 1..Len(q) : ~Same(q[i], p[1])
<1>1. /\ Len(p) \in Nat \ {0} /\ Len(q) = Len(p) - 1
      /\ \A i \in 1..Len(q) : q[i] = p[i + 1]
  BY DEF Shifted
<1>2. a <= Len(p) /\ Len(p) <= Len(w) + a
  BY DEF Aligned
<1>3. \A i \in 1..Len(q) : i + 1 \in 1..Len(p) /\ i + 1 # 1
  BY SMTT(30), <1>1
<1>4. 1 \in 1..Len(p)
  BY SMTT(30), <1>1
<1>5. ASSUME NEW j \in 1..Len(q), a - 1 < j PROVE q[j] = w[j + Len(w) - Len(q)]
  <2>1. a < j + 1 /\ (j + 1) + Len(w) - Len(p) = j + Len(w) - Len(q)
    BY SMTT(30), <1>1, <1>2, <1>5
  <2> QED BY <1>1, <1>3, <2>1 DEF Aligned
<1>6. Aligned(w, q, a - 1)
  <2>1. a - 1 <= Len(q) /\ Len(q) <= Len(w) + (a - 1)
    BY SMTT(30), <1>1, <1>2
  <2> QED BY <1>5, <2>1 DEF Aligned
<1>7. ASSUME NEW i \in 1..Len(q), NEW j \in 1..Len(q), Same(q[i], q[j]) PROVE i = j
  <2>1. i + 1 = j + 1
    BY <1>1, <1>3, <1>7 DEF Apart
  <2> QED BY SMTT(30), <2>1
<1>8. Len(w) + (a - 1) - Len(q) = Len(w) + a - Len(p)
  BY SMTT(30), <1>1
<1>9. Apart(w, q, a - 1)
  BY <1>1, <1>3, <1>7, <1>8 DEF Apart
<1>10. ASSUME NEW i \in 1..Len(w) PROVE ~Same(w[i], p[1])
  <2>1. CASE i \in 1..(Len(w) + a - Len(p))
    BY <1>4, <2>1 DEF Apart
  <2>2. CASE i \notin 1..(Len(w) + a - Len(p))
    <3> DEFINE j == i - Len(w) + Len(p)
    <3>1. j \in 1..Len(p) /\ a < j /\ j # 1 /\ j + Len(w) - Len(p) = i
      BY SMTT(30), <1>1, <1>2, <2>2
    <3> HIDE DEF j
    <3>2. w[i] = p[j]
      BY <3>1 DEF Aligned
    <3> QED BY <1>4, <3>1, <3>2 DEF Apart
  <2> QED BY <2>1, <2>2
<1>11. \A i \in 1..Len(q) : ~Same(q[i], p[1])
  BY <1>1, <1>3, <1>4 DEF Apart
<1> QED BY <1>6, <1>8, <1>9, <1>10, <1>11
-----------------------------------------------------------------------------
\* Each call is alone in its queue; no call is lost before the connection breaks.
QueueInv ==
  /\ Aligned(wire, pending, Len(answers)) /\ Apart(wire, pending, Len(answers))
  /\ ~fault => up /\ Len(wire) + Len(answers) = Len(pending)

\* Calls are those of their requests, which are answered by the first one.
OpsOf(kind) == CASE kind = "list"   -> {"checkImageList"}
                 [] kind = "create" -> {"getIndexers", "insertImage"}
                 [] kind = "delete" -> {"deleteImage"}

CallFits(c, a, is) ==
  /\ a # None /\ c.op \in OpsOf(a.kind)
  /\ c.op = "deleteImage" => c.index = a.index
  /\ c.op = "insertImage" => c.index \in Nat /\ is = "ok"
  /\ c.op # "insertImage" => is = "none"
CallOK(c) == CallFits(c, ask[c.req], answer[c.req].is)
AskOK(r) ==
  /\ ask[r] = None => answer[r].is = "none"
  /\ answer[r].is = "list" => ask[r].kind = "list"
  /\ answer[r].is = "ok" => ask[r].kind # "list"
  /\ ask[r] # None /\ ask[r].kind # "delete" => ask[r].index = None
CallInv ==
  /\ \A i \in 1..Len(wire) : CallOK(wire[i])
  /\ \A i \in 1..Len(pending) : CallOK(pending[i])
  /\ \A r \in Req : AskOK(r)
  /\ \A r \in arrived : answer[r].is # "none"

BaseInv == TypeOK /\ QueueInv /\ CallInv

-----------------------------------------------------------------------------
\* The steps, in the shapes that the invariants tell apart.
FirstOp(a) == CASE a.kind = "list"   -> "checkImageList"
                [] a.kind = "create" -> "getIndexers"
                [] a.kind = "delete" -> "deleteImage"

NewCall(r, a) == [op |-> FirstOp(a), req |-> r, index |-> a.index]

\* A request a: of a page that was clicked, or that was told of r2's success.
PostCause(a) ==
  \/ arrived' = arrived
  \/ \E s \in Req \ arrived : /\ answer[s].is = "ok" /\ arrived' = arrived \cup {s}
                              /\ a.kind = "list" /\ a.id = ask[s].id
Posts(r, a) ==
  /\ up /\ \A q \in Req : ask[q] = None <=> q >= r
  /\ a.kind # "delete" => a.index = None
  /\ a.index # None => \E e \in shown[a.id] : e.os = a.os /\ e.index = a.index
  /\ ask' = [ask EXCEPT ![r] = a]
  /\ wire' = Append(wire, NewCall(r, a)) /\ pending' = Append(pending, NewCall(r, a))
  /\ UNCHANGED <<mongo, answers, answer, shown, reordered, dial, host, up, fault, overtaken>>
  /\ PostCause(a)

\* The list of r is shown.
Shows(r) == r \notin arrived /\ arrived' = arrived \cup {r} /\ ShowList(r)

\* The connection to MongoDB breaks or the load balancer ends.
Breaks ==
  /\ fault' = TRUE /\ pending' = <<>> /\ answers' = <<>> /\ dial' \subseteq dial
  /\ \E n \in 0..Len(wire) : wire' = SubSeq(wire, 1, n)
  /\ up' \in BOOLEAN
  /\ UNCHANGED <<mongo, ask, answer, page, host, overtaken>>

\* All else is between the load balancer and the host.
Quiet == /\ UNCHANGED <<mongo, conn, ask, answer, page>>
         /\ up' \in BOOLEAN /\ fault' \in BOOLEAN /\ (up => up') /\ (fault => fault')
Sends(d) == /\ Host!Send(d[1], d[2]) /\ dial' = dial \ {d} /\ d[2].index # None
            /\ UNCHANGED <<fault, overtaken>>
Fails(d) == dial' = dial \ {d} /\ fault' = TRUE /\ UNCHANGED <<host, overtaken>>
Rests    == UNCHANGED <<dial, host, fault, overtaken>>

LEMMA FirstOps ==
  ASSUME NEW a \in Ask
  PROVE  /\ FirstOp(a) \in OpsOf(a.kind) /\ FirstOp(a) # "insertImage" /\ FirstOp(a) \in Op
         /\ FirstOp(a) = "deleteImage" <=> a.kind = "delete"
         /\ FirstOp(a) = "checkImageList" <=> a.kind = "list"
         /\ FirstOp(a) = "getIndexers" <=> a.kind = "create"
<1>1. CASE a.kind = "list"
  BY <1>1 DEF FirstOp, OpsOf, Op
<1>2. CASE a.kind = "create"
  BY <1>2 DEF FirstOp, OpsOf, Op
<1>3. CASE a.kind = "delete"
  BY <1>3 DEF FirstOp, OpsOf, Op
<1>4. a.kind \in {"list", "create", "delete"}
  BY DEF Ask
<1> QED BY <1>1, <1>2, <1>3, <1>4

LEMMA OpKinds ==
  ASSUME NEW a \in Ask, NEW op \in OpsOf(a.kind)
  PROVE  /\ op = "checkImageList" <=> a.kind = "list"
         /\ op \in {"getIndexers", "insertImage"} <=> a.kind = "create"
         /\ op = "deleteImage" <=> a.kind = "delete"
<1>1. CASE a.kind = "list"
  BY <1>1 DEF OpsOf
<1>2. CASE a.kind = "create"
  BY <1>2 DEF OpsOf
<1>3. CASE a.kind = "delete"
  BY <1>3 DEF OpsOf
<1>4. a.kind \in {"list", "create", "delete"}
  BY DEF Ask
<1> QED BY <1>1, <1>2, <1>3, <1>4

LEMMA RequestPosts ==
  ASSUME NEW r \in Req, NEW a \in Ask, Request(r, a), UNCHANGED <<shown, reordered>>,
         PostCause(a), a.kind # "delete" => a.index = None,
         a.index # None => \E e \in shown[a.id] : e.os = a.os /\ e.index = a.index
  PROVE  Posts(r, a)
BY DEF Request, Call1, Posts, NewCall, FirstOp

LEMMA ClickPosts ==
  ASSUME TypeOK, NEW r \in Req, NEW u \in User, Click(r, u)
  PROVE  \E a \in Ask : Posts(r, a)
<1>1. UNCHANGED <<shown, reordered>> /\ arrived' = arrived
  BY DEF Click, page
<1>2. \A a : PostCause(a)
  BY <1>1 DEF PostCause
<1>3. CASE requestOSList(r, u)
  <2> DEFINE a == Asked("list", u, None, None)
  <2>1. a \in Ask /\ a.kind = "list" /\ a.index = None
    BY SMTT(30) DEF Asked, Ask
  <2>2. Request(r, a)
    BY <1>3 DEF requestOSList
  <2> HIDE DEF a
  <2> QED BY <1>1, <1>2, <2>1, <2>2, RequestPosts
<1>4. ASSUME NEW os \in Os \cup {None}, Request(r, Asked("create", u, os, None))
      PROVE  \E a \in Ask : Posts(r, a)
  <2> DEFINE a == Asked("create", u, os, None)
  <2>1. a \in Ask /\ a.kind = "create" /\ a.index = None
    BY SMTT(30) DEF Asked, Ask
  <2>2. Request(r, a)
    BY <1>4
  <2> HIDE DEF a
  <2> QED BY <1>1, <1>2, <2>1, <2>2, RequestPosts
<1>5. ASSUME NEW e \in shown[u], Request(r, Asked("delete", u, e.os, e.index))
      PROVE  \E a \in Ask : Posts(r, a)
  <2> DEFINE a == Asked("delete", u, e.os, e.index)
  <2>1. e \in Entry
    BY DEF TypeOK
  <2>2. e.os \in Os \cup {None} /\ e.index \in Nat \cup {None}
    BY <2>1 DEF Entry
  <2>3. a \in Ask /\ a.kind = "delete" /\ a.id = u /\ a.os = e.os /\ a.index = e.index
    BY <2>2, SMTT(30) DEF Asked, Ask
  <2>4. Request(r, a)
    BY <1>5
  <2> HIDE DEF a
  <2> QED BY <1>1, <1>2, <2>3, <2>4, RequestPosts
<1>6. CASE Request(r, Asked("delete", u, None, None))
  <2> DEFINE a == Asked("delete", u, None, None)
  <2>1. a \in Ask /\ a.kind = "delete" /\ a.index = None
    BY SMTT(30) DEF Asked, Ask
  <2>2. Request(r, a)
    BY <1>6
  <2> HIDE DEF a
  <2> QED BY <1>1, <1>2, <2>1, <2>2, RequestPosts
<1> QED BY <1>3, <1>4, <1>5, <1>6 DEF Click

LEMMA SuccessPosts ==
  ASSUME TypeOK, CallInv, NEW s \in Req \ arrived, arrived' = arrived \cup {s}, Success(s)
  PROVE  \E r \in Req, a \in Ask : Posts(r, a)
<1>1. ask[s] # None /\ answer[s].is = "ok"
  <2>1. answer[s].is = "ok" /\ "ok" # "none" /\ AskOK(s)
    BY DEF Success, CallInv
  <2> QED BY <2>1 DEF AskOK
<1>2. ask[s].id \in User
  <2>1. ask[s] \in Ask
    BY <1>1 DEF TypeOK
  <2> QED BY <2>1 DEF Ask
<1>3. PICK r \in Req : requestOSList(r, ask[s].id)
  BY DEF Success
<1> DEFINE a == Asked("list", ask[s].id, None, None)
<1>4. a \in Ask /\ a.kind = "list" /\ a.index = None /\ a.id = ask[s].id
  BY <1>2, SMTT(30) DEF Asked, Ask
<1>5. Request(r, a)
  BY <1>3 DEF requestOSList
<1> HIDE DEF a
<1>6. PostCause(a)
  BY <1>1, <1>4 DEF PostCause
<1>7. UNCHANGED <<shown, reordered>> /\ "list" # "delete"
  BY DEF Success
<1> QED BY <1>4, <1>5, <1>6, <1>7, RequestPosts

LEMMA ConnectedSteps ==
  ASSUME TypeOK, NEW d \in dial, Connected(d)
  PROVE  Breaks \/ (Quiet /\ Sends(d))
<1>1. CASE None \in {d[2].os, d[2].index}
  <2>1. Crash /\ UNCHANGED host
    BY <1>1 DEF Connected
  <2>2. UNCHANGED <<mongo, ask, answer, page, overtaken>>
    BY DEF Connected
  <2>3. up' \in BOOLEAN /\ dial' \subseteq dial
    BY <2>1 DEF Crash
  <2>4. UNCHANGED <<mongo, ask, answer, page, host, overtaken>>
    BY <2>1, <2>2 DEF mongo, page, host
  <2> QED BY <2>1, <2>3, <2>4 DEF Breaks, Crash
<1>2. CASE None \notin {d[2].os, d[2].index}
  <2>1. Host!Send(d[1], d[2]) /\ dial' = dial \ {d} /\ UNCHANGED <<conn, up, fault>>
    BY <1>2 DEF Connected
  <2> QED BY <1>2, <2>1 DEF Quiet, Sends, Connected, TypeOK
<1> QED BY <1>1, <1>2

LEMMA Steps ==
  ASSUME TypeOK, CallInv, [Next]_vars
  PROVE  \/ \E r \in Req, a \in Ask : Posts(r, a)
         \/ Execute
         \/ Callback
         \/ \E r \in Req : Shows(r)
         \/ Breaks
         \/ Quiet /\ (HostStep \/ (\E d \in dial : Sends(d) \/ Fails(d)) \/ Rests)
<1>1. CASE \E r \in Req, u \in User : Click(r, u)
  BY <1>1, ClickPosts
<1>2. CASE \E r \in Req : Arrive(r)
  <2>1. PICK s \in Req : Arrive(s)
    BY <1>2
  <2>2. s \in Req \ arrived /\ arrived' = arrived \cup {s}
    BY <2>1 DEF Arrive
  <2>3. CASE Success(s)
    BY <2>2, <2>3, SuccessPosts
  <2>4. CASE ShowList(s)
    BY <2>2, <2>4 DEF Shows
  <2> QED BY <2>1, <2>3, <2>4 DEF Arrive
<1>3. CASE ConnectionLost
  <2>1. CASE Crash
    BY <1>3, <2>1 DEF ConnectionLost, Breaks, Crash
  <2>2. CASE ~Crash
    BY <1>3, <2>2 DEF ConnectionLost, Breaks, TypeOK
  <2> QED BY <2>1, <2>2
<1>4. CASE HostStep
  <2>1. UNCHANGED <<mongo, conn, ask, answer, page, up>> /\ (fault' = TRUE \/ fault' = fault)
    BY <1>4 DEF HostStep
  <2> QED BY <1>4, <2>1 DEF Quiet, TypeOK
<1>5. CASE \E d \in dial : ConnectFails(d)
  BY SMTT(30), <1>5 DEF ConnectFails, Quiet, Fails, TypeOK
<1>6. CASE \E d \in dial : Connected(d)
  BY <1>6, ConnectedSteps
<1>7. CASE Restart
  BY <1>7 DEF Restart, Quiet, Rests, TypeOK
<1>8. CASE UNCHANGED vars
  BY <1>8 DEF vars, Quiet, Rests, TypeOK, mongo, conn, host, page
<1> QED BY <1>1, <1>2, <1>3, <1>4, <1>5, <1>6, <1>7, <1>8 DEF Next

-----------------------------------------------------------------------------
\* Types.
LEMMA EmptyAnswer == Ok \in Reply /\ Ok.is = "ok" /\ Ok.list = {}
BY DEF Ok, Reply

\* The facts about a call that is under way, and about a request.
LEMMA CallFacts ==
  ASSUME TypeOK, NEW c \in Call, CallOK(c)
  PROVE  /\ c.req \in Req /\ ask[c.req] \in Ask /\ ask[c.req].id \in User
         /\ ask[c.req].os \in Os \cup {None} /\ ask[c.req].index \in Nat \cup {None}
         /\ c.op \in Op /\ answer[c.req] \in Reply
         /\ c.op = "checkImageList" <=> ask[c.req].kind = "list"
         /\ c.op = "deleteImage" <=> ask[c.req].kind = "delete"
         /\ c.op \in {"getIndexers", "insertImage"} <=> ask[c.req].kind = "create"
         /\ c.op = "insertImage" => Document(c) \in Entry
<1>1. c.req \in Req /\ c.op \in Op
  BY DEF Call
<1>2. ask[c.req] \in Ask /\ answer[c.req] \in Reply
  BY <1>1 DEF TypeOK, CallOK, CallFits
<1>3. /\ ask[c.req].id \in User /\ ask[c.req].os \in Os \cup {None}
      /\ ask[c.req].index \in Nat \cup {None}
  BY <1>2 DEF Ask
<1>4. c.op \in OpsOf(ask[c.req].kind)
  BY DEF CallOK, CallFits
<1>5. ASSUME c.op = "insertImage" PROVE Document(c) \in Entry
  <2>1. c.index \in Nat
    BY <1>5 DEF CallOK, CallFits
  <2> QED BY <1>3, <2>1 DEF Document, Entry
<1> QED BY <1>1, <1>2, <1>3, <1>4, <1>5, OpKinds

\* The calls at the heads of the queues.
LEMMA HeadFacts ==
  ASSUME BaseInv
  PROVE  /\ Len(wire) \in Nat /\ Len(pending) \in Nat /\ Len(answers) \in Nat
         /\ Len(answers) <= Len(pending)
         /\ \A i \in 1..Len(wire) : wire[i] \in Call /\ CallOK(wire[i])
         /\ \A i \in 1..Len(pending) : pending[i] \in Call /\ CallOK(pending[i])
         /\ wire # <<>> => /\ 1 \in 1..Len(wire) /\ Head(wire) = wire[1]
                           /\ Tail(wire) \in Seq(Call) /\ Shifted(wire, Tail(wire))
         /\ answers # <<>> =>
              /\ 1 \in 1..Len(pending) /\ Head(pending) = pending[1]
              /\ Tail(pending) \in Seq(Call) /\ Shifted(pending, Tail(pending))
              /\ 1 \in 1..Len(answers) /\ Head(answers) = answers[1]
              /\ Tail(answers) \in Seq([seq: Nat, list: SUBSET Entry])
              /\ Shifted(answers, Tail(answers))
<1> DEFINE R == [seq: Nat, list: SUBSET Entry]
<1>1. wire \in Seq(Call) /\ pending \in Seq(Call) /\ answers \in Seq(R)
  BY DEF BaseInv, TypeOK
<1> HIDE DEF R
<1>2. Len(wire) \in Nat /\ Len(pending) \in Nat /\ Len(answers) \in Nat
  BY <1>1, SeqTypes
<1>3. Len(answers) <= Len(pending)
  BY DEF BaseInv, QueueInv, Aligned
<1>4. /\ \A i \in 1..Len(wire) : wire[i] \in Call /\ CallOK(wire[i])
      /\ \A i \in 1..Len(pending) : pending[i] \in Call /\ CallOK(pending[i])
  BY <1>1, SeqTypes DEF BaseInv, CallInv
<1>5. ASSUME wire # <<>>
      PROVE  /\ 1 \in 1..Len(wire) /\ Head(wire) = wire[1]
             /\ Tail(wire) \in Seq(Call) /\ Shifted(wire, Tail(wire))
  <2>1. Len(wire) # 0
    BY <1>1, <1>5, SeqTypes
  <2>2. 1 \in 1..Len(wire)
    BY SMTT(30), <1>2, <2>1
  <2> QED BY <1>1, <1>5, <2>2, SeqTypes
<1>6. ASSUME answers # <<>>
      PROVE  /\ 1 \in 1..Len(pending) /\ Head(pending) = pending[1]
             /\ Tail(pending) \in Seq(Call) /\ Shifted(pending, Tail(pending))
             /\ 1 \in 1..Len(answers) /\ Head(answers) = answers[1]
             /\ Tail(answers) \in Seq(R) /\ Shifted(answers, Tail(answers))
  <2>1. Len(answers) # 0
    BY <1>1, <1>6, SeqTypes
  <2>2. 1 \in 1..Len(pending) /\ 1 \in 1..Len(answers) /\ Len(pending) # 0
    BY SMTT(30), <1>2, <1>3, <2>1
  <2>3. pending # <<>>
    BY <2>2, SeqEmpty
  <2> QED BY <1>1, <1>6, <2>2, <2>3, SeqTypes
<1> QED BY <1>2, <1>3, <1>4, <1>5, <1>6 DEF R

LEMMA LengthFacts ==
  ASSUME BaseInv
  PROVE  /\ Len(wire) \in Nat /\ Len(pending) \in Nat /\ Len(answers) \in Nat
         /\ Len(answers) <= Len(pending)
BY HeadFacts

LEMMA NewCallType ==
  ASSUME NEW r \in Req, NEW a \in Ask
  PROVE  /\ NewCall(r, a) \in Call /\ NewCall(r, a).req = r
         /\ NewCall(r, a).op = FirstOp(a) /\ NewCall(r, a).index = a.index
<1>1. FirstOp(a) \in Op /\ a.index \in Nat \cup {None}
  BY FirstOps DEF Ask
<1> QED BY <1>1 DEF NewCall, Call

LEMMA PostsTypes ==
  ASSUME BaseInv, NEW r \in Req, NEW a \in Ask, Posts(r, a)
  PROVE  TypeOK'
<1> TypeOK
  BY DEF BaseInv
<1>1. NewCall(r, a) \in Call
  BY NewCallType
<1>2. wire' \in Seq(Call) /\ pending' \in Seq(Call)
  <2>1. wire \in Seq(Call) /\ pending \in Seq(Call)
    BY DEF TypeOK
  <2> QED BY <1>1, <2>1, SeqTypes DEF Posts
<1>3. ask' \in [Req -> Ask \cup {None}]
  BY DEF TypeOK, Posts
<1>4. arrived' \subseteq Req
  BY DEF TypeOK, Posts, PostCause
<1>5. UNCHANGED <<entries, image_index, answers, answer, shown, reordered, dial, waiting, working, up, fault, overtaken>>
  BY DEF Posts, mongo, host
<1> QED BY <1>2, <1>3, <1>4, <1>5 DEF TypeOK

LEMMA ExecuteTypes ==
  ASSUME BaseInv, Execute
  PROVE  TypeOK'
<1> TypeOK
  BY DEF BaseInv
<1> DEFINE c == Head(wire)
           R == [seq: Nat, list: SUBSET Entry]
<1>1. c \in Call /\ CallOK(c) /\ Tail(wire) \in Seq(Call)
  BY HeadFacts DEF Execute
<1>2. entries \subseteq Entry /\ image_index \in Nat /\ getIndexers \in Nat
  BY SMTT(30) DEF TypeOK, getIndexers
<1> HIDE DEF c
<1>3. image_index' \in Nat
  BY <1>2 DEF Execute, c
<1>4. entries' \subseteq Entry
  <2>1. CASE c.op = "insertImage"
    <3>1. entries' = entries \cup {Document(c)}
      BY <2>1 DEF Execute, c
    <3> QED BY <1>1, <1>2, <2>1, <3>1, CallFacts
  <2>2. CASE c.op = "deleteImage"
    <3>1. entries' = entries \ {Document(c)}
      BY <2>2 DEF Execute, c, deleteImage
    <3> QED BY <1>2, <3>1
  <2>3. CASE c.op \notin {"insertImage", "deleteImage"}
    BY <1>2, <2>3 DEF Execute, c
  <2> QED BY <2>1, <2>2, <2>3
<1>5. Result(c) \in R
  <2>1. Of(ask[c.req].id) \subseteq Entry
    BY <1>2 DEF Of
  <2> QED BY <1>2, <2>1 DEF Result
<1> HIDE DEF R
<1>6. answers' \in Seq(R)
  <2>1. answers \in Seq(R)
    BY DEF TypeOK, R
  <2>2. answers' = Append(answers, Result(c)) \/ answers' = answers
    BY DEF Execute, c
  <2> QED BY SMTT(30), <1>5, <2>1, <2>2, SeqTypes
<1>7. wire' \in Seq(Call)
  BY <1>1 DEF Execute
<1>8. UNCHANGED <<pending, ask, answer, shown, arrived, reordered, dial, up, waiting, working, fault, overtaken>>
  BY DEF Execute, page, host
<1> QED BY <1>3, <1>4, <1>6, <1>7, <1>8 DEF TypeOK, R

\* The four callbacks, with the call c that is answered.
OnIndexed(c, n) == c.op = "getIndexers" /\ OnIndex(c.req, n, Tail(pending))
OnRemoved(c)    == c.op = "deleteImage" /\ OnDeleted(c.req, Tail(pending))
OnListed(c, l)  == c.op = "checkImageList" /\ OnList(c.req, l, Tail(pending))
OnInserted(c)   == /\ c.op = "insertImage" /\ pending' = Tail(pending)
                   /\ UNCHANGED <<wire, dial, answer>>

LEMMA CallbackFacts ==
  ASSUME BaseInv, Callback
  PROVE  /\ \/ OnIndexed(pending[1], answers[1].seq) \/ OnRemoved(pending[1])
            \/ OnListed(pending[1], answers[1].list) \/ OnInserted(pending[1])
         /\ up /\ answers' = Tail(answers)
         /\ UNCHANGED <<mongo, ask, page, up, host, fault, overtaken>>
         /\ 1 \in 1..Len(pending) /\ pending[1] \in Call /\ CallOK(pending[1])
         /\ Tail(pending) \in Seq(Call) /\ Shifted(pending, Tail(pending))
         /\ 1 \in 1..Len(answers) /\ answers[1].seq \in Nat /\ answers[1].list \subseteq Entry
         /\ Tail(answers) \in Seq([seq: Nat, list: SUBSET Entry])
         /\ Shifted(answers, Tail(answers))
<1>1. up /\ answers # <<>> /\ answers' = Tail(answers)
      /\ UNCHANGED <<mongo, ask, page, up, host, fault, overtaken>>
  BY DEF Callback
<1>2. /\ 1 \in 1..Len(pending) /\ Head(pending) = pending[1]
      /\ pending[1] \in Call /\ CallOK(pending[1])
      /\ Tail(pending) \in Seq(Call) /\ Shifted(pending, Tail(pending))
      /\ 1 \in 1..Len(answers) /\ Head(answers) = answers[1]
      /\ Tail(answers) \in Seq([seq: Nat, list: SUBSET Entry])
      /\ Shifted(answers, Tail(answers))
  BY <1>1, HeadFacts
<1>3. answers[1] \in [seq: Nat, list: SUBSET Entry]
  BY <1>2, SeqTypes DEF BaseInv, TypeOK
<1>4. answers[1].seq \in Nat /\ answers[1].list \subseteq Entry
  BY <1>3
<1>5. \/ OnIndexed(pending[1], answers[1].seq) \/ OnRemoved(pending[1])
      \/ OnListed(pending[1], answers[1].list) \/ OnInserted(pending[1])
  BY <1>2 DEF Callback, OnIndexed, OnRemoved, OnListed, OnInserted
<1> QED BY <1>1, <1>2, <1>4, <1>5

LEMMA CommandTypes ==
  ASSUME TypeOK, NEW r \in Req, ask[r] \in Ask, NEW k \in {"create", "delete"},
         NEW i \in Nat \cup {None}
  PROVE  /\ Command(k, r, i) \in Req \X Cmd /\ Command(k, r, i)[1] = r
         /\ Command(k, r, i)[2] = [kind |-> k, os |-> ask[r].os, index |-> i, id |-> ask[r].id]
         /\ Command(k, r, i)[2].kind = k /\ Command(k, r, i)[2].index = i
         /\ Command(k, r, i)[2].os = ask[r].os /\ Command(k, r, i)[2].id = ask[r].id
<1>1. ask[r].os \in Os \cup {None} /\ ask[r].id \in User
  BY DEF Ask
<1>2. [kind |-> k, os |-> ask[r].os, index |-> i, id |-> ask[r].id] \in Cmd
  BY <1>1 DEF Cmd
<1> QED BY <1>2 DEF Command

\* What the callback of c leaves behind, for the queues and the answers.
LEMMA CallbackEffects ==
  ASSUME BaseInv, Callback
  PROVE  LET c == pending[1]
             n == [op |-> "insertImage", req |-> c.req, index |-> answers[1].seq]
         IN  /\ n \in Call
             /\ \/ /\ c.op = "getIndexers" /\ wire' = Append(wire, n)
                   /\ pending' = Append(Tail(pending), n)
                   /\ dial' = dial \cup {Command("create", c.req, answers[1].seq)}
                   /\ answer' = [answer EXCEPT ![c.req] = Ok]
                \/ /\ c.op = "deleteImage" /\ wire' = wire /\ pending' = Tail(pending)
                   /\ dial' = dial \cup {Command("delete", c.req, ask[c.req].index)}
                   /\ answer' = [answer EXCEPT ![c.req] = Ok]
                \/ /\ c.op = "checkImageList" /\ wire' = wire /\ pending' = Tail(pending)
                   /\ dial' = dial
                   /\ answer' = [answer EXCEPT ![c.req] = [is |-> "list", list |-> answers[1].list]]
                \/ /\ c.op = "insertImage" /\ wire' = wire /\ pending' = Tail(pending)
                   /\ dial' = dial /\ answer' = answer
<1> DEFINE c == pending[1]
           n == [op |-> "insertImage", req |-> c.req, index |-> answers[1].seq]
<1>1. c \in Call /\ answers[1].seq \in Nat
  BY CallbackFacts
<1>2. n \in Call
  BY <1>1 DEF Call, Op
<1>3. CASE OnIndexed(c, answers[1].seq)
  BY <1>2, <1>3 DEF OnIndexed, OnIndex, Call1, Answer
<1>4. CASE OnRemoved(c)
  BY <1>2, <1>4 DEF OnRemoved, OnDeleted, Answer
<1>5. CASE OnListed(c, answers[1].list)
  BY <1>2, <1>5 DEF OnListed, OnList, Answer
<1>6. CASE OnInserted(c)
  BY <1>2, <1>6 DEF OnInserted
<1> QED BY <1>3, <1>4, <1>5, <1>6, CallbackFacts

LEMMA CallbackTypes ==
  ASSUME BaseInv, Callback
  PROVE  TypeOK'
<1> TypeOK
  BY DEF BaseInv
<1> DEFINE c == pending[1]
           n == [op |-> "insertImage", req |-> c.req, index |-> answers[1].seq]
<1>1. c \in Call /\ CallOK(c) /\ answers[1].seq \in Nat /\ answers[1].list \subseteq Entry
      /\ Tail(pending) \in Seq(Call)
  BY CallbackFacts
<1>2. n \in Call /\ c.req \in Req /\ ask[c.req] \in Ask /\ ask[c.req].index \in Nat \cup {None}
  BY <1>1, CallFacts, CallbackEffects
<1>3. wire' \in Seq(Call) /\ pending' \in Seq(Call)
  <2>1. wire \in Seq(Call)
    BY DEF TypeOK
  <2>2. /\ wire' = Append(wire, n) \/ wire' = wire
        /\ pending' = Append(Tail(pending), n) \/ pending' = Tail(pending)
    BY CallbackEffects
  <2> HIDE DEF n
  <2>3. Append(wire, n) \in Seq(Call)
    BY <1>2, <2>1, SeqTypes
  <2>4. Append(Tail(pending), n) \in Seq(Call)
    BY <1>1, <1>2, SeqTypes
  <2> QED BY <1>1, <2>1, <2>2, <2>3, <2>4
<1>4. dial' \subseteq Req \X Cmd
  <2>1. dial \subseteq Req \X Cmd
    BY DEF TypeOK
  <2>2. /\ Command("create", c.req, answers[1].seq) \in Req \X Cmd
        /\ Command("delete", c.req, ask[c.req].index) \in Req \X Cmd
    <3> HIDE DEF c
    <3>1. Command("create", c.req, answers[1].seq) \in Req \X Cmd
      BY <1>1, <1>2, CommandTypes
    <3>2. Command("delete", c.req, ask[c.req].index) \in Req \X Cmd
      BY <1>1, <1>2, CommandTypes
    <3> QED BY <3>1, <3>2
  <2>3. \/ dial' = dial \cup {Command("create", c.req, answers[1].seq)}
        \/ dial' = dial \cup {Command("delete", c.req, ask[c.req].index)}
        \/ dial' = dial
    BY CallbackEffects
  <2> QED BY <2>1, <2>2, <2>3
<1>5. answer' \in [Req -> Reply]
  <2> DEFINE l == [is |-> "list", list |-> answers[1].list]
  <2>1. answer \in [Req -> Reply]
    BY DEF TypeOK
  <2>2. l \in Reply /\ Ok \in Reply
    BY <1>1, EmptyAnswer DEF Reply
  <2>3. \/ answer' = answer
        \/ \E a \in Reply : answer' = [answer EXCEPT ![c.req] = a]
    BY <2>2, CallbackEffects
  <2> HIDE DEF l
  <2> QED BY <1>2, <2>1, <2>3
<1>6. answers' \in Seq([seq: Nat, list: SUBSET Entry])
  BY CallbackFacts
<1>7. UNCHANGED <<entries, image_index, ask, shown, arrived, reordered, up, waiting, working, fault, overtaken>>
  BY CallbackFacts DEF mongo, page, host
<1> QED BY <1>3, <1>4, <1>5, <1>6, <1>7 DEF TypeOK

LEMMA BreaksTypes ==
  ASSUME TypeOK, Breaks
  PROVE  TypeOK'
<1>1. wire' \in Seq(Call) /\ pending' \in Seq(Call)
  BY SMTT(30), SeqPrefix, SeqEmpty DEF Breaks, TypeOK
<1>2. answers' \in Seq([seq: Nat, list: SUBSET Entry])
  BY SeqEmpty DEF Breaks
<1>3. dial' \subseteq Req \X Cmd /\ up' \in BOOLEAN /\ fault' \in BOOLEAN
  BY DEF Breaks, TypeOK
<1>4. UNCHANGED <<entries, image_index, ask, answer, shown, arrived, reordered, waiting, working, overtaken>>
  BY DEF Breaks, mongo, page, host
<1> QED BY <1>1, <1>2, <1>3, <1>4 DEF TypeOK

LEMMA ShowsTypes ==
  ASSUME TypeOK, NEW r \in Req, Shows(r)
  PROVE  TypeOK'
<1>1. answer[r].list \subseteq Entry
  BY DEF TypeOK, Reply
<1>2. shown' \in [User -> SUBSET Entry]
  BY <1>1 DEF TypeOK, Shows, ShowList
<1>3. reordered' \in BOOLEAN
  BY DEF Shows, ShowList
<1>4. arrived' \subseteq Req
  BY DEF TypeOK, Shows
<1>5. UNCHANGED <<entries, image_index, wire, pending, answers, ask, answer, dial, waiting, working, up, fault, overtaken>>
  BY DEF Shows, ShowList, mongo, conn, host
<1> QED BY <1>2, <1>3, <1>4, <1>5 DEF TypeOK

LEMMA HostTypes ==
  ASSUME TypeOK, HostStep
  PROVE  /\ waiting' \subseteq Req \X Cmd /\ working' \in [Worker -> Cmd \cup {None}]
         /\ overtaken' \in BOOLEAN
<1>1. waiting \subseteq Req \X Cmd /\ working \in [Worker -> Cmd \cup {None}]
  BY DEF TypeOK
<1>2. overtaken' \in BOOLEAN
  BY DEF TypeOK, HostStep
<1>3. ASSUME NEW m \in waiting, NEW w \in Worker, Host!Take(m, w)
      PROVE  waiting' \subseteq Req \X Cmd /\ working' \in [Worker -> Cmd \cup {None}]
  <2>1. m[2] \in Cmd
    BY <1>1
  <2> QED BY <1>1, <1>3, <2>1 DEF Host!Take
<1>4. ASSUME NEW m \in waiting, Host!Drop(m)
      PROVE  waiting' \subseteq Req \X Cmd /\ working' \in [Worker -> Cmd \cup {None}]
  BY <1>1, <1>4 DEF Host!Drop
<1>5. ASSUME NEW w \in Worker, NEW ok, Host!Finish(w, ok)
      PROVE  waiting' \subseteq Req \X Cmd /\ working' \in [Worker -> Cmd \cup {None}]
  BY <1>1, <1>5 DEF Host!Finish
<1> QED BY <1>2, <1>3, <1>4, <1>5 DEF HostStep

LEMMA QuietTypes ==
  ASSUME TypeOK, Quiet, HostStep \/ (\E d \in dial : Sends(d) \/ Fails(d)) \/ Rests
  PROVE  TypeOK'
<1>1. /\ waiting' \subseteq Req \X Cmd /\ working' \in [Worker -> Cmd \cup {None}]
      /\ overtaken' \in BOOLEAN /\ dial' \subseteq Req \X Cmd
  <2>1. CASE HostStep
    BY <2>1, HostTypes DEF TypeOK, HostStep
  <2>2. ASSUME NEW d \in dial, Sends(d)
        PROVE  /\ waiting' \subseteq Req \X Cmd /\ working' \in [Worker -> Cmd \cup {None}]
               /\ overtaken' \in BOOLEAN /\ dial' \subseteq Req \X Cmd
    <3>1. <<d[1], d[2]>> \in Req \X Cmd
      BY DEF TypeOK
    <3> QED BY <2>2, <3>1 DEF TypeOK, Sends, Host!Send
  <2>3. ASSUME NEW d \in dial, Fails(d)
        PROVE  /\ waiting' \subseteq Req \X Cmd /\ working' \in [Worker -> Cmd \cup {None}]
               /\ overtaken' \in BOOLEAN /\ dial' \subseteq Req \X Cmd
    BY <2>3 DEF TypeOK, Fails, host
  <2>4. CASE Rests
    BY <2>4 DEF TypeOK, Rests, host
  <2> QED BY <2>1, <2>2, <2>3, <2>4
<1>2. UNCHANGED <<entries, image_index, wire, pending, answers, ask, answer, shown, arrived, reordered>>
  BY DEF Quiet, mongo, conn, page
<1>3. up' \in BOOLEAN /\ fault' \in BOOLEAN
  BY DEF Quiet
<1> QED BY <1>1, <1>2, <1>3 DEF TypeOK

LEMMA TypeNext == BaseInv /\ [Next]_vars => TypeOK'
BY Steps, PostsTypes, ExecuteTypes, CallbackTypes, BreaksTypes, ShowsTypes, QuietTypes DEF BaseInv

-----------------------------------------------------------------------------
\* The queues stay in step.
LEMMA BreaksConn ==
  ASSUME Breaks
  PROVE  /\ pending' = <<>> /\ answers' = <<>> /\ fault' = TRUE
         /\ UNCHANGED <<entries, image_index, ask, answer, shown, arrived, reordered>>
BY DEF Breaks, mongo, page

LEMMA SameConn ==
  ASSUME (\E r \in Req : Shows(r)) \/ Quiet
  PROVE  /\ UNCHANGED <<wire, pending, answers, ask, answer>> /\ (fault => fault')
         /\ UNCHANGED <<entries, image_index>> /\ (up => up')
<1>1. CASE \E r \in Req : Shows(r)
  BY SMTT(30), <1>1 DEF Shows, ShowList, conn, mongo
<1>2. CASE Quiet
  BY <1>2 DEF Quiet, conn, mongo
<1> QED BY <1>1, <1>2

\* A request that was not posted yet has no call.
LEMMA PostsFresh ==
  ASSUME BaseInv, NEW r \in Req, NEW a \in Ask, Posts(r, a)
  PROVE  /\ ask[r] = None /\ answer[r].is = "none" /\ a # None
         /\ \A i \in 1..Len(wire) : wire[i].req # r
         /\ \A i \in 1..Len(pending) : pending[i].req # r
         /\ ask'[r] = a /\ \A q \in Req : q # r => ask'[q] = ask[q]
<1>1. ask[r] = None
  BY SMTT(30) DEF Posts, Req
<1>2. answer[r].is = "none"
  BY <1>1 DEF BaseInv, CallInv, AskOK
<1>3. /\ \A i \in 1..Len(wire) : wire[i].req # r
      /\ \A i \in 1..Len(pending) : pending[i].req # r
  BY <1>1 DEF BaseInv, CallInv, CallOK, CallFits
<1>4. ask'[r] = a /\ \A q \in Req : q # r => ask'[q] = ask[q]
  BY DEF Posts, BaseInv, TypeOK
<1>5. a # None
  BY NoneAssumption
<1> QED BY <1>1, <1>2, <1>3, <1>4, <1>5

LEMMA PostsGrow ==
  ASSUME BaseInv, NEW r \in Req, NEW a \in Ask, Posts(r, a)
  PROVE  /\ Grown(wire, wire', NewCall(r, a)) /\ Grown(pending, pending', NewCall(r, a))
         /\ answers' = answers /\ fault' = fault /\ up' = up
         /\ UNCHANGED <<entries, image_index, answer, shown, reordered>>
<1>1. wire \in Seq(Call) /\ pending \in Seq(Call) /\ NewCall(r, a) \in Call
  BY NewCallType DEF BaseInv, TypeOK
<1>2. wire' = Append(wire, NewCall(r, a)) /\ pending' = Append(pending, NewCall(r, a))
  BY DEF Posts
<1>3. Grown(wire, wire', NewCall(r, a)) /\ Grown(pending, pending', NewCall(r, a))
  BY <1>1, <1>2, SeqTypes
<1> QED BY <1>3 DEF Posts, mongo

\* What Execute does to the queues.
LEMMA ExecuteQueues ==
  ASSUME BaseInv, Execute
  PROVE  /\ 1 \in 1..Len(wire) /\ wire[1] \in Call /\ CallOK(wire[1]) /\ Shifted(wire, wire')
         /\ \/ /\ Len(wire) + Len(answers) = Len(pending)
               /\ Len(answers) + 1 \in 1..Len(pending) /\ pending[Len(answers) + 1] = wire[1]
               /\ Grown(answers, answers', Result(wire[1]))
               /\ Len(wire') + Len(answers') = Len(pending)
            \/ /\ Len(wire) + Len(answers) # Len(pending) /\ answers' = answers
               /\ \A j \in 1..Len(pending) : pending[j] # wire[1]
         /\ Aligned(wire', pending, Len(answers')) /\ Apart(wire', pending, Len(answers'))
         /\ UNCHANGED <<pending, ask, answer, shown, arrived, reordered, up, fault>>
<1> DEFINE R == [seq: Nat, list: SUBSET Entry]
<1>1. /\ 1 \in 1..Len(wire) /\ wire[1] \in Call /\ CallOK(wire[1]) /\ Head(wire) = wire[1]
      /\ Shifted(wire, wire') /\ Len(answers) \in Nat /\ Len(pending) \in Nat
      /\ Len(wire) \in Nat
  BY HeadFacts DEF Execute
<1>2. Aligned(wire, pending, Len(answers)) /\ Apart(wire, pending, Len(answers))
  BY DEF BaseInv, QueueInv
<1>3. UNCHANGED <<pending, ask, answer, shown, arrived, reordered, up, fault>>
  BY DEF Execute, page
<1>4. DOMAIN pending = 1..Len(pending)
  BY SMTT(30) DEF BaseInv, TypeOK
<1>5. CASE /\ Len(wire) + Len(answers) = Len(pending) /\ Len(answers) + 1 \in 1..Len(pending)
           /\ pending[Len(answers) + 1] = wire[1]
           /\ Aligned(wire', pending, Len(answers) + 1) /\ Apart(wire', pending, Len(answers) + 1)
           /\ Len(wire') + Len(answers) + 1 = Len(pending)
  <2>1. answers' = Append(answers, Result(wire[1]))
    BY <1>1, <1>4, <1>5 DEF Execute
  <2>2. answers \in Seq(R) /\ Append(answers, Result(wire[1])) \in Seq(R) /\ Result(wire[1]) \in R
    <3>1. Result(wire[1]) \in R
      BY SMTT(30) DEF Result, BaseInv, TypeOK, getIndexers, Of
    <3> HIDE DEF R
    <3>2. answers \in Seq(R)
      BY DEF BaseInv, TypeOK, R
    <3> QED BY <3>1, <3>2, SeqTypes
  <2> HIDE DEF R
  <2>3. Grown(answers, answers', Result(wire[1]))
    BY <2>1, <2>2, SeqTypes
  <2>4. Len(answers') = Len(answers) + 1
    BY <2>3 DEF Grown
  <2>5. Len(wire') + Len(answers') = Len(pending)
    <3>1. Len(wire') \in Nat
      BY SMTT(30), <1>1 DEF Shifted
    <3>2. Len(wire') + Len(answers) + 1 = Len(pending)
      BY <1>5
    <3> QED BY SMTT(30), <1>1, <2>4, <3>1, <3>2
  <2> QED BY <1>1, <1>3, <1>5, <2>3, <2>4, <2>5
<1>6. CASE /\ Len(wire) + Len(answers) # Len(pending) /\ \A j \in 1..Len(pending) : pending[j] # wire[1]
           /\ Aligned(wire', pending, Len(answers)) /\ Apart(wire', pending, Len(answers))
  <2>1. answers' = answers
    BY <1>1, <1>4, <1>6 DEF Execute
  <2> QED BY <1>1, <1>3, <1>6, <2>1
<1> QED BY <1>1, <1>2, <1>5, <1>6, QueueExecutes

\* What a callback does to the queues; the insert it may send is the first of its
\* request.
LEMMA CallbackQueues ==
  ASSUME BaseInv, Callback
  PROVE  LET c == pending[1]
             n == [op |-> "insertImage", req |-> c.req, index |-> answers[1].seq]
         IN  /\ Shifted(answers, answers') /\ Shifted(pending, Tail(pending))
             /\ \A i \in 1..Len(wire) : ~Same(wire[i], c)
             /\ \A i \in 1..Len(Tail(pending)) : ~Same(Tail(pending)[i], c)
             /\ \/ /\ c.op = "getIndexers" /\ Grown(wire, wire', n)
                   /\ Grown(Tail(pending), pending', n)
                \/ c.op # "getIndexers" /\ wire' = wire /\ pending' = Tail(pending)
             /\ Aligned(wire', pending', Len(answers')) /\ Apart(wire', pending', Len(answers'))
             /\ Len(wire') + Len(answers') - Len(pending') = Len(wire) + Len(answers) - Len(pending)
<1> DEFINE c == pending[1]
           n == [op |-> "insertImage", req |-> c.req, index |-> answers[1].seq]
           p == Tail(pending)
           a == Len(answers) - 1
<1>1. /\ Shifted(answers, answers') /\ Shifted(pending, p) /\ p \in Seq(Call) /\ n \in Call
      /\ wire \in Seq(Call) /\ c \in Call /\ CallOK(c)
  BY CallbackFacts, CallbackEffects DEF BaseInv, TypeOK
<1>2. /\ Len(answers) \in Nat \ {0} /\ Len(answers') = a /\ Len(wire) \in Nat
      /\ Len(p) \in Nat /\ a \in Nat /\ Len(pending) \in Nat
  BY SMTT(30), <1>1, SeqTypes DEF Shifted
<1>3. /\ Aligned(wire, p, a) /\ Apart(wire, p, a)
      /\ Len(wire) + a - Len(p) = Len(wire) + Len(answers) - Len(pending)
      /\ \A i \in 1..Len(wire) : ~Same(wire[i], c)
      /\ \A i \in 1..Len(p) : ~Same(p[i], c)
  BY <1>1, <1>2, QueueAnswers DEF BaseInv, QueueInv
<1>4. CASE c.op = "getIndexers"
  <2>1. wire' = Append(wire, n) /\ pending' = Append(p, n)
    BY <1>4, CallbackEffects
  <2>2. answer[c.req].is = "none" /\ n.req = c.req /\ n.op = "insertImage"
    BY <1>1, <1>4 DEF CallOK, CallFits
  <2>3. \A i \in 1..Len(wire) : CallOK(wire[i])
    BY DEF BaseInv, CallInv
  <2>4. \A i \in 1..Len(p) : CallOK(p[i])
    <3>1. \A i \in 1..Len(p) : i + 1 \in 1..Len(pending) /\ p[i] = pending[i + 1]
      BY SMTT(30), <1>1 DEF Shifted
    <3> QED BY <3>1 DEF BaseInv, CallInv
  <2>5. Fresh(wire, n) /\ Fresh(p, n)
    BY <2>2, <2>3, <2>4 DEF Fresh, Same, CallOK, CallFits
  <2> HIDE DEF n, p, c, a
  <2>6. Grown(wire, wire', n) /\ Grown(p, pending', n)
    BY <1>1, <2>1, SeqTypes
  <2>7. /\ Aligned(wire', pending', a) /\ Apart(wire', pending', a)
        /\ Len(wire') + a - Len(pending') = Len(wire) + a - Len(p)
    BY SMTT(30), <1>2, <1>3, <2>5, <2>6, QueueGrows
  <2> QED BY <1>1, <1>2, <1>3, <1>4, <2>6, <2>7 DEF n, p, c, a
<1>5. CASE c.op # "getIndexers"
  <2>1. wire' = wire /\ pending' = p
    BY <1>5, CallbackEffects
  <2> QED BY <1>1, <1>2, <1>3, <1>5, <2>1
<1> QED BY <1>4, <1>5

LEMMA QueueNext == BaseInv /\ [Next]_vars => QueueInv'
<1> SUFFICES ASSUME BaseInv, [Next]_vars PROVE QueueInv'
  OBVIOUS
<1>1. CASE \E r \in Req, a \in Ask : Posts(r, a)
  <2>1. PICK r \in Req, a \in Ask : Posts(r, a)
    BY <1>1
  <2> DEFINE c == NewCall(r, a)
  <2>2. Fresh(wire, c) /\ Fresh(pending, c)
    BY SMTT(30), <2>1, PostsFresh, NewCallType DEF Fresh, Same
  <2>3. Grown(wire, wire', c) /\ Grown(pending, pending', c) /\ answers' = answers
        /\ fault' = fault /\ up' = up
    BY <2>1, PostsGrow
  <2> HIDE DEF c
  <2>4. /\ Aligned(wire', pending', Len(answers')) /\ Apart(wire', pending', Len(answers'))
        /\ Len(wire') + Len(answers') - Len(pending') = Len(wire) + Len(answers) - Len(pending)
    <3>1. /\ Aligned(wire, pending, Len(answers)) /\ Apart(wire, pending, Len(answers))
          /\ Len(answers) \in Nat
      BY HeadFacts DEF BaseInv, QueueInv
    <3> QED BY SMTT(30), <2>2, <2>3, <3>1, QueueGrows
  <2>5. Len(wire') \in Nat /\ Len(pending') \in Nat /\ Len(answers') \in Nat
    BY SMTT(30), <2>3, LengthFacts DEF Grown
  <2>6. Len(wire) + Len(answers) = Len(pending) => Len(wire') + Len(answers') = Len(pending')
    BY SMTT(30), <2>4, <2>5, LengthFacts
  <2> QED BY <2>3, <2>4, <2>6 DEF BaseInv, QueueInv
<1>2. CASE Execute
  BY <1>2, ExecuteQueues DEF BaseInv, QueueInv
<1>3. CASE Callback
  <2>1. /\ Aligned(wire', pending', Len(answers')) /\ Apart(wire', pending', Len(answers'))
        /\ Len(wire') + Len(answers') - Len(pending') = Len(wire) + Len(answers) - Len(pending)
        /\ Shifted(answers, answers')
    BY <1>3, CallbackQueues
  <2>2. fault' = fault /\ up' = up
    BY <1>3, CallbackFacts
  <2>3. wire' \in Seq(Call) /\ pending' \in Seq(Call)
    BY TypeNext DEF TypeOK
  <2>4. Len(wire') \in Nat /\ Len(pending') \in Nat /\ Len(answers') \in Nat
    BY SMTT(30), <2>1, <2>3, SeqTypes DEF Shifted
  <2>5. Len(wire) + Len(answers) = Len(pending) => Len(wire') + Len(answers') = Len(pending')
    BY SMTT(30), <2>1, <2>4, LengthFacts
  <2> QED BY <2>1, <2>2, <2>5 DEF BaseInv, QueueInv
<1>4. CASE Breaks
  <2>1. Len(pending') = 0 /\ Len(answers') = 0 /\ 1..Len(pending') = {}
    BY <1>4, SeqEmpty, BreaksConn
  <2>2. Len(wire') \in Nat
    BY TypeNext, SeqTypes DEF TypeOK
  <2>3. Aligned(wire', pending', Len(answers')) /\ Apart(wire', pending', Len(answers'))
    BY SMTT(30), <2>1, <2>2 DEF Aligned, Apart
  <2> QED BY <1>4, <2>3 DEF QueueInv, Breaks
<1>5. CASE (\E r \in Req : Shows(r)) \/ Quiet
  BY <1>5, SameConn DEF BaseInv, QueueInv
<1> QED BY <1>1, <1>2, <1>3, <1>4, <1>5, Steps DEF BaseInv

-----------------------------------------------------------------------------
\* Calls fit their requests.
LEMMA PostsCalls ==
  ASSUME BaseInv, NEW r \in Req, NEW a \in Ask, Posts(r, a)
  PROVE  CallInv'
<1> DEFINE c == NewCall(r, a)
<1>1. Grown(wire, wire', c) /\ Grown(pending, pending', c) /\ answer' = answer
  BY PostsGrow
<1>2. CallFits(c, a, "none") /\ c.req = r
  BY SMTT(30), NewCallType, FirstOps, PostsFresh DEF CallFits
<1>3. ASSUME NEW q, NEW v, Grown(q, v, c),
             \A i \in 1..Len(q) : q[i] \in Call /\ CallOK(q[i]) /\ q[i].req # r
      PROVE  \A i \in 1..Len(v) : CallFits(v[i], ask'[v[i].req], answer'[v[i].req].is)
  <2> SUFFICES ASSUME NEW i \in 1..Len(v)
               PROVE  CallFits(v[i], ask'[v[i].req], answer'[v[i].req].is)
    OBVIOUS
  <2> HIDE DEF c
  <2>1. CASE i \in 1..Len(q)
    <3>1. v[i] = q[i] /\ q[i].req \in Req /\ q[i].req # r /\ CallOK(q[i])
      BY <1>3, <2>1 DEF Grown, Call
    <3>2. ask'[v[i].req] = ask[q[i].req]
      BY SMTT(30), <3>1, PostsFresh
    <3> QED BY <1>1, <3>1, <3>2 DEF CallOK
  <2>2. CASE i \notin 1..Len(q)
    <3>1. v[i] = c
      <4>1. i = Len(q) + 1
        BY SMTT(30), <1>3, <2>2 DEF Grown
      <4> QED BY <1>3, <4>1 DEF Grown
    <3> QED BY SMTT(30), <1>1, <1>2, <3>1, PostsFresh
  <2> QED BY <2>1, <2>2
<1>4. /\ \A i \in 1..Len(wire) : wire[i] \in Call /\ CallOK(wire[i]) /\ wire[i].req # r
      /\ \A i \in 1..Len(pending) : pending[i] \in Call /\ CallOK(pending[i]) /\ pending[i].req # r
  BY HeadFacts, PostsFresh
<1> HIDE DEF c
<1>5. /\ \A i \in 1..Len(wire') : CallFits(wire'[i], ask'[wire'[i].req], answer'[wire'[i].req].is)
      /\ \A i \in 1..Len(pending') :
           CallFits(pending'[i], ask'[pending'[i].req], answer'[pending'[i].req].is)
  BY <1>1, <1>3, <1>4
<1>6. ASSUME NEW q \in Req PROVE AskOK(q)'
  <2>1. CASE q = r
    <3>1. a.kind # "delete" => a.index = None
      BY DEF Posts
    <3> QED BY <1>1, <2>1, <3>1, PostsFresh DEF AskOK
  <2>2. CASE q # r
    <3>1. ask'[q] = ask[q] /\ answer'[q] = answer[q] /\ AskOK(q)
      BY SMTT(30), <1>1, <2>2, PostsFresh DEF BaseInv, CallInv
    <3> QED BY <3>1 DEF AskOK
  <2> QED BY <2>1, <2>2
<1>7. \A q \in arrived' : answer'[q].is # "none"
  BY <1>1 DEF Posts, PostCause, BaseInv, CallInv
<1> QED BY <1>5, <1>6, <1>7 DEF CallInv, CallOK

LEMMA ExecuteCalls ==
  ASSUME BaseInv, Execute
  PROVE  CallInv'
<1>1. Shifted(wire, wire') /\ UNCHANGED <<pending, ask, answer, arrived>>
  BY ExecuteQueues
<1>2. \A i \in 1..Len(wire') : i + 1 \in 1..Len(wire) /\ wire'[i] = wire[i + 1]
  BY SMTT(30), <1>1 DEF Shifted
<1> QED BY <1>1, <1>2 DEF BaseInv, CallInv, CallOK, AskOK

\* A callback that answers its request is of the only call of it.
LEMMA CallbackAlone ==
  ASSUME BaseInv, Callback, pending[1].op # "insertImage"
  PROVE  /\ \A i \in 1..Len(wire) : wire[i].req # pending[1].req
         /\ \A i \in 1..Len(Tail(pending)) : Tail(pending)[i].req # pending[1].req
<1> DEFINE c == pending[1]
<1>1. answer[c.req].is = "none"
  BY CallbackFacts DEF CallOK, CallFits
<1>2. /\ \A i \in 1..Len(wire) : ~Same(wire[i], c) /\ CallOK(wire[i])
      /\ \A i \in 1..Len(Tail(pending)) : ~Same(Tail(pending)[i], c)
  BY CallbackQueues, HeadFacts
<1>3. \A i \in 1..Len(Tail(pending)) : CallOK(Tail(pending)[i])
  <2>1. \A i \in 1..Len(Tail(pending)) :
          i + 1 \in 1..Len(pending) /\ Tail(pending)[i] = pending[i + 1]
    BY SMTT(30), CallbackFacts DEF Shifted
  <2> QED BY <2>1, HeadFacts
<1> QED BY <1>1, <1>2, <1>3 DEF Same, CallOK, CallFits

LEMMA CallbackCalls ==
  ASSUME BaseInv, Callback
  PROVE  CallInv'
<1> DEFINE c == pending[1]
           n == [op |-> "insertImage", req |-> c.req, index |-> answers[1].seq]
           p == Tail(pending)
<1>1. /\ c \in Call /\ CallOK(c) /\ c.req \in Req /\ ask' = ask /\ arrived' = arrived
      /\ answers[1].seq \in Nat /\ ask[c.req] \in Ask /\ answer \in [Req -> Reply]
  BY CallbackFacts, CallFacts DEF BaseInv, page, TypeOK
<1>2. /\ \A i \in 1..Len(wire) : wire[i] \in Call /\ CallOK(wire[i])
      /\ \A i \in 1..Len(p) : p[i] \in Call /\ CallOK(p[i])
  <2>1. \A i \in 1..Len(p) : i + 1 \in 1..Len(pending) /\ p[i] = pending[i + 1]
    BY SMTT(30), CallbackFacts DEF Shifted
  <2> QED BY <2>1, HeadFacts
<1>3. CASE c.op = "insertImage"
  <2>1. wire' = wire /\ pending' = p /\ answer' = answer
    BY <1>3, CallbackEffects
  <2> QED BY <1>1, <1>2, <2>1 DEF BaseInv, CallInv, CallOK, AskOK
<1>4. CASE c.op # "insertImage"
  <2>1. PICK a \in Reply : /\ answer' = [answer EXCEPT ![c.req] = a]
                           /\ \/ a.is = "ok" /\ c.op \in {"getIndexers", "deleteImage"}
                              \/ a.is = "list" /\ c.op = "checkImageList"
    <3>1. [is |-> "list", list |-> answers[1].list] \in Reply
      BY CallbackFacts DEF Reply
    <3> QED BY <1>4, <3>1, CallbackEffects, EmptyAnswer
  <2>2. /\ answer'[c.req] = a /\ \A q \in Req : q # c.req => answer'[q] = answer[q]
    BY <1>1, <2>1
  <2>3. /\ \A i \in 1..Len(wire) : wire[i].req # c.req /\ wire[i].req \in Req
        /\ \A i \in 1..Len(p) : p[i].req # c.req /\ p[i].req \in Req
    BY <1>2, <1>4, CallbackAlone DEF Call
  <2>4. ask[c.req] # None /\ AskOK(c.req)
    BY <1>1 DEF CallOK, CallFits, BaseInv, CallInv
  <2>5. ASSUME NEW q \in Req PROVE AskOK(q)'
    <3>1. CASE q = c.req
      <4>1. /\ c.op = "checkImageList" <=> ask[c.req].kind = "list"
            /\ c.op \in {"getIndexers", "deleteImage"} => ask[c.req].kind # "list"
        BY <1>1, CallFacts DEF BaseInv
      <4> QED BY <1>1, <2>1, <2>2, <2>4, <3>1, <4>1 DEF AskOK
    <3>2. CASE q # c.req
      BY <1>1, <2>2, <3>2 DEF AskOK, BaseInv, CallInv
    <3> QED BY <3>1, <3>2
  <2>6. \A q \in arrived' : answer'[q].is # "none"
    BY <1>1, <2>1, <2>2 DEF BaseInv, CallInv, TypeOK
  <2>7. /\ \A i \in 1..Len(wire) : CallFits(wire[i], ask'[wire[i].req], answer'[wire[i].req].is)
        /\ \A i \in 1..Len(p) : CallFits(p[i], ask'[p[i].req], answer'[p[i].req].is)
    BY <1>1, <1>2, <2>2, <2>3 DEF CallOK
  <2>8. /\ \A i \in 1..Len(wire') : CallFits(wire'[i], ask'[wire'[i].req], answer'[wire'[i].req].is)
        /\ \A i \in 1..Len(pending') :
             CallFits(pending'[i], ask'[pending'[i].req], answer'[pending'[i].req].is)
    <3>1. CASE c.op = "getIndexers"
      <4>1. n.req = c.req /\ n.op = "insertImage" /\ n.index \in Nat
        BY <1>1
      <4>2. a.is = "ok" /\ ask[c.req].kind = "create"
        BY <1>1, <2>1, <3>1, CallFacts DEF BaseInv
      <4>3. CallFits(n, ask'[n.req], answer'[n.req].is)
        BY <1>1, <2>2, <2>4, <4>1, <4>2 DEF CallFits, OpsOf
      <4>4. Grown(wire, wire', n) /\ Grown(p, pending', n)
        BY <3>1, CallbackQueues
      <4> HIDE DEF n, c, p
      <4>5. /\ \A i \in 1..Len(wire') : (i \in 1..Len(wire) /\ wire'[i] = wire[i]) \/ wire'[i] = n
            /\ \A i \in 1..Len(pending') : (i \in 1..Len(p) /\ pending'[i] = p[i]) \/ pending'[i] = n
        BY SMTT(30), <4>4 DEF Grown
      <4> QED BY <2>7, <4>3, <4>5
    <3>2. CASE c.op # "getIndexers"
      <4>1. wire' = wire /\ pending' = p
        BY <3>2, CallbackQueues
      <4> QED BY <2>7, <4>1
    <3> QED BY <3>1, <3>2
  <2> QED BY <2>5, <2>6, <2>8 DEF CallInv, CallOK
<1> QED BY <1>3, <1>4

LEMMA CallNext == BaseInv /\ [Next]_vars => CallInv'
<1> SUFFICES ASSUME BaseInv, [Next]_vars PROVE CallInv'
  OBVIOUS
<1>1. CASE Breaks
  <2>1. 1..Len(pending') = {} /\ ask' = ask /\ answer' = answer /\ arrived' = arrived
    BY <1>1, SeqEmpty, BreaksConn
  <2>2. \A i \in 1..Len(wire') : i \in 1..Len(wire) /\ wire'[i] = wire[i]
    BY SMTT(30), <1>1, SeqPrefix DEF Breaks, BaseInv, TypeOK
  <2> QED BY <2>1, <2>2 DEF BaseInv, CallInv, CallOK, AskOK
<1>2. CASE \E r \in Req : Shows(r)
  <2>1. \A r \in arrived' : answer[r].is # "none"
    BY <1>2 DEF Shows, ShowList, BaseInv, CallInv
  <2> QED BY <1>2, <2>1, SameConn DEF BaseInv, CallInv, CallOK, AskOK
<1>3. CASE Quiet
  <2>1. arrived' = arrived
    BY <1>3 DEF Quiet, page
  <2> QED BY <1>3, <2>1, SameConn DEF BaseInv, CallInv, CallOK, AskOK
<1> QED BY <1>1, <1>2, <1>3, PostsCalls, ExecuteCalls, CallbackCalls, Steps DEF BaseInv

LEMMA InitBase == Init => BaseInv
<1> SUFFICES ASSUME Init PROVE BaseInv
  OBVIOUS
<1>1. PICK n \in 0..Old, u \in User, o \in Os :
        image_index = n /\ entries = {[index |-> i, id |-> u, os |-> o] : i \in 1..n}
  BY DEF Init
<1>2. entries \subseteq Entry /\ image_index \in Nat
  <2>1. n \in Nat /\ 1..n \subseteq Nat
    BY SMTT(30), CatalogueAssumption
  <2>2. \A i \in Nat : [index |-> i, id |-> u, os |-> o] \in Entry
    BY DEF Entry
  <2> QED BY <1>1, <2>1, <2>2
<1>3. shown \in [User -> SUBSET Entry]
  BY <1>2 DEF Init, Of
<1>4. [is |-> "none", list |-> {}] \in Reply
  BY DEF Reply
<1>5. answer \in [Req -> Reply] /\ ask \in [Req -> Ask \cup {None}]
  BY <1>4 DEF Init
<1>6. TypeOK
  BY <1>2, <1>3, <1>5, SeqEmpty DEF Init, TypeOK
<1>7. Len(wire) = 0 /\ Len(pending) = 0 /\ Len(answers) = 0 /\ 1..0 = {}
  BY SeqEmpty DEF Init
<1>8. QueueInv
  BY SMTT(30), <1>7 DEF QueueInv, Aligned, Apart, Init
<1>9. CallInv
  <2>1. ASSUME NEW r \in Req PROVE answer[r].is = "none" /\ ask[r] = None
    BY DEF Init
  <2> QED BY <1>7, <2>1 DEF CallInv, AskOK, Init
<1> QED BY <1>6, <1>8, <1>9 DEF BaseInv

LEMMA BaseAlways == Spec => []BaseInv
<1>1. BaseInv /\ [Next]_vars => BaseInv'
  BY TypeNext, QueueNext, CallNext DEF BaseInv
<1> QED BY <1>1, InitBase, PTL DEF Spec

\* The variables have their types: MongoDB holds entries with an index, and every
\* call, answer and command is one the code makes.
THEOREM TypeCorrect == Spec => []TypeOK
<1>1. BaseInv => TypeOK
  BY DEF BaseInv
<1> QED BY <1>1, BaseAlways, PTL

-----------------------------------------------------------------------------
\* The entries that a page shows or may be going to show, or wants to delete.
Doc(c) == [index |-> c.index, id |-> c.id, os |-> c.os]
Deletions(Q) == {r \in Req : Q[r] # None /\ Q[r].kind = "delete" /\ Q[r].index # None}
Shown(S)  == UNION {S[u] : u \in User}
Read(A)   == UNION {A[j].list : j \in 1..Len(A)}
Told(R)   == UNION {R[r].list : r \in Req}
Doomed(Q) == {Doc(Q[r]) : r \in Deletions(Q)}
KnownIn(E, S, A, R, Q) == E \cup Shown(S) \cup Read(A) \cup Told(R) \cup Doomed(Q)
Known == KnownIn(entries, shown, answers, answer, ask)

Inserts == {i \in 1..Len(wire) : wire[i].op = "insertImage"}
Counts  == {j \in 1..Len(answers) : pending[j].op = "getIndexers"}

\* An index that was counted is that of one answer, one insert or one entry.
IndexInv ==
  /\ \A e \in Known : e.index \in 1..image_index
  /\ \A e, f \in Known : e.index = f.index => e = f
  /\ \A i \in Inserts : /\ wire[i].index \in 1..image_index
                        /\ \A e \in Known : e.index # wire[i].index
                        /\ \A k \in Inserts : wire[i].index = wire[k].index => i = k
  /\ \A j \in Counts : /\ answers[j].seq \in 1..image_index
                       /\ \A e \in Known : e.index # answers[j].seq
                       /\ \A i \in Inserts : wire[i].index # answers[j].seq
                       /\ \A k \in Counts : answers[j].seq = answers[k].seq => j = k

\* Lists are of their user's entries, also those shown.
ListInv ==
  /\ \A u \in User : \A e \in shown[u] : e.id = u
  /\ \A j \in 1..Len(answers) : \A e \in answers[j].list :
       pending[j].op = "checkImageList" /\ e.id = ask[pending[j].req].id
  /\ \A r \in Req : \A e \in answer[r].list : answer[r].is = "list" /\ e.id = ask[r].id

\* A delete that MongoDB has executed has removed its entry.
GoneInv ==
  /\ DeletedStaysGone
  /\ \A j \in 1..Len(answers) : pending[j].op = "deleteImage" =>
       \A e \in entries : e.index # ask[pending[j].req].index

EntryInv == IndexInv /\ ListInv /\ GoneInv

LEMMA KnownMember ==
  ASSUME NEW E, NEW S, NEW A, NEW R, NEW Q, NEW e
  PROVE  e \in KnownIn(E, S, A, R, Q) <=>
           \/ e \in E
           \/ \E u \in User : e \in S[u]
           \/ \E j \in 1..Len(A) : e \in A[j].list
           \/ \E r \in Req : e \in R[r].list
           \/ \E r \in Deletions(Q) : e = Doc(Q[r])
<1>1. e \in Shown(S) <=> \E u \in User : e \in S[u]
  BY DEF Shown
<1>2. e \in Read(A) <=> \E j \in 1..Len(A) : e \in A[j].list
  BY DEF Read
<1>3. e \in Told(R) <=> \E r \in Req : e \in R[r].list
  BY DEF Told
<1>4. e \in Doomed(Q) <=> \E r \in Deletions(Q) : e = Doc(Q[r])
  BY DEF Doomed
<1> QED BY <1>1, <1>2, <1>3, <1>4 DEF KnownIn

\* What becomes known comes from where it was known.
LEMMA KnownKept ==
  ASSUME NEW x,
         \A e \in entries' : e \in Known \cup x,
         \A u \in User : \A e \in shown'[u] : e \in Known \cup x,
         \A j \in 1..Len(answers') : \A e \in answers'[j].list : e \in Known \cup x,
         \A r \in Req : \A e \in answer'[r].list : e \in Known \cup x,
         \A r \in Deletions(ask') : Doc(ask'[r]) \in Known \cup x
  PROVE  Known' \subseteq Known \cup x
<1> SUFFICES ASSUME NEW e \in Known' PROVE e \in Known \cup x
  OBVIOUS
<1>1. e \in KnownIn(entries', shown', answers', answer', ask')
  BY DEF Known
<1> QED BY SMTT(30), <1>1, KnownMember

LEMMA KnownParts ==
  /\ \A e \in entries : e \in Known
  /\ \A u \in User : \A e \in shown[u] : e \in Known
  /\ \A j \in 1..Len(answers) : \A e \in answers[j].list : e \in Known
  /\ \A r \in Req : \A e \in answer[r].list : e \in Known
  /\ \A r \in Deletions(ask) : Doc(ask[r]) \in Known
<1>1. \A e : e \in Known <=>
             \/ e \in entries
             \/ \E u \in User : e \in shown[u]
             \/ \E j \in 1..Len(answers) : e \in answers[j].list
             \/ \E r \in Req : e \in answer[r].list
             \/ \E r \in Deletions(ask) : e = Doc(ask[r])
  BY SMTT(30), KnownMember DEF Known
<1> QED BY <1>1

LEMMA KnownTypes ==
  ASSUME TypeOK, NEW e \in Known
  PROVE  e \in Entry /\ e.index \in Nat /\ e = [index |-> e.index, id |-> e.id, os |-> e.os]
<1>1. /\ entries \subseteq Entry /\ \A u \in User : shown[u] \subseteq Entry
      /\ \A r \in Req : answer[r].list \subseteq Entry
  BY DEF TypeOK, Reply
<1>2. \A j \in 1..Len(answers) : answers[j].list \subseteq Entry
  <2>1. \A j \in 1..Len(answers) : answers[j] \in [seq: Nat, list: SUBSET Entry]
    BY SeqTypes DEF TypeOK
  <2> QED BY <2>1
<1>3. ASSUME NEW r \in Deletions(ask) PROVE Doc(ask[r]) \in Entry
  <2>1. ask[r] \in Ask /\ ask[r].index # None
    BY <1>3 DEF Deletions, TypeOK
  <2>2. ask[r].index \in Nat /\ ask[r].id \in User /\ ask[r].os \in Os \cup {None}
    BY <2>1 DEF Ask
  <2> QED BY <2>2 DEF Doc, Entry
<1>4. e \in Entry
  BY SMTT(30), <1>1, <1>2, <1>3, KnownMember DEF Known
<1> QED BY <1>4 DEF Entry

\* A step that makes no entry and counts no index keeps them apart.
LEMMA IndexKept ==
  ASSUME IndexInv, Known' \subseteq Known, NEW d \in Nat, NEW b \in Nat,
         image_index \in Nat, image_index' \in Nat, image_index <= image_index',
         \A i \in Inserts' : i \in Nat /\ i + d \in Inserts /\ wire'[i].index = wire[i + d].index,
         \A j \in Counts' : j \in Nat /\ j + b \in Counts /\ answers'[j].seq = answers[j + b].seq
  PROVE  IndexInv'
<1>1. 1..image_index \subseteq 1..image_index'
  BY SMTT(30)
<1>2. \A e \in Known' : e.index \in 1..image_index'
  BY <1>1 DEF IndexInv
<1>3. \A e, f \in Known' : e.index = f.index => e = f
  BY DEF IndexInv
<1>4. ASSUME NEW i \in Inserts'
      PROVE  /\ wire'[i].index \in 1..image_index'
             /\ \A e \in Known' : e.index # wire'[i].index
             /\ \A k \in Inserts' : wire'[i].index = wire'[k].index => i = k
  <2>1. wire'[i].index \in 1..image_index' /\ \A e \in Known' : e.index # wire'[i].index
    BY SMTT(30), <1>1 DEF IndexInv
  <2>2. ASSUME NEW k \in Inserts', wire'[i].index = wire'[k].index PROVE i = k
    <3>1. i + d = k + d
      BY SMTT(30), <2>2 DEF IndexInv
    <3> QED BY SMTT(30), <3>1
  <2> QED BY <2>1, <2>2
<1>5. ASSUME NEW j \in Counts'
      PROVE  /\ answers'[j].seq \in 1..image_index'
             /\ \A e \in Known' : e.index # answers'[j].seq
             /\ \A i \in Inserts' : wire'[i].index # answers'[j].seq
             /\ \A k \in Counts' : answers'[j].seq = answers'[k].seq => j = k
  <2>1. /\ answers'[j].seq \in 1..image_index' /\ \A e \in Known' : e.index # answers'[j].seq
        /\ \A i \in Inserts' : wire'[i].index # answers'[j].seq
    BY SMTT(30), <1>1 DEF IndexInv
  <2>2. ASSUME NEW k \in Counts', answers'[j].seq = answers'[k].seq PROVE j = k
    <3>1. j + b = k + b
      BY SMTT(30), <2>2 DEF IndexInv
    <3> QED BY SMTT(30), <3>1
  <2> QED BY <2>1, <2>2
<1> QED BY <1>2, <1>3, <1>4, <1>5 DEF IndexInv

LEMMA PostsIndex ==
  ASSUME BaseInv, EntryInv, NEW r \in Req, NEW a \in Ask, Posts(r, a)
  PROVE  IndexInv'
<1> TypeOK /\ IndexInv /\ ListInv
  BY DEF BaseInv, EntryInv
<1>1. UNCHANGED <<entries, image_index, shown, answers, answer>>
  BY PostsGrow
<1>2. ASSUME NEW q \in Deletions(ask') PROVE Doc(ask'[q]) \in Known
  <2>1. CASE q = r
    <3>1. ask'[q] = a /\ a.index # None /\ a.id \in User
      BY <2>1, PostsFresh DEF Deletions, Ask
    <3>2. PICK e \in shown[a.id] : e.os = a.os /\ e.index = a.index
      BY <3>1 DEF Posts
    <3>3. e \in Known /\ e.id = a.id
      BY <3>1, <3>2, KnownParts DEF ListInv
    <3>4. e = [index |-> e.index, id |-> e.id, os |-> e.os]
      BY <3>3, KnownTypes
    <3>5. e = Doc(a)
      BY <3>2, <3>3, <3>4 DEF Doc
    <3> QED BY <3>1, <3>3, <3>5
  <2>2. CASE q # r
    <3>1. ask'[q] = ask[q] /\ q \in Deletions(ask)
      BY SMTT(30), <2>2, PostsFresh DEF Deletions
    <3> QED BY <3>1, KnownParts
  <2> QED BY <2>1, <2>2
<1>3. Known' \subseteq Known
  <2>1. Known' \subseteq Known \cup {}
    BY <1>1, <1>2, KnownParts, KnownKept
  <2> QED BY <2>1
<1>4. Grown(wire, wire', NewCall(r, a)) /\ Grown(pending, pending', NewCall(r, a))
  BY PostsGrow
<1>5. ASSUME NEW i \in Inserts'
      PROVE  i \in Nat /\ i + 0 \in Inserts /\ wire'[i].index = wire[i + 0].index
  <2>1. i \in 1..Len(wire') /\ wire'[i].op = "insertImage"
    BY DEF Inserts
  <2>2. NewCall(r, a).op # "insertImage"
    BY NewCallType, FirstOps
  <2>3. i \in 1..Len(wire) /\ wire'[i] = wire[i]
    BY SMTT(30), <1>4, <2>1, <2>2 DEF Grown
  <2>4. i + 0 = i
    BY SMTT(30), <2>1
  <2> QED BY SMTT(30), <2>1, <2>3, <2>4 DEF Inserts
<1>6. ASSUME NEW j \in Counts'
      PROVE  j \in Nat /\ j + 0 \in Counts /\ answers'[j].seq = answers[j + 0].seq
  <2>1. j \in 1..Len(answers) /\ pending'[j].op = "getIndexers"
    BY <1>1 DEF Counts
  <2>2. j \in 1..Len(pending) /\ j + 0 = j
    BY SMTT(30), <2>1, LengthFacts
  <2>3. pending'[j] = pending[j]
    BY <1>4, <2>2 DEF Grown
  <2> QED BY SMTT(30), <1>1, <2>1, <2>2, <2>3 DEF Counts
<1>7. image_index \in Nat /\ image_index' \in Nat /\ image_index <= image_index'
  BY SMTT(30), <1>1 DEF TypeOK
<1> QED BY <1>3, <1>5, <1>6, <1>7, IndexKept

\* Execute: the inserts that stay, and the counters that are known.
LEMMA ExecutePlaces ==
  ASSUME BaseInv, Execute
  PROVE  /\ \A i \in Inserts' : /\ i \in Nat /\ i + 1 \in Inserts
                                /\ wire'[i].index = wire[i + 1].index
         /\ \A j \in 1..Len(answers') :
              \/ j \in 1..Len(answers) /\ answers'[j] = answers[j]
              \/ /\ j = Len(answers) + 1 /\ pending[j] = wire[1] /\ answers'[j] = Result(wire[1])
                 /\ wire[1].op # "getIndexers" => j \notin Counts'
         /\ \A j \in Counts' :
              \/ j \in Counts /\ answers'[j] = answers[j]
              \/ wire[1].op = "getIndexers" /\ j = Len(answers) + 1 /\ answers'[j] = Result(wire[1])
<1>1. Shifted(wire, wire') /\ pending' = pending
  BY ExecuteQueues
<1>2. ASSUME NEW i \in Inserts'
      PROVE  i \in Nat /\ i + 1 \in Inserts /\ wire'[i].index = wire[i + 1].index
  <2>1. i \in 1..Len(wire') /\ wire'[i].op = "insertImage"
    BY DEF Inserts
  <2>2. i \in Nat /\ i + 1 \in 1..Len(wire) /\ wire'[i] = wire[i + 1]
    BY SMTT(30), <1>1, <2>1 DEF Shifted
  <2> QED BY <2>1, <2>2 DEF Inserts
<1>3. ASSUME NEW j \in 1..Len(answers')
      PROVE  \/ j \in 1..Len(answers) /\ answers'[j] = answers[j]
             \/ j = Len(answers) + 1 /\ pending[j] = wire[1] /\ answers'[j] = Result(wire[1])
  <2>1. CASE answers' = answers
    BY <2>1
  <2>2. CASE /\ Grown(answers, answers', Result(wire[1]))
             /\ pending[Len(answers) + 1] = wire[1]
    <3>1. j \in 1..Len(answers) \/ j = Len(answers) + 1
      BY SMTT(30), <2>2 DEF Grown
    <3> QED BY <2>2, <3>1 DEF Grown
  <2> QED BY <2>1, <2>2, ExecuteQueues
<1> QED BY <1>1, <1>2, <1>3 DEF Counts

LEMMA ExecuteKnown ==
  ASSUME BaseInv, Execute
  PROVE  /\ wire[1].op = "insertImage" => Known' \subseteq Known \cup {Document(wire[1])}
         /\ wire[1].op # "insertImage" => Known' \subseteq Known
<1> DEFINE c == wire[1]
           x == IF c.op = "insertImage" THEN {Document(c)} ELSE {}
<1>1. Head(wire) = c
  BY HeadFacts DEF Execute
<1>2. UNCHANGED <<shown, answer, ask>>
  BY ExecuteQueues
<1>3. \A e \in entries' : e \in Known \cup x
  <2>1. CASE c.op = "insertImage"
    <3>1. entries' = entries \cup {Document(c)}
      BY <1>1, <2>1 DEF Execute
    <3> QED BY <2>1, <3>1, KnownParts
  <2>2. CASE c.op = "deleteImage"
    <3>1. entries' = entries \ {Document(c)}
      BY <1>1, <2>2 DEF Execute, deleteImage
    <3> QED BY <3>1, KnownParts
  <2>3. CASE c.op \notin {"insertImage", "deleteImage"}
    <3>1. entries' = entries
      BY <1>1, <2>3 DEF Execute
    <3> QED BY <3>1, KnownParts
  <2> QED BY <2>1, <2>2, <2>3
<1>4. \A e \in Result(c).list : e \in entries
  BY DEF Result, Of
<1> HIDE DEF x, c
<1>5. \A j \in 1..Len(answers') : \A e \in answers'[j].list : e \in Known \cup x
  BY <1>4, ExecutePlaces, KnownParts DEF c
<1>6. Known' \subseteq Known \cup x
  BY <1>2, <1>3, <1>5, KnownParts, KnownKept
<1> QED BY <1>6 DEF x, c

\* MongoDB counts: the new index is larger than all.
LEMMA CountIndex ==
  ASSUME BaseInv, EntryInv, Execute, wire[1].op = "getIndexers"
  PROVE  IndexInv'
<1> IndexInv /\ image_index \in Nat
  BY DEF EntryInv, BaseInv, TypeOK
<1> DEFINE n == Len(answers) + 1
<1>1. image_index' = image_index + 1 /\ Result(wire[1]).seq = image_index + 1
  BY HeadFacts DEF Execute, Result, getIndexers
<1>2. Known' \subseteq Known
  BY ExecuteKnown
<1>3. /\ \A i \in Inserts' : /\ i \in Nat /\ i + 1 \in Inserts
                             /\ wire'[i].index = wire[i + 1].index
      /\ \A j \in Counts' : \/ j \in Counts /\ answers'[j] = answers[j]
                            \/ j = n /\ answers'[j] = Result(wire[1])
  BY ExecutePlaces
<1>4. 1..image_index \subseteq 1..image_index' /\ image_index + 1 \notin 1..image_index
      /\ image_index + 1 \in 1..image_index'
  BY SMTT(30), <1>1
<1> HIDE DEF n
<1>5. ASSUME NEW i \in Inserts'
      PROVE  /\ wire'[i].index \in 1..image_index
             /\ \A e \in Known' : e.index # wire'[i].index
             /\ \A k \in Inserts' : wire'[i].index = wire'[k].index => i = k
  <2>1. wire'[i].index \in 1..image_index /\ \A e \in Known' : e.index # wire'[i].index
    BY SMTT(30), <1>2, <1>3 DEF IndexInv
  <2>2. ASSUME NEW k \in Inserts', wire'[i].index = wire'[k].index PROVE i = k
    <3>1. i + 1 = k + 1
      BY SMTT(30), <1>3, <2>2 DEF IndexInv
    <3> QED BY SMTT(30), <1>3, <3>1
  <2> QED BY <2>1, <2>2
<1>6. ASSUME NEW j \in Counts'
      PROVE  /\ answers'[j].seq \in 1..image_index'
             /\ \A e \in Known' : e.index # answers'[j].seq
             /\ \A i \in Inserts' : wire'[i].index # answers'[j].seq
             /\ \A k \in Counts' : answers'[j].seq = answers'[k].seq => j = k
  <2>1. CASE j \in Counts /\ answers'[j] = answers[j]
    <3>1. answers'[j].seq \in 1..image_index
      BY <2>1 DEF IndexInv
    <3>2. ASSUME NEW k \in Counts', answers'[j].seq = answers'[k].seq PROVE j = k
      <4>1. answers'[k].seq # image_index + 1
        BY <1>4, <3>1, <3>2
      <4>2. k \in Counts /\ answers'[k] = answers[k]
        BY <1>1, <1>3, <4>1
      <4> QED BY <2>1, <3>2, <4>2 DEF IndexInv
    <3>3. \A i \in Inserts' : wire'[i].index # answers'[j].seq
      BY SMTT(30), <1>3, <2>1 DEF IndexInv
    <3> QED BY <1>2, <1>4, <2>1, <3>1, <3>2, <3>3 DEF IndexInv
  <2>2. CASE j = n /\ answers'[j] = Result(wire[1])
    <3>1. answers'[j].seq = image_index + 1
      BY <1>1, <2>2
    <3>2. ASSUME NEW k \in Counts', answers'[j].seq = answers'[k].seq PROVE j = k
      <4>1. CASE k \in Counts /\ answers'[k] = answers[k]
        <5>1. answers'[k].seq \in 1..image_index
          BY <4>1 DEF IndexInv
        <5> QED BY <1>4, <3>1, <3>2, <5>1
      <4>2. CASE k = n
        BY <2>2, <4>2
      <4> QED BY <1>3, <4>1, <4>2
    <3>3. \A e \in Known' : e.index # image_index + 1
      BY SMTT(30), <1>2, <1>4 DEF IndexInv
    <3>4. \A i \in Inserts' : wire'[i].index # image_index + 1
      BY <1>4, <1>5
    <3> QED BY <1>4, <3>1, <3>2, <3>3, <3>4
  <2> QED BY <1>3, <2>1, <2>2
<1>7. \A e \in Known' : e.index \in 1..image_index'
  BY <1>2, <1>4 DEF IndexInv
<1>8. \A e, f \in Known' : e.index = f.index => e = f
  BY <1>2 DEF IndexInv
<1>9. \A i \in Inserts' : wire'[i].index \in 1..image_index'
  BY <1>4, <1>5
<1> QED BY <1>5, <1>6, <1>7, <1>8, <1>9 DEF IndexInv

\* MongoDB inserts: no entry with this index is known.
LEMMA InsertIndex ==
  ASSUME BaseInv, EntryInv, Execute, wire[1].op = "insertImage"
  PROVE  IndexInv'
<1> IndexInv /\ TypeOK
  BY DEF EntryInv, BaseInv
<1> DEFINE d == Document(wire[1])
<1>1. image_index' = image_index
  BY HeadFacts DEF Execute
<1>2. 1 \in Inserts /\ d.index = wire[1].index
  BY ExecuteQueues DEF Inserts, Document
<1> HIDE DEF d
<1>3. Known' \subseteq Known \cup {d}
  BY ExecuteKnown DEF d
<1>4. ASSUME NEW i \in Inserts'
      PROVE  i \in Nat /\ i + 1 \in Inserts /\ wire'[i].index = wire[i + 1].index /\ i + 1 # 1
  <2>1. i \in 1..Len(wire') /\ i \in Nat
    BY ExecutePlaces DEF Inserts
  <2>2. i # 0
    BY SMTT(30), <2>1, ExecuteQueues DEF Shifted
  <2>3. i + 1 # 1
    BY SMTT(30), <2>1, <2>2
  <2> QED BY <2>3, ExecutePlaces
<1>5. \A j \in Counts' : j \in Counts /\ answers'[j] = answers[j]
  BY ExecutePlaces
<1>6. \A e \in Known : e.index # d.index
  BY <1>2 DEF IndexInv
<1>7. /\ \A e \in Known' : e.index \in 1..image_index'
      /\ \A e, f \in Known' : e.index = f.index => e = f
  BY <1>1, <1>2, <1>3, <1>6 DEF IndexInv
<1>8. ASSUME NEW i \in Inserts'
      PROVE  /\ wire'[i].index \in 1..image_index'
             /\ \A e \in Known' : e.index # wire'[i].index
             /\ \A k \in Inserts' : wire'[i].index = wire'[k].index => i = k
  <2>1. wire'[i].index \in 1..image_index' /\ wire'[i].index # d.index
    BY SMTT(30), <1>1, <1>2, <1>4 DEF IndexInv
  <2>2. \A e \in Known' : e.index # wire'[i].index
    BY SMTT(30), <1>3, <1>4, <2>1 DEF IndexInv
  <2>3. ASSUME NEW k \in Inserts', wire'[i].index = wire'[k].index PROVE i = k
    <3>1. i + 1 = k + 1
      BY SMTT(30), <1>4, <2>3 DEF IndexInv
    <3> QED BY SMTT(30), <1>4, <3>1
  <2> QED BY <2>1, <2>2, <2>3
<1>9. ASSUME NEW j \in Counts'
      PROVE  /\ answers'[j].seq \in 1..image_index'
             /\ \A e \in Known' : e.index # answers'[j].seq
             /\ \A i \in Inserts' : wire'[i].index # answers'[j].seq
             /\ \A k \in Counts' : answers'[j].seq = answers'[k].seq => j = k
  <2>1. answers'[j].seq \in 1..image_index' /\ answers'[j].seq # d.index
    BY SMTT(30), <1>1, <1>2, <1>5 DEF IndexInv
  <2>2. \A e \in Known' : e.index # answers'[j].seq
    BY <1>3, <1>5, <2>1 DEF IndexInv
  <2>3. \A i \in Inserts' : wire'[i].index # answers'[j].seq
    BY SMTT(30), <1>4, <1>5 DEF IndexInv
  <2>4. \A k \in Counts' : answers'[j].seq = answers'[k].seq => j = k
    BY <1>5 DEF IndexInv
  <2> QED BY <2>1, <2>2, <2>3, <2>4
<1> QED BY <1>7, <1>8, <1>9 DEF IndexInv

LEMMA ExecuteIndex ==
  ASSUME BaseInv, EntryInv, Execute
  PROVE  IndexInv'
<1>1. CASE wire[1].op \notin {"getIndexers", "insertImage"}
  <2>1. image_index' = image_index /\ image_index \in Nat
    BY <1>1, HeadFacts DEF Execute, BaseInv, TypeOK
  <2>2. Known' \subseteq Known
    BY <1>1, ExecuteKnown
  <2>3. \A j \in Counts' : j \in Nat /\ j + 0 \in Counts /\ answers'[j].seq = answers[j + 0].seq
    <3> SUFFICES ASSUME NEW j \in Counts'
                 PROVE  j \in Nat /\ j + 0 \in Counts /\ answers'[j].seq = answers[j + 0].seq
      OBVIOUS
    <3>1. j \in Counts /\ answers'[j] = answers[j]
      BY <1>1, ExecutePlaces
    <3>2. j \in Nat
      BY SMTT(30), <3>1, LengthFacts DEF Counts
    <3>3. j + 0 = j
      BY SMTT(30), <3>2
    <3> QED BY <3>1, <3>2, <3>3
  <2>4. image_index <= image_index'
    BY SMTT(30), <2>1
  <2>5. 1 \in Nat /\ 0 \in Nat
    OBVIOUS
  <2> QED BY <2>1, <2>2, <2>3, <2>4, <2>5, ExecutePlaces, IndexKept DEF EntryInv
<1> QED BY <1>1, CountIndex, InsertIndex

\* The callbacks shift the answers; pending is shifted with them.
LEMMA CallbackPlaces ==
  ASSUME BaseInv, Callback
  PROVE  /\ \A j \in 1..Len(answers') :
              /\ j \in Nat /\ j + 1 \in 1..Len(answers) /\ answers'[j] = answers[j + 1]
              /\ pending'[j] = pending[j + 1] /\ j + 1 # 1
         /\ \A j \in Counts' : j \in Nat /\ j + 1 \in Counts /\ answers'[j].seq = answers[j + 1].seq
                               /\ j + 1 # 1
         /\ pending[1].op # "getIndexers" => Inserts' = Inserts /\ wire' = wire
<1>1. Shifted(answers, answers') /\ Shifted(pending, Tail(pending))
  BY CallbackFacts
<1>2. Len(answers) <= Len(pending) /\ Len(pending) \in Nat /\ Len(answers) \in Nat
  BY HeadFacts
<1>3. ASSUME NEW j \in 1..Len(answers')
      PROVE  /\ j \in Nat /\ j + 1 \in 1..Len(answers) /\ answers'[j] = answers[j + 1]
             /\ pending'[j] = pending[j + 1] /\ j + 1 # 1
  <2>1. j \in Nat /\ j + 1 \in 1..Len(answers) /\ answers'[j] = answers[j + 1] /\ j + 1 # 1
    BY SMTT(30), <1>1 DEF Shifted
  <2>2. j \in 1..Len(Tail(pending)) /\ Tail(pending)[j] = pending[j + 1]
    BY SMTT(30), <1>1, <1>2 DEF Shifted
  <2>3. pending'[j] = Tail(pending)[j]
    BY <2>2, CallbackQueues DEF Grown
  <2> QED BY <2>1, <2>2, <2>3
<1>4. ASSUME NEW j \in Counts'
      PROVE  j \in Nat /\ j + 1 \in Counts /\ answers'[j].seq = answers[j + 1].seq /\ j + 1 # 1
  BY <1>3 DEF Counts
<1>5. ASSUME pending[1].op # "getIndexers" PROVE Inserts' = Inserts /\ wire' = wire
  <2>1. wire' = wire
    BY <1>5, CallbackQueues
  <2> QED BY <2>1 DEF Inserts
<1> QED BY <1>3, <1>4, <1>5

LEMMA CallbackKnown ==
  ASSUME BaseInv, Callback
  PROVE  Known' \subseteq Known /\ image_index' = image_index /\ UNCHANGED <<entries, shown, ask>>
<1> DEFINE c == pending[1]
<1>1. UNCHANGED <<entries, image_index, shown, ask>>
  BY CallbackFacts DEF mongo, page
<1>2. \A j \in 1..Len(answers') : \A e \in answers'[j].list : e \in Known \cup {}
  BY CallbackPlaces, KnownParts
<1>3. ASSUME NEW r \in Req PROVE \A e \in answer'[r].list : e \in Known \cup {}
  <2>1. c.req \in Req /\ answer \in [Req -> Reply]
    BY CallbackFacts DEF BaseInv, TypeOK, Call
  <2>2. \/ answer' = answer
        \/ answer' = [answer EXCEPT ![c.req] = Ok]
        \/ answer' = [answer EXCEPT ![c.req] = [is |-> "list", list |-> answers[1].list]]
    BY CallbackEffects
  <2>3. \/ answer'[r] = answer[r] \/ answer'[r] = Ok
        \/ answer'[r] = [is |-> "list", list |-> answers[1].list]
    BY <2>1, <2>2
  <2>4. answer'[r].list \in {answer[r].list, {}, answers[1].list}
    BY SMTT(30), <2>3, EmptyAnswer
  <2> QED BY <2>4, CallbackFacts, KnownParts
<1>4. Known' \subseteq Known \cup {}
  BY <1>1, <1>2, <1>3, KnownParts, KnownKept
<1> QED BY <1>1, <1>4

LEMMA CallbackIndex ==
  ASSUME BaseInv, EntryInv, Callback
  PROVE  IndexInv'
<1> IndexInv /\ image_index \in Nat
  BY DEF EntryInv, BaseInv, TypeOK
<1> DEFINE c == pending[1]
           n == [op |-> "insertImage", req |-> c.req, index |-> answers[1].seq]
           k0 == Len(wire) + 1
<1>1. Known' \subseteq Known /\ image_index' = image_index
  BY CallbackKnown
<1>2. \A j \in Counts' : j \in Nat /\ j + 1 \in Counts /\ answers'[j].seq = answers[j + 1].seq /\ j + 1 # 1
  BY CallbackPlaces
<1>3. CASE c.op # "getIndexers"
  <2>1. \A i \in Inserts' : i \in Nat /\ i + 0 \in Inserts /\ wire'[i].index = wire[i + 0].index
    <3> SUFFICES ASSUME NEW i \in Inserts'
                 PROVE  i \in Nat /\ i + 0 \in Inserts /\ wire'[i].index = wire[i + 0].index
      OBVIOUS
    <3>1. i \in Inserts /\ wire' = wire
      BY <1>3, CallbackPlaces
    <3>2. i \in Nat
      BY SMTT(30), <3>1, LengthFacts DEF Inserts
    <3>3. i + 0 = i
      BY SMTT(30), <3>2
    <3> QED BY <3>1, <3>2, <3>3
  <2>2. image_index <= image_index' /\ 1 \in Nat /\ 0 \in Nat
    BY SMTT(30), <1>1
  <2> QED BY <1>1, <1>2, <2>1, <2>2, IndexKept
<1>4. CASE c.op = "getIndexers"
  <2>1. 1 \in Counts
    BY <1>4, CallbackFacts DEF Counts
  <2>2. Grown(wire, wire', n) /\ n.index = answers[1].seq
    BY <1>4, CallbackQueues
  <2> HIDE DEF n, c
  <2>3. ASSUME NEW i \in Inserts'
        PROVE  \/ i \in Inserts /\ wire'[i] = wire[i]
               \/ i = k0 /\ wire'[i].index = answers[1].seq
    <3>1. i \in 1..Len(wire') /\ wire'[i].op = "insertImage"
      BY DEF Inserts
    <3>2. (i \in 1..Len(wire) /\ wire'[i] = wire[i]) \/ (i = k0 /\ wire'[i] = n)
      BY SMTT(30), <2>2, <3>1 DEF Grown
    <3> QED BY <2>2, <3>1, <3>2 DEF Inserts
  <2> HIDE DEF k0
  <2>4. /\ \A e \in Known' : e.index \in 1..image_index'
        /\ \A e, f \in Known' : e.index = f.index => e = f
    BY <1>1 DEF IndexInv
  <2>5. ASSUME NEW i \in Inserts'
        PROVE  /\ wire'[i].index \in 1..image_index'
               /\ \A e \in Known' : e.index # wire'[i].index
               /\ \A k \in Inserts' : wire'[i].index = wire'[k].index => i = k
    <3>1. wire'[i].index \in 1..image_index' /\ \A e \in Known' : e.index # wire'[i].index
      BY SMTT(30), <1>1, <2>1, <2>3 DEF IndexInv
    <3>2. \A k \in Inserts' : wire'[i].index = wire'[k].index => i = k
      BY SMTT(30), <2>1, <2>3 DEF IndexInv
    <3> QED BY <3>1, <3>2
  <2>6. ASSUME NEW j \in Counts'
        PROVE  /\ answers'[j].seq \in 1..image_index'
               /\ \A e \in Known' : e.index # answers'[j].seq
               /\ \A i \in Inserts' : wire'[i].index # answers'[j].seq
               /\ \A k \in Counts' : answers'[j].seq = answers'[k].seq => j = k
    <3>1. answers'[j].seq \in 1..image_index' /\ \A e \in Known' : e.index # answers'[j].seq
      BY SMTT(30), <1>1, <1>2 DEF IndexInv
    <3>2. answers'[j].seq # answers[1].seq
      BY SMTT(30), <1>2, <2>1 DEF IndexInv
    <3>3. \A i \in Inserts' : wire'[i].index # answers'[j].seq
      BY SMTT(30), <1>2, <2>3, <3>2 DEF IndexInv
    <3>4. ASSUME NEW k \in Counts', answers'[j].seq = answers'[k].seq PROVE j = k
      <4>1. j + 1 = k + 1
        BY SMTT(30), <1>2, <3>4 DEF IndexInv
      <4> QED BY SMTT(30), <1>2, <4>1
    <3> QED BY <3>1, <3>3, <3>4
  <2> QED BY <2>4, <2>5, <2>6 DEF IndexInv
<1> QED BY <1>3, <1>4

LEMMA IndexNext == BaseInv /\ EntryInv /\ [Next]_vars => IndexInv'
<1> SUFFICES ASSUME BaseInv, EntryInv, [Next]_vars PROVE IndexInv'
  OBVIOUS
<1> IndexInv /\ image_index \in Nat
  BY DEF EntryInv, BaseInv, TypeOK
<1>1. CASE Breaks
  <2>1. 1..Len(pending') = {} /\ 1..Len(answers') = {} /\ UNCHANGED <<entries, image_index, ask, answer, shown>>
    BY <1>1, SeqEmpty, BreaksConn
  <2>2. ASSUME NEW i \in Inserts'
        PROVE  i \in Nat /\ i + 0 \in Inserts /\ wire'[i].index = wire[i + 0].index
    <3>1. i \in Nat /\ i \in 1..Len(wire) /\ wire'[i] = wire[i]
      BY SMTT(30), <1>1, SeqPrefix DEF Inserts, Breaks, BaseInv, TypeOK
    <3>2. i + 0 = i /\ i \in Inserts
      BY SMTT(30), <3>1 DEF Inserts
    <3> QED BY <3>1, <3>2
  <2>3. Counts' = {}
    BY <2>1 DEF Counts
  <2>4. Known' \subseteq Known \cup {}
    BY <2>1, KnownParts, KnownKept
  <2>5. image_index <= image_index' /\ image_index' \in Nat /\ 0 \in Nat /\ Known' \subseteq Known
    BY SMTT(30), <2>1, <2>4
  <2> QED BY <2>2, <2>3, <2>5, IndexKept
<1>2. CASE (\E r \in Req : Shows(r)) \/ Quiet
  <2>1. UNCHANGED <<wire, pending, answers, ask, answer, entries, image_index>>
    BY <1>2, SameConn
  <2>2. ASSUME NEW u \in User PROVE \A e \in shown'[u] : e \in Known \cup {}
    <3>1. CASE Quiet
      BY <3>1, KnownParts DEF Quiet, page
    <3>2. ASSUME NEW r \in Req, Shows(r) PROVE \A e \in shown'[u] : e \in Known \cup {}
      <4>1. shown' = [shown EXCEPT ![ask[r].id] = answer[r].list]
        BY <3>2 DEF Shows, ShowList
      <4>2. shown'[u] = shown[u] \/ shown'[u] = answer[r].list
        BY <4>1 DEF BaseInv, TypeOK
      <4> QED BY <4>2, KnownParts
    <3> QED BY <1>2, <3>1, <3>2
  <2>3. Known' \subseteq Known \cup {}
    BY <2>1, <2>2, KnownParts, KnownKept
  <2>4. ASSUME NEW i \in Inserts'
        PROVE  i \in Nat /\ i + 0 \in Inserts /\ wire'[i].index = wire[i + 0].index
    <3>1. i \in Inserts /\ i \in Nat
      BY SMTT(30), <2>1, LengthFacts DEF Inserts
    <3>2. i + 0 = i
      BY SMTT(30), <3>1
    <3> QED BY <2>1, <3>1, <3>2
  <2>5. ASSUME NEW j \in Counts'
        PROVE  j \in Nat /\ j + 0 \in Counts /\ answers'[j].seq = answers[j + 0].seq
    <3>1. j \in Counts /\ j \in Nat
      BY SMTT(30), <2>1, LengthFacts DEF Counts
    <3>2. j + 0 = j
      BY SMTT(30), <3>1
    <3> QED BY <2>1, <3>1, <3>2
  <2>6. image_index <= image_index' /\ image_index' \in Nat /\ 0 \in Nat /\ Known' \subseteq Known
    BY SMTT(30), <2>1, <2>3
  <2> QED BY <2>4, <2>5, <2>6, IndexKept
<1> QED BY <1>1, <1>2, PostsIndex, ExecuteIndex, CallbackIndex, Steps DEF BaseInv

-----------------------------------------------------------------------------
\* Lists are of one user's entries.
LEMMA ListNext == BaseInv /\ EntryInv /\ [Next]_vars => ListInv'
<1> SUFFICES ASSUME BaseInv, EntryInv, [Next]_vars PROVE ListInv'
  OBVIOUS
<1> TypeOK /\ ListInv
  BY DEF BaseInv, EntryInv
<1>1. ASSUME NEW r \in Req, NEW a \in Ask, Posts(r, a) PROVE ListInv'
  <2>1. UNCHANGED <<shown, answers, answer>> /\ Grown(pending, pending', NewCall(r, a))
    BY <1>1, PostsGrow
  <2>2. ASSUME NEW j \in 1..Len(answers)
        PROVE  /\ j \in 1..Len(pending) /\ pending'[j] = pending[j]
               /\ ask'[pending[j].req] = ask[pending[j].req]
    <3>1. j \in 1..Len(pending)
      BY SMTT(30), LengthFacts
    <3>2. pending[j].req \in Req /\ pending[j].req # r
      BY <1>1, <3>1, HeadFacts, PostsFresh DEF Call
    <3> QED BY <1>1, <2>1, <3>1, <3>2, PostsFresh DEF Grown
  <2>3. ASSUME NEW q \in Req, NEW e \in answer[q].list PROVE ask'[q].id = ask[q].id
    <3>1. q # r
      BY <1>1, <2>3, PostsFresh DEF ListInv
    <3> QED BY <1>1, <3>1, PostsFresh
  <2> QED BY SMTT(30), <2>1, <2>2, <2>3 DEF ListInv
<1>2. ASSUME Execute PROVE ListInv'
  <2>1. UNCHANGED <<pending, ask, answer, shown>>
    BY <1>2, ExecuteQueues
  <2>2. ASSUME NEW j \in 1..Len(answers'), NEW e \in answers'[j].list
        PROVE  pending[j].op = "checkImageList" /\ e.id = ask[pending[j].req].id
    <3>1. CASE j \in 1..Len(answers) /\ answers'[j] = answers[j]
      BY <2>2, <3>1 DEF ListInv
    <3>2. CASE pending[j] = wire[1] /\ answers'[j] = Result(wire[1])
      <4>1. e \in Result(wire[1]).list
        BY <2>2, <3>2
      <4>2. wire[1].op = "checkImageList" /\ e \in Of(ask[wire[1].req].id)
        BY <4>1 DEF Result
      <4> QED BY <3>2, <4>2 DEF Of
    <3> QED BY <1>2, <3>1, <3>2, ExecutePlaces
  <2> QED BY <2>1, <2>2 DEF ListInv
<1>3. ASSUME Callback PROVE ListInv'
  <2> DEFINE c == pending[1]
  <2>1. UNCHANGED <<shown, ask>> /\ c \in Call /\ c.req \in Req /\ answer \in [Req -> Reply]
        /\ 1 \in 1..Len(answers)
    BY <1>3, CallbackKnown, CallbackFacts DEF Call, TypeOK
  <2>2. ASSUME NEW j \in 1..Len(answers'), NEW e \in answers'[j].list
        PROVE  pending'[j].op = "checkImageList" /\ e.id = ask[pending'[j].req].id
    <3>1. j + 1 \in 1..Len(answers) /\ answers'[j] = answers[j + 1] /\ pending'[j] = pending[j + 1]
      BY <1>3, CallbackPlaces
    <3>2. \A i \in 1..Len(answers) : \A d \in answers[i].list :
            pending[i].op = "checkImageList" /\ d.id = ask[pending[i].req].id
      BY DEF ListInv
    <3> QED BY <2>2, <3>1, <3>2
  <2>3. ASSUME NEW q \in Req, NEW e \in answer'[q].list
        PROVE  answer'[q].is = "list" /\ e.id = ask[q].id
    <3>1. CASE answer'[q] = answer[q]
      BY <2>3, <3>1 DEF ListInv
    <3>2. CASE q = c.req /\ answer'[q] = Ok
      BY <2>3, <3>2, EmptyAnswer
    <3>3. CASE q = c.req /\ answer'[q] = [is |-> "list", list |-> answers[1].list]
      BY SMTT(30), <2>1, <2>3, <3>3 DEF ListInv
    <3>4. \/ answer' = answer
          \/ answer' = [answer EXCEPT ![c.req] = Ok]
          \/ answer' = [answer EXCEPT ![c.req] = [is |-> "list", list |-> answers[1].list]]
      BY <1>3, CallbackEffects
    <3> QED BY <2>1, <3>1, <3>2, <3>3, <3>4
  <2> QED BY <2>1, <2>2, <2>3 DEF ListInv
<1>4. ASSUME Breaks PROVE ListInv'
  <2>1. 1..Len(answers') = {} /\ UNCHANGED <<ask, answer, shown>>
    BY <1>4, SeqEmpty, BreaksConn
  <2> QED BY <2>1 DEF ListInv
<1>5. ASSUME NEW r \in Req, Shows(r) PROVE ListInv'
  <2>1. UNCHANGED <<pending, answers, ask, answer>>
    BY <1>5, SameConn
  <2>2. shown' = [shown EXCEPT ![ask[r].id] = answer[r].list]
    BY <1>5 DEF Shows, ShowList
  <2>3. ASSUME NEW u \in User, NEW e \in shown'[u] PROVE e.id = u
    <3>1. e \in shown[u] \/ (u = ask[r].id /\ e \in answer[r].list)
      BY <2>2, <2>3 DEF TypeOK
    <3> QED BY <3>1 DEF ListInv
  <2> QED BY <2>1, <2>3 DEF ListInv
<1>6. ASSUME Quiet PROVE ListInv'
  BY <1>6 DEF Quiet, conn, page, ListInv
<1> QED BY <1>1, <1>2, <1>3, <1>4, <1>5, <1>6, Steps DEF BaseInv

-----------------------------------------------------------------------------
\* What is deleted stays gone.
Gone(x) == \A e \in entries : e.index # x

LEMMA DeletedKnown ==
  ASSUME BaseInv, NEW r \in Req, ask[r] # None, ask[r].kind = "delete", NEW e \in Known
  PROVE  /\ e.index \in Nat
         /\ EntryInv /\ e.index = ask[r].index => e = Doc(ask[r]) /\ Doc(ask[r]) \in Known
<1>1. e.index \in Nat
  BY KnownTypes DEF BaseInv
<1>2. ASSUME EntryInv, e.index = ask[r].index PROVE e = Doc(ask[r]) /\ Doc(ask[r]) \in Known
  <2>1. ask[r].index # None
    BY <1>1, <1>2, CatalogueAssumption
  <2>2. Doc(ask[r]) \in Known
    BY <2>1, KnownParts DEF Deletions
  <2>3. Doc(ask[r]).index = e.index
    BY <1>2 DEF Doc
  <2> QED BY <1>2, <2>2, <2>3 DEF EntryInv, IndexInv
<1> QED BY <1>1, <1>2

LEMMA ExecuteGone ==
  ASSUME BaseInv, EntryInv, Execute
  PROVE  /\ \A r \in Req : ask[r] # None /\ ask[r].kind = "delete" /\ Gone(ask[r].index)
              => \A e \in entries' : e.index # ask[r].index
         /\ wire[1].op = "deleteImage" => \A e \in entries' : e.index # ask[wire[1].req].index
<1> DEFINE c == wire[1]
<1>1. Head(wire) = c /\ 1 \in 1..Len(wire) /\ c \in Call /\ CallOK(c)
  BY HeadFacts DEF Execute
<1>2. ASSUME NEW r \in Req, ask[r] # None, ask[r].kind = "delete", Gone(ask[r].index),
             NEW e \in entries'
      PROVE  e.index # ask[r].index
  <2>1. CASE e \in entries
    BY <1>2, <2>1 DEF Gone
  <2>2. CASE e \notin entries
    <3>1. c.op = "insertImage" /\ e = Document(c)
      BY <1>1, <1>2, <2>2 DEF Execute, deleteImage
    <3>2. 1 \in Inserts /\ e.index = c.index /\ c.index \in Nat
      BY <1>1, <3>1 DEF Inserts, Document, CallOK, CallFits
    <3>3. CASE ask[r].index = None
      BY <3>2, <3>3, CatalogueAssumption
    <3>4. CASE ask[r].index # None
      <4>1. Doc(ask[r]) \in Known
        BY <1>2, <3>4, KnownParts DEF Deletions
      <4>2. Doc(ask[r]).index = ask[r].index
        BY DEF Doc
      <4> QED BY SMTT(30), <3>2, <4>1, <4>2 DEF EntryInv, IndexInv
    <3> QED BY <3>3, <3>4
  <2> QED BY <2>1, <2>2
<1>3. ASSUME c.op = "deleteImage", NEW e \in entries' PROVE e.index # ask[c.req].index
  <2>1. entries' = entries \ {Document(c)}
    BY <1>1, <1>3 DEF Execute, deleteImage
  <2>2. e \in Known /\ e # Document(c)
    BY <1>3, <2>1, KnownParts
  <2>3. c.req \in Req /\ ask[c.req] # None /\ ask[c.req].kind = "delete" /\ c.index = ask[c.req].index
    BY <1>1, <1>3, CallFacts DEF CallOK, CallFits, BaseInv
  <2>4. Document(c) = Doc(ask[c.req])
    BY <2>3 DEF Document, Doc
  <2> QED BY <2>2, <2>3, <2>4, DeletedKnown
<1> QED BY <1>2, <1>3

LEMMA GoneNext == BaseInv /\ EntryInv /\ [Next]_vars => GoneInv'
<1> SUFFICES ASSUME BaseInv, EntryInv, [Next]_vars PROVE GoneInv'
  OBVIOUS
<1> TypeOK /\ GoneInv
  BY DEF BaseInv, EntryInv
<1>1. ASSUME NEW r \in Req, NEW a \in Ask, Posts(r, a) PROVE GoneInv'
  <2>1. UNCHANGED <<entries, answers, answer>> /\ Grown(pending, pending', NewCall(r, a))
    BY <1>1, PostsGrow
  <2>2. ASSUME NEW j \in 1..Len(answers)
        PROVE  pending'[j] = pending[j] /\ ask'[pending[j].req] = ask[pending[j].req]
    <3>1. j \in 1..Len(pending)
      BY SMTT(30), LengthFacts
    <3>2. pending[j].req \in Req /\ pending[j].req # r
      BY <1>1, <3>1, HeadFacts, PostsFresh DEF Call
    <3> QED BY <1>1, <2>1, <3>1, <3>2, PostsFresh DEF Grown
  <2>3. ASSUME NEW q \in Req, answer[q].is = "ok" PROVE ask'[q] = ask[q]
    BY <1>1, <2>3, PostsFresh
  <2> QED BY SMTT(30), <2>1, <2>2, <2>3 DEF GoneInv, DeletedStaysGone
<1>2. ASSUME Execute PROVE GoneInv'
  <2>1. UNCHANGED <<pending, ask, answer>>
    BY <1>2, ExecuteQueues
  <2>2. ASSUME NEW r \in Req, ask[r] # None, ask[r].kind = "delete", answer[r].is = "ok"
        PROVE  \A e \in entries' : e.index # ask[r].index
    <3>1. Gone(ask[r].index)
      BY <2>2 DEF Gone, GoneInv, DeletedStaysGone
    <3> QED BY <1>2, <2>2, <3>1, ExecuteGone
  <2>3. ASSUME NEW j \in 1..Len(answers'), pending[j].op = "deleteImage"
        PROVE  \A e \in entries' : e.index # ask[pending[j].req].index
    <3>1. CASE j \in 1..Len(answers)
      <4>1. j \in 1..Len(pending) /\ Gone(ask[pending[j].req].index)
        <5>1. Gone(ask[pending[j].req].index)
          BY <2>3, <3>1 DEF Gone, GoneInv
        <5>2. Len(pending) \in Nat /\ Len(answers) \in Nat /\ Len(answers) <= Len(pending)
          BY HeadFacts
        <5>3. j \in 1..Len(pending)
          BY SMTT(30), <3>1, <5>2
        <5> QED BY <5>1, <5>3
      <4>2. /\ pending[j].req \in Req /\ ask[pending[j].req] # None
            /\ ask[pending[j].req].kind = "delete"
        BY <2>3, <4>1, HeadFacts, CallFacts DEF CallOK, CallFits
      <4> QED BY <1>2, <4>1, <4>2, ExecuteGone
    <3>2. CASE pending[j] = wire[1]
      BY <1>2, <2>3, <3>2, ExecuteGone
    <3> QED BY <1>2, <3>1, <3>2, ExecutePlaces
  <2> QED BY <2>1, <2>2, <2>3 DEF GoneInv, DeletedStaysGone
<1>3. ASSUME Callback PROVE GoneInv'
  <2> DEFINE c == pending[1]
  <2>1. UNCHANGED <<entries, ask>> /\ c.req \in Req /\ answer \in [Req -> Reply]
        /\ 1 \in 1..Len(answers) /\ c \in Call /\ CallOK(c)
    BY <1>3, CallbackKnown, CallbackFacts DEF Call, TypeOK
  <2>2. ASSUME NEW j \in 1..Len(answers'), pending'[j].op = "deleteImage"
        PROVE  \A e \in entries : e.index # ask[pending'[j].req].index
    BY <1>3, <2>2, CallbackPlaces DEF GoneInv
  <2>3. ASSUME NEW r \in Req, ask[r] # None, ask[r].kind = "delete", answer'[r].is = "ok"
        PROVE  \A e \in entries : e.index # ask[r].index
    <3>1. CASE answer'[r] = answer[r]
      BY <2>3, <3>1 DEF GoneInv, DeletedStaysGone
    <3>2. CASE r = c.req
      <4>1. c.op = "deleteImage"
        BY <2>1, <2>3, <3>2, CallFacts
      <4> QED BY <2>1, <3>2, <4>1 DEF GoneInv
    <3>3. answer' = answer \/ \E x : answer' = [answer EXCEPT ![c.req] = x]
      BY <1>3, CallbackEffects
    <3> QED BY <2>1, <3>1, <3>2, <3>3
  <2> QED BY <2>1, <2>2, <2>3 DEF GoneInv, DeletedStaysGone
<1>4. ASSUME Breaks PROVE GoneInv'
  <2>1. 1..Len(answers') = {} /\ UNCHANGED <<ask, answer, entries>>
    BY <1>4, SeqEmpty, BreaksConn
  <2> QED BY <2>1 DEF GoneInv, DeletedStaysGone
<1>5. ASSUME (\E r \in Req : Shows(r)) \/ Quiet PROVE GoneInv'
  BY <1>5, SameConn DEF GoneInv, DeletedStaysGone
<1> QED BY <1>1, <1>2, <1>3, <1>4, <1>5, Steps DEF BaseInv

LEMMA InitEntries == Init => EntryInv
<1> SUFFICES ASSUME Init PROVE EntryInv
  OBVIOUS
<1>1. PICK n \in 0..Old, u \in User, o \in Os :
        image_index = n /\ entries = {[index |-> i, id |-> u, os |-> o] : i \in 1..n}
  BY DEF Init
<1>2. 1..Len(wire) = {} /\ 1..Len(pending) = {} /\ 1..Len(answers) = {}
  BY SeqEmpty DEF Init
<1>3. /\ \A r \in Req : ask[r] = None /\ answer[r].is = "none" /\ answer[r].list = {}
      /\ \A x \in User : shown[x] = {e \in entries : e.id = x}
  BY DEF Init, Of
<1>4. Known \subseteq entries
  BY SMTT(30), <1>2, <1>3, KnownMember DEF Known, Deletions
<1>5. Inserts = {} /\ Counts = {}
  BY <1>2 DEF Inserts, Counts
<1>6. IndexInv
  <2>1. \A e \in entries : \E i \in 1..n : e = [index |-> i, id |-> u, os |-> o]
    BY <1>1
  <2>2. \A e \in entries : e.index \in 1..n
    BY SMTT(30), <2>1
  <2>3. \A e, f \in entries : e.index = f.index => e = f
    BY SMTT(30), <2>1
  <2> QED BY <1>1, <1>4, <1>5, <2>2, <2>3 DEF IndexInv
<1>7. ListInv /\ GoneInv
  BY SMTT(30), <1>2, <1>3 DEF ListInv, GoneInv, DeletedStaysGone
<1> QED BY <1>6, <1>7 DEF EntryInv

LEMMA EntryAlways == Spec => [](BaseInv /\ EntryInv)
<1>1. BaseInv /\ EntryInv /\ [Next]_vars => (BaseInv /\ EntryInv)'
  BY TypeNext, QueueNext, CallNext, IndexNext, ListNext, GoneNext DEF BaseInv, EntryInv
<1> QED BY <1>1, InitBase, InitEntries, PTL DEF Spec

\* A delete that was answered has removed its entry for good, also when the load
\* balancer ends and its commands are still on their way to MongoDB.
THEOREM DeletedGone == Spec => []DeletedStaysGone
<1>1. EntryInv => DeletedStaysGone
  BY DEF EntryInv, GoneInv
<1> QED BY <1>1, EntryAlways, PTL

-----------------------------------------------------------------------------
\* Commands to the host that are not carried out yet.
OrdersIn(D, W, K) == {m[2] : m \in D \cup W} \cup {K[w] : w \in Worker}
Orders == OrdersIn(dial, waiting, working)
IsCreate(c) == c # None /\ c.kind = "create"
IsDelete(c) == c # None /\ c.kind = "delete" /\ c.index # None

\* There is one create for an index, in one place; a delete is of what a page asked.
CreateIndexed == \A c \in Orders : IsCreate(c) =>
  c.index \in 1..image_index /\ \A j \in Counts : answers[j].seq # c.index
DeleteAsked == \A c \in Orders : IsDelete(c) => \E r \in Deletions(ask) : Doc(c) = Doc(ask[r])
HostIndexed ==
  /\ \A m \in waiting : m[2].index # None
  /\ \A w \in Worker : working[w] # None => working[w].index # None
OneCreate ==
  /\ \A m \in dial \cap waiting : ~IsCreate(m[2])
  /\ \A m, n \in dial \cup waiting :
       IsCreate(m[2]) /\ IsCreate(n[2]) /\ m[2].index = n[2].index => m = n
  /\ \A m \in dial \cup waiting, w \in Worker :
       IsCreate(m[2]) /\ IsCreate(working[w]) => m[2].index # working[w].index
  /\ \A v, w \in Worker :
       IsCreate(working[v]) /\ IsCreate(working[w]) /\ working[v].index = working[w].index => v = w
OrderInv == CreateIndexed /\ DeleteAsked /\ HostIndexed /\ OneCreate

LEMMA OrderMember ==
  ASSUME NEW D, NEW W, NEW K, NEW c
  PROVE  c \in OrdersIn(D, W, K) <=>
           (\E m \in D : m[2] = c) \/ (\E m \in W : m[2] = c) \/ (\E w \in Worker : K[w] = c)
BY DEF OrdersIn

\* Where a command is, before a step and after it.
Placed(D, W, K, c) == (\E n \in D \cup W : n[2] = c) \/ (\E v \in Worker : K[v] = c)

LEMMA OrderPlaces ==
  ASSUME NEW c
  PROVE  /\ c \in Orders <=> Placed(dial, waiting, working, c)
         /\ c \in Orders' <=> Placed(dial', waiting', working', c)
<1>1. c \in Orders <=> Placed(dial, waiting, working, c)
  BY DEF Orders, OrdersIn, Placed
<1>2. c \in Orders' <=> Placed(dial', waiting', working', c)
  BY DEF Orders, OrdersIn, Placed
<1> QED BY <1>1, <1>2

\* The commands only grow fewer, and what was counted or asked is not changed.
OrdersFewer ==
  /\ dial' \subseteq dial /\ waiting' \subseteq waiting
  /\ \A w \in Worker : working'[w] \in {working[w], None}
AskKept ==
  /\ \A r \in Deletions(ask) : r \in Deletions(ask') /\ ask'[r] = ask[r]
CountKept ==
  /\ image_index \in Nat /\ image_index' \in Nat /\ image_index <= image_index'
  /\ \A j \in Counts' : \/ \E k \in Counts : answers[k].seq = answers'[j].seq
                        \/ answers'[j].seq = image_index + 1

LEMMA OrderKept ==
  ASSUME OrderInv, OrdersFewer, AskKept, CountKept
  PROVE  OrderInv'
<1>1. 1..image_index \subseteq 1..image_index' /\ image_index + 1 \notin 1..image_index
  BY SMTT(30) DEF CountKept
<1>2. Orders' \subseteq Orders \cup {None}
  <2>1. Orders' = OrdersIn(dial', waiting', working')
    BY DEF Orders
  <2> QED BY SMTT(30), <2>1, OrderMember DEF Orders, OrdersFewer
<1>3. ASSUME NEW c \in Orders', IsCreate(c)
      PROVE  c.index \in 1..image_index' /\ \A j \in Counts' : answers'[j].seq # c.index
  <2>1. c \in Orders
    BY <1>2, <1>3 DEF IsCreate
  <2>2. c.index \in 1..image_index
    BY <1>3, <2>1 DEF OrderInv, CreateIndexed
  <2> QED BY <1>1, <1>3, <2>1, <2>2 DEF OrderInv, CreateIndexed, CountKept
<1>4. ASSUME NEW c \in Orders', IsDelete(c)
      PROVE  \E r \in Deletions(ask') : Doc(c) = Doc(ask'[r])
  <2>1. c \in Orders
    BY <1>2, <1>4 DEF IsDelete
  <2> QED BY SMTT(30), <1>4, <2>1 DEF OrderInv, DeleteAsked, AskKept
<1>5. \A w \in Worker : working'[w] # None => working'[w] = working[w]
  BY DEF OrdersFewer
<1>6. \A m \in dial' \cup waiting' : m \in dial \cup waiting
  BY DEF OrdersFewer
<1>7. \A w \in Worker : working'[w] # None => working'[w].index # None
  BY <1>5 DEF OrderInv, HostIndexed
<1>8. /\ \A m \in waiting' : m[2].index # None
      /\ \A m \in dial' \cap waiting' : ~IsCreate(m[2])
  BY DEF OrdersFewer, OrderInv, HostIndexed, OneCreate
<1>9. \A m, n \in dial' \cup waiting' :
        IsCreate(m[2]) /\ IsCreate(n[2]) /\ m[2].index = n[2].index => m = n
  BY <1>6 DEF OrderInv, OneCreate
<1>10. \A m \in dial' \cup waiting', w \in Worker :
         IsCreate(m[2]) /\ IsCreate(working'[w]) => m[2].index # working'[w].index
  <2>1. \A m \in dial \cup waiting, w \in Worker :
          IsCreate(m[2]) /\ IsCreate(working[w]) => m[2].index # working[w].index
    BY DEF OrderInv, OneCreate
  <2>2. ~IsCreate(None)
    BY DEF IsCreate
  <2> QED BY <1>5, <1>6, <2>1, <2>2
<1>11. \A v, w \in Worker :
         IsCreate(working'[v]) /\ IsCreate(working'[w]) /\ working'[v].index = working'[w].index => v = w
  <2>1. \A v, w \in Worker :
          IsCreate(working[v]) /\ IsCreate(working[w]) /\ working[v].index = working[w].index => v = w
    BY DEF OrderInv, OneCreate
  <2>2. ~IsCreate(None)
    BY DEF IsCreate
  <2> QED BY <1>5, <2>1, <2>2
<1> QED BY <1>3, <1>4, <1>7, <1>8, <1>9, <1>10, <1>11 DEF OrderInv, CreateIndexed, DeleteAsked, HostIndexed, OneCreate

\* The indices whose image is still to come have no file yet.
Reserved == {c.index : c \in {x \in Orders : IsCreate(x)}} \cup {answers[j].seq : j \in Counts}
ImageInv == image_index <= IndexMod =>
  \A f \in images : /\ \E i \in 1..image_index : f.index = i % IndexMod
                    /\ \A i \in Reserved : f.index # i % IndexMod

HostInv == OrderInv /\ ImageInv

\* The remainder tells IndexMod indices apart.
LEMMA ModApart ==
  ASSUME NEW i \in 1..IndexMod, NEW j \in 1..IndexMod, i % IndexMod = j % IndexMod
  PROVE  i = j
<1>1. IndexMod \in Nat \ {0}
  BY CatalogueAssumption
<1>2. ASSUME NEW k \in 1..IndexMod
      PROVE  (k < IndexMod => k % IndexMod = k) /\ (k = IndexMod => k % IndexMod = 0)
  BY SMTT(30), <1>1
<1> QED BY SMTT(30), <1>1, <1>2

LEMMA ReservedFacts ==
  ASSUME IndexInv, OrderInv
  PROVE  /\ Reserved \subseteq 1..image_index
         /\ \A c \in Orders : IsCreate(c) => c.index \in Reserved
         /\ \A j \in Counts : answers[j].seq \in Reserved
         /\ \A i \in Reserved : \/ \E c \in Orders : IsCreate(c) /\ c.index = i
                                \/ \E j \in Counts : answers[j].seq = i
<1>1. \A c \in Orders : IsCreate(c) => c.index \in 1..image_index
  BY DEF OrderInv, CreateIndexed
<1>2. \A j \in Counts : answers[j].seq \in 1..image_index
  BY DEF IndexInv
<1>3. \A i : i \in Reserved <=> \/ \E c \in Orders : IsCreate(c) /\ c.index = i
                              \/ \E j \in Counts : answers[j].seq = i
  BY DEF Reserved
<1> QED BY <1>1, <1>2, <1>3

LEMMA ImageKept ==
  ASSUME ImageInv, images' \subseteq images, CountKept,
         \A i \in Reserved' : i \in Reserved \/ i = image_index + 1,
         \A i \in Reserved' : i \in 1..image_index'
  PROVE  ImageInv'
<1> SUFFICES ASSUME image_index' <= IndexMod, NEW f \in images'
             PROVE  /\ \E i \in 1..image_index' : f.index = i % IndexMod
                    /\ \A i \in Reserved' : f.index # i % IndexMod
  BY DEF ImageInv
<1>1. /\ image_index \in Nat /\ image_index' \in Nat /\ image_index <= image_index'
      /\ image_index <= IndexMod /\ 1..image_index \subseteq 1..image_index'
      /\ 1..image_index' \subseteq 1..IndexMod
  BY SMTT(30), CatalogueAssumption DEF CountKept
<1>2. PICK i \in 1..image_index : f.index = i % IndexMod
  BY <1>1 DEF ImageInv
<1>3. ASSUME NEW k \in Reserved' PROVE f.index # k % IndexMod
  <2>1. CASE k \in Reserved
    BY <1>1, <2>1 DEF ImageInv
  <2>2. CASE k = image_index + 1
    <3>1. i # k /\ i \in 1..IndexMod /\ k \in 1..IndexMod
      BY SMTT(30), <1>1, <2>2
    <3> QED BY <1>2, <3>1, ModApart
  <2> QED BY <2>1, <2>2
<1> QED BY <1>1, <1>2, <1>3

\* Steps that give the host no new command.
LEMMA CountSteps ==
  ASSUME BaseInv, [Next]_vars
  PROVE  CountKept /\ AskKept
<1>1. image_index \in Nat /\ image_index' \in Nat
  BY TypeNext DEF BaseInv, TypeOK
<1>2. ASSUME image_index' = image_index,
             \A j \in Counts' : \E k \in Counts : answers[k].seq = answers'[j].seq
      PROVE  CountKept
  BY SMTT(30), <1>1, <1>2 DEF CountKept
<1>3. ASSUME ask' = ask PROVE AskKept
  BY <1>3 DEF AskKept
<1>4. ASSUME NEW r \in Req, NEW a \in Ask, Posts(r, a) PROVE CountKept /\ AskKept
  <2>1. image_index' = image_index /\ answers' = answers /\ Grown(pending, pending', NewCall(r, a))
    BY <1>4, PostsGrow
  <2>2. \A j \in Counts' : j \in Counts
    <3>1. \A j \in 1..Len(answers) : j \in 1..Len(pending)
      BY SMTT(30), LengthFacts
    <3> QED BY <2>1, <3>1 DEF Counts, Grown
  <2>3. AskKept
    BY <1>4, PostsFresh DEF AskKept, Deletions
  <2> QED BY <1>2, <2>1, <2>2, <2>3
<1>5. ASSUME Execute PROVE CountKept /\ AskKept
  <2>1. CASE wire[1].op = "getIndexers"
    <3>1. image_index' = image_index + 1 /\ Result(wire[1]).seq = image_index + 1
      BY <1>5, <2>1, HeadFacts DEF Execute, Result, getIndexers
    <3>2. image_index <= image_index'
      BY SMTT(30), <1>1, <3>1
    <3> QED BY <1>1, <1>3, <1>5, <3>1, <3>2, ExecuteQueues, ExecutePlaces DEF CountKept
  <2>2. CASE wire[1].op # "getIndexers"
    <3>1. image_index' = image_index
      BY <1>5, <2>2, HeadFacts DEF Execute
    <3> QED BY <1>2, <1>3, <1>5, <2>2, <3>1, ExecuteQueues, ExecutePlaces
  <2> QED BY <2>1, <2>2
<1>6. ASSUME Callback PROVE CountKept /\ AskKept
  BY <1>2, <1>3, <1>6, CallbackKnown, CallbackPlaces
<1>7. ASSUME Breaks PROVE CountKept /\ AskKept
  <2>1. 1..Len(answers') = {} /\ image_index' = image_index /\ ask' = ask
    BY <1>7, SeqEmpty, BreaksConn
  <2> QED BY <1>2, <1>3, <2>1 DEF Counts
<1>8. ASSUME (\E r \in Req : Shows(r)) \/ Quiet PROVE CountKept /\ AskKept
  <2>1. UNCHANGED <<pending, answers, ask, image_index>>
    BY <1>8, SameConn
  <2> QED BY <1>2, <1>3, <2>1 DEF Counts
<1> QED BY <1>4, <1>5, <1>6, <1>7, <1>8, Steps DEF BaseInv

\* The steps of the commands: none, fewer, one more, or one that moves.
Issues(c, m) ==
  /\ c = pending[1] /\ c.op \in {"getIndexers", "deleteImage"} /\ Callback
  /\ m = IF c.op = "getIndexers" THEN Command("create", c.req, answers[1].seq)
                                 ELSE Command("delete", c.req, ask[c.req].index)
  /\ dial' = dial \cup {m} /\ UNCHANGED host
Takes(m, w) ==
  /\ m \in waiting /\ working[w] = None /\ working' = [working EXCEPT ![w] = m[2]]
  /\ waiting' = waiting \ {m} /\ UNCHANGED <<dial, images>>
Finishes(w) ==
  /\ Host!Finish(w, TRUE) /\ UNCHANGED <<dial, fault>> /\ Quiet
  /\ overtaken' = (overtaken \/ (working[w].kind = "delete" /\ Creating(working[w].index) # {}))

LEMMA OrderSteps ==
  ASSUME BaseInv, [Next]_vars
  PROVE  \/ UNCHANGED <<dial, host>>
         \/ OrdersFewer /\ images' = images /\ fault' = TRUE
         \/ Callback /\ \E c, m : Issues(c, m)
         \/ Quiet /\ \E d \in dial : Sends(d)
         \/ Quiet /\ UNCHANGED overtaken /\ \E m \in waiting, w \in Worker : Takes(m, w)
         \/ \E w \in Worker : Finishes(w)
<1> TypeOK
  BY DEF BaseInv
<1>1. CASE (\E r \in Req, a \in Ask : Posts(r, a)) \/ Execute \/ (\E r \in Req : Shows(r))
  BY <1>1 DEF Posts, Execute, Shows, ShowList
<1>2. CASE Callback
  <2> DEFINE c == pending[1]
  <2>1. UNCHANGED host
    BY <1>2, CallbackFacts DEF host
  <2>2. CASE c.op = "getIndexers"
    <3>1. dial' = dial \cup {Command("create", c.req, answers[1].seq)}
      BY <1>2, <2>2, CallbackEffects
    <3> QED BY <1>2, <2>1, <2>2, <3>1 DEF Issues
  <2>3. CASE c.op = "deleteImage"
    <3>1. dial' = dial \cup {Command("delete", c.req, ask[c.req].index)}
      BY <1>2, <2>3, CallbackEffects
    <3>2. "deleteImage" # "getIndexers"
      OBVIOUS
    <3> QED BY <1>2, <2>1, <2>3, <3>1, <3>2 DEF Issues
  <2>4. CASE c.op \notin {"getIndexers", "deleteImage"}
    <3>1. dial' = dial
      BY <1>2, <2>4, CallbackEffects
    <3> QED BY <2>1, <3>1
  <2> QED BY <2>2, <2>3, <2>4
<1>3. CASE Breaks
  BY <1>3 DEF Breaks, OrdersFewer, host
<1>4. ASSUME Quiet, HostStep
      PROVE  \/ OrdersFewer /\ images' = images /\ fault' = TRUE
             \/ UNCHANGED overtaken /\ \E m \in waiting, w \in Worker : Takes(m, w)
             \/ \E w \in Worker : Finishes(w)
  <2>1. dial' = dial
    BY <1>4 DEF HostStep
  <2>2. ASSUME NEW m \in waiting, NEW w \in Worker, Host!Take(m, w), UNCHANGED <<fault, overtaken>>
        PROVE  Takes(m, w)
    BY <2>1, <2>2 DEF Host!Take, Takes
  <2>3. ASSUME NEW m \in waiting, Host!Drop(m), fault' = TRUE
        PROVE  OrdersFewer /\ images' = images /\ fault' = TRUE
    BY <2>1, <2>3 DEF Host!Drop, OrdersFewer
  <2>4. ASSUME NEW w \in Worker, Host!Finish(w, TRUE), UNCHANGED fault,
               overtaken' = (overtaken \/ (working[w].kind = "delete" /\ Creating(working[w].index) # {}))
        PROVE  Finishes(w)
    BY <1>4, <2>1, <2>4 DEF Finishes
  <2>5. ASSUME NEW w \in Worker, Host!Finish(w, FALSE), fault' = TRUE
        PROVE  OrdersFewer /\ images' = images /\ fault' = TRUE
    <3>1. images' = images /\ waiting' = waiting /\ working' = [working EXCEPT ![w] = None]
      BY <2>5 DEF Host!Finish
    <3>2. \A v \in Worker : working'[v] \in {working[v], None}
      BY <3>1 DEF TypeOK
    <3> QED BY <2>1, <2>5, <3>1, <3>2 DEF OrdersFewer
  <2> QED BY <1>4, <2>2, <2>3, <2>4, <2>5 DEF HostStep
<1>5. ASSUME NEW d \in dial, Fails(d) PROVE OrdersFewer /\ images' = images /\ fault' = TRUE
  BY <1>5 DEF Fails, OrdersFewer, host
<1>6. CASE Rests
  BY <1>6 DEF Rests
<1> QED BY <1>1, <1>2, <1>3, <1>4, <1>5, <1>6, Steps DEF BaseInv

LEMMA CommandFacts ==
  ASSUME TypeOK, NEW r \in Req, ask[r] \in Ask, NEW i \in Nat \cup {None}, NEW m,
         NEW k \in {"create", "delete"}, m = Command(k, r, i)
  PROVE  /\ m \in Req \X Cmd /\ m[2].kind = k /\ m[2].index = i
         /\ m[2].os = ask[r].os /\ m[2].id = ask[r].id
<1> DEFINE x == [kind |-> k, os |-> ask[r].os, index |-> i, id |-> ask[r].id]
<1>1. ask[r].os \in Os \cup {None} /\ ask[r].id \in User
  BY DEF Ask
<1>2. x \in Cmd /\ x.kind = k /\ x.index = i /\ x.os = ask[r].os /\ x.id = ask[r].id
  BY <1>1 DEF Cmd
<1>3. m = <<r, x>>
  BY DEF Command
<1> HIDE DEF x
<1>4. m \in Req \X Cmd /\ m[2] = x
  BY SMTT(30), <1>2, <1>3
<1> QED BY <1>2, <1>4

LEMMA IssuesOrder ==
  ASSUME BaseInv, EntryInv, OrderInv, [Next]_vars, NEW c, NEW m, Issues(c, m)
  PROVE  /\ OrderInv' /\ Orders' = Orders \cup {m[2]} /\ m \in Req \X Cmd
         /\ c.req \in Req /\ m[2].os = ask[c.req].os /\ m[2].id = ask[c.req].id
         /\ c.op = "getIndexers" => /\ m[2].kind = "create" /\ m[2].index = answers[1].seq
                                    /\ 1 \in Counts /\ IsCreate(m[2])
         /\ c.op # "getIndexers" => /\ m[2].kind = "delete" /\ m[2].index = ask[c.req].index
                                    /\ c.op = "deleteImage" /\ ~IsCreate(m[2])
<1> TypeOK /\ IndexInv
  BY DEF BaseInv, EntryInv
<1> DEFINE x == m[2]
<1>1. c = pending[1] /\ c \in Call /\ CallOK(c) /\ answers[1].seq \in Nat /\ 1 \in 1..Len(answers)
      /\ dial' = dial \cup {m} /\ Callback
  BY CallbackFacts DEF Issues
<1>2. UNCHANGED <<waiting, working, images, ask, image_index>>
  BY <1>1, CallbackKnown DEF Issues, host
<1>3. /\ c.req \in Req /\ ask[c.req] \in Ask /\ ask[c.req] # None
      /\ ask[c.req].index \in Nat \cup {None}
  BY <1>1, CallFacts DEF CallOK, CallFits
<1>4. m \in Req \X Cmd /\ m[2] \in Cmd /\ m[2].os = ask[c.req].os /\ m[2].id = ask[c.req].id
  <2>1. CASE c.op = "getIndexers"
    <3>1. m = Command("create", c.req, answers[1].seq)
      BY <2>1 DEF Issues
    <3>2. m \in Req \X Cmd /\ m[2].os = ask[c.req].os /\ m[2].id = ask[c.req].id
      BY SMTT(30), <1>1, <1>3, <3>1, CommandFacts
    <3> QED BY <3>2
  <2>2. CASE c.op # "getIndexers"
    <3>1. m = Command("delete", c.req, ask[c.req].index)
      BY <2>2 DEF Issues
    <3>2. m \in Req \X Cmd /\ m[2].os = ask[c.req].os /\ m[2].id = ask[c.req].id
      BY SMTT(30), <1>3, <3>1, CommandFacts
    <3> QED BY <3>2
  <2> QED BY <2>1, <2>2
<1>5. ASSUME c.op = "getIndexers"
      PROVE  x.kind = "create" /\ x.index = answers[1].seq /\ 1 \in Counts /\ IsCreate(x)
  <2>1. m = Command("create", c.req, answers[1].seq)
    BY <1>5 DEF Issues
  <2>2. x.kind = "create" /\ x.index = answers[1].seq
    BY SMTT(30), <1>1, <1>3, <2>1, CommandFacts
  <2>3. x # None
    BY <1>4, NoneAssumption
  <2>4. 1 \in Counts
    BY <1>1, <1>5 DEF Counts
  <2> QED BY <2>2, <2>3, <2>4 DEF IsCreate
<1>6. ASSUME c.op # "getIndexers"
      PROVE  x.kind = "delete" /\ x.index = ask[c.req].index /\ c.op = "deleteImage" /\ ~IsCreate(x)
  <2>1. m = Command("delete", c.req, ask[c.req].index) /\ c.op = "deleteImage"
    BY <1>6 DEF Issues
  <2>2. x.kind = "delete" /\ x.index = ask[c.req].index
    BY SMTT(30), <1>3, <2>1, CommandFacts
  <2> QED BY <2>1, <2>2 DEF IsCreate
<1>7. \A y : y \in Orders' <=> y \in Orders \/ y = x
  <2> SUFFICES ASSUME NEW y PROVE y \in Orders' <=> y \in Orders \/ y = x
    OBVIOUS
  <2>1. Placed(dial', waiting', working', y) <=> Placed(dial, waiting, working, y) \/ y = x
    BY <1>1, <1>2 DEF Placed
  <2> QED BY <2>1, OrderPlaces
<1> HIDE DEF x
<1>8. CountKept /\ AskKept
  BY CountSteps
<1>9. \A j \in Counts' : \E k \in Counts : answers[k].seq = answers'[j].seq /\ k # 1
  BY <1>1, CallbackPlaces
<1>10. \A y \in Orders : IsCreate(x) /\ IsCreate(y) => y.index # x.index
  BY <1>5, <1>6 DEF OrderInv, CreateIndexed
<1>11. ASSUME NEW y \in Orders', IsCreate(y)
       PROVE  y.index \in 1..image_index' /\ \A j \in Counts' : answers'[j].seq # y.index
  <2>1. CASE y \in Orders
    BY <1>2, <1>9, <1>11, <2>1 DEF OrderInv, CreateIndexed
  <2>2. CASE y = x
    <3>1. 1 \in Counts /\ y.index = answers[1].seq
      BY <1>5, <1>6, <1>11, <2>2
    <3>2. /\ answers[1].seq \in 1..image_index
          /\ \A k \in Counts : answers[1].seq = answers[k].seq => 1 = k
      BY <3>1 DEF IndexInv
    <3> QED BY <1>2, <1>9, <3>1, <3>2
  <2> QED BY <1>7, <2>1, <2>2
<1>12. ASSUME NEW y \in Orders', IsDelete(y)
       PROVE  \E r \in Deletions(ask') : Doc(y) = Doc(ask'[r])
  <2>1. CASE y \in Orders
    BY <1>2, <1>12, <2>1 DEF OrderInv, DeleteAsked
  <2>2. CASE y = x
    <3>1. c.op # "getIndexers"
      BY <1>5, <1>12, <2>2 DEF IsDelete
    <3>2. x.index = ask[c.req].index /\ x.index # None /\ ask[c.req].kind = "delete"
      BY <1>1, <1>6, <1>12, <2>2, <3>1, CallFacts DEF IsDelete
    <3>3. c.req \in Deletions(ask') /\ Doc(x) = Doc(ask[c.req])
      BY <1>2, <1>3, <1>4, <3>2 DEF Deletions, Doc, x
    <3> QED BY <1>2, <2>2, <3>3
  <2> QED BY <1>7, <2>1, <2>2
<1>13. \A n \in dial \cup waiting : n[2] \in Orders
  BY OrderMember DEF Orders
<1>14. \A w \in Worker : working[w] \in Orders
  BY OrderMember DEF Orders
<1>15. \A n \in dial' \cap waiting' : ~IsCreate(n[2])
  BY <1>1, <1>2, <1>10, <1>13 DEF OrderInv, OneCreate, x
<1>16. \A k, n \in dial' \cup waiting' :
         IsCreate(k[2]) /\ IsCreate(n[2]) /\ k[2].index = n[2].index => k = n
  <2>1. \A k, n \in dial \cup waiting :
          IsCreate(k[2]) /\ IsCreate(n[2]) /\ k[2].index = n[2].index => k = n
    BY DEF OrderInv, OneCreate
  <2>2. \A n \in dial' \cup waiting' : n = m \/ n \in dial \cup waiting
    BY <1>1, <1>2
  <2>3. \A n \in dial \cup waiting : IsCreate(n[2]) /\ IsCreate(x) => n[2].index # x.index
    BY <1>10, <1>13
  <2> QED BY <2>1, <2>2, <2>3 DEF x
<1>17. \A n \in dial' \cup waiting', w \in Worker :
         IsCreate(n[2]) /\ IsCreate(working'[w]) => n[2].index # working'[w].index
  BY <1>1, <1>2, <1>10, <1>14 DEF OrderInv, OneCreate, x
<1>18. OrderInv'
  BY <1>2, <1>11, <1>12, <1>15, <1>16, <1>17 DEF OrderInv, CreateIndexed, DeleteAsked, HostIndexed, OneCreate
<1>19. Orders' = Orders \cup {x}
  BY <1>7
<1> QED BY <1>3, <1>4, <1>5, <1>6, <1>18, <1>19 DEF x

LEMMA SendsOrder ==
  ASSUME BaseInv, OrderInv, [Next]_vars, NEW d \in dial, Sends(d)
  PROVE  OrderInv' /\ Orders' = Orders /\ images' = images
<1> TypeOK
  BY DEF BaseInv
<1>1. d = <<d[1], d[2]>> /\ d[2].index # None
  BY SMTT(30) DEF TypeOK, Sends
<1>2. /\ waiting' = waiting \cup {d} /\ dial' = dial \ {d} /\ working' = working
      /\ images' = images
  BY <1>1 DEF Sends, Host!Send
<1>3. dial' \cup waiting' = dial \cup waiting
  BY <1>2
<1>4. Orders' = Orders
  BY <1>2, <1>3 DEF Orders, OrdersIn
<1>5. CountKept /\ AskKept
  BY CountSteps
<1>6. 1..image_index \subseteq 1..image_index' /\ image_index + 1 \notin 1..image_index
  BY SMTT(30), <1>5 DEF CountKept
<1>7. ASSUME NEW c \in Orders, IsCreate(c)
      PROVE  c.index \in 1..image_index' /\ \A j \in Counts' : answers'[j].seq # c.index
  <2>1. c.index \in 1..image_index
    BY <1>7 DEF OrderInv, CreateIndexed
  <2> QED BY <1>5, <1>6, <1>7, <2>1 DEF OrderInv, CreateIndexed, CountKept
<1>8. \A c \in Orders : IsDelete(c) => \E r \in Deletions(ask') : Doc(c) = Doc(ask'[r])
  BY <1>5 DEF OrderInv, DeleteAsked, AskKept
<1>9. HostIndexed'
  BY <1>1, <1>2 DEF OrderInv, HostIndexed
<1>10. \A m \in dial' \cap waiting' : ~IsCreate(m[2])
  BY <1>2 DEF OrderInv, OneCreate
<1>11. OneCreate'
  BY SMTT(30), <1>2, <1>3, <1>10 DEF OrderInv, OneCreate
<1>12. CreateIndexed' /\ DeleteAsked'
  BY <1>4, <1>7, <1>8 DEF CreateIndexed, DeleteAsked
<1> QED BY <1>2, <1>4, <1>9, <1>11, <1>12 DEF OrderInv

LEMMA TakesOrder ==
  ASSUME BaseInv, OrderInv, [Next]_vars, NEW m \in waiting, NEW w \in Worker, Takes(m, w)
  PROVE  OrderInv' /\ images' = images
         /\ \A c : c # None => (c \in Orders' <=> c \in Orders)
<1> TypeOK
  BY DEF BaseInv
<1>1. /\ waiting' = waiting \ {m} /\ dial' = dial /\ images' = images
      /\ working[w] = None /\ working'[w] = m[2]
      /\ \A v \in Worker : v # w => working'[v] = working[v]
  BY DEF Takes, TypeOK
<1>2. ASSUME NEW c, c # None PROVE c \in Orders' <=> c \in Orders
  <2>1. ASSUME Placed(dial, waiting, working, c) PROVE Placed(dial', waiting', working', c)
    <3>1. CASE c = m[2]
      BY <1>1, <3>1 DEF Placed
    <3>2. ASSUME NEW n \in dial \cup waiting, n[2] = c, c # m[2]
          PROVE  Placed(dial', waiting', working', c)
      BY <1>1, <3>2 DEF Placed
    <3>3. ASSUME NEW v \in Worker, working[v] = c PROVE Placed(dial', waiting', working', c)
      BY <1>1, <1>2, <3>3 DEF Placed
    <3> QED BY <2>1, <3>1, <3>2, <3>3 DEF Placed
  <2>2. ASSUME Placed(dial', waiting', working', c) PROVE Placed(dial, waiting, working, c)
    <3>1. ASSUME NEW n \in dial' \cup waiting', n[2] = c PROVE Placed(dial, waiting, working, c)
      BY <1>1, <3>1 DEF Placed
    <3>2. ASSUME NEW v \in Worker, working'[v] = c PROVE Placed(dial, waiting, working, c)
      BY <1>1, <3>2 DEF Placed
    <3> QED BY <2>2, <3>1, <3>2 DEF Placed
  <2> QED BY <2>1, <2>2, OrderPlaces
<1>3. CountKept /\ AskKept
  BY CountSteps
<1>4. 1..image_index \subseteq 1..image_index' /\ image_index + 1 \notin 1..image_index
  <2>1. image_index \in Nat /\ image_index' \in Nat /\ image_index <= image_index'
    BY <1>3 DEF CountKept
  <2> QED BY SMTT(30), <2>1
<1>5. ASSUME NEW c \in Orders', IsCreate(c)
      PROVE  c.index \in 1..image_index' /\ \A j \in Counts' : answers'[j].seq # c.index
  <2>1. c \in Orders /\ c.index \in 1..image_index
    BY <1>2, <1>5 DEF OrderInv, CreateIndexed, IsCreate
  <2> QED BY <1>3, <1>4, <1>5, <2>1 DEF OrderInv, CreateIndexed, CountKept
<1>6. \A c \in Orders' : IsDelete(c) => \E r \in Deletions(ask') : Doc(c) = Doc(ask'[r])
  <2> SUFFICES ASSUME NEW c \in Orders', IsDelete(c)
               PROVE  \E r \in Deletions(ask') : Doc(c) = Doc(ask'[r])
    OBVIOUS
  <2>1. c \in Orders
    BY <1>2 DEF IsDelete
  <2>2. PICK r \in Deletions(ask) : Doc(c) = Doc(ask[r])
    BY <2>1 DEF OrderInv, DeleteAsked
  <2> QED BY <1>3, <2>2 DEF AskKept
<1>7. /\ \A n \in waiting' : n[2].index # None
      /\ \A v \in Worker : working'[v] # None => working'[v].index # None
      /\ \A n \in dial' \cap waiting' : ~IsCreate(n[2])
  BY <1>1 DEF OrderInv, HostIndexed, OneCreate
<1>8. \A k, n \in dial' \cup waiting' :
        IsCreate(k[2]) /\ IsCreate(n[2]) /\ k[2].index = n[2].index => k = n
  BY <1>1 DEF OrderInv, OneCreate
<1>9. ASSUME NEW n \in dial' \cup waiting', NEW v \in Worker, IsCreate(n[2]), IsCreate(working'[v])
      PROVE  n[2].index # working'[v].index
  <2>1. n \in dial \cup waiting
    BY <1>1
  <2>2. CASE v = w
    <3>1. n # m
      BY <1>1, <1>9, <2>2 DEF OrderInv, OneCreate
    <3> QED BY <1>1, <1>9, <2>1, <2>2, <3>1 DEF OrderInv, OneCreate
  <2>3. CASE v # w
    BY <1>1, <1>9, <2>1, <2>3 DEF OrderInv, OneCreate
  <2> QED BY <2>2, <2>3
<1>10. ASSUME NEW u \in Worker, NEW v \in Worker, IsCreate(working'[u]), IsCreate(working'[v]),
              working'[u].index = working'[v].index
       PROVE  u = v
  <2>1. m \in dial \cup waiting
    OBVIOUS
  <2>2. CASE u = w
    <3>1. CASE v # w
      BY <1>1, <1>10, <2>1, <2>2, <3>1 DEF OrderInv, OneCreate
    <3> QED BY <2>2, <3>1
  <2>3. CASE u # w
    BY <1>1, <1>10, <2>1, <2>3 DEF OrderInv, OneCreate
  <2> QED BY <2>2, <2>3
<1>11. CreateIndexed' /\ DeleteAsked'
  BY <1>5, <1>6 DEF CreateIndexed, DeleteAsked
<1>12. HostIndexed' /\ OneCreate'
  BY <1>7, <1>8, <1>9, <1>10 DEF HostIndexed, OneCreate
<1> QED BY <1>1, <1>2, <1>11, <1>12 DEF OrderInv

LEMMA FinishesOrder ==
  ASSUME BaseInv, EntryInv, OrderInv, [Next]_vars, NEW w \in Worker, Finishes(w)
  PROVE  /\ working[w] \in Cmd /\ working[w] # None /\ working[w] \in Orders
         /\ images' = IF working[w].kind = "create" THEN images \cup {Host!ImageOf(working[w])}
                                                    ELSE images \ {Host!ImageOf(working[w])}
         /\ OrdersFewer /\ OrderInv' /\ Orders' \subseteq Orders \cup {None}
         /\ \A c \in Orders : c # working[w] => c \in Orders'
         /\ IsCreate(working[w]) => \A c \in Orders' : IsCreate(c) => c.index # working[w].index
<1> TypeOK
  BY DEF BaseInv
<1>1. /\ working[w] # None /\ images' = Host!After(working[w])
      /\ working' = [working EXCEPT ![w] = None] /\ waiting' = waiting /\ dial' = dial
  BY DEF Finishes, Host!Finish
<1>2. working'[w] = None /\ \A v \in Worker : v # w => working'[v] = working[v]
  BY <1>1 DEF TypeOK
<1>3. OrdersFewer
  BY <1>1, <1>2 DEF OrdersFewer
<1>4. OrderInv'
  BY <1>3, CountSteps, OrderKept
<1>5. \A c : c \in Orders' <=> \/ \E m \in dial \cup waiting : m[2] = c
                               \/ \E v \in Worker : working'[v] = c
  <2>1. Orders' = OrdersIn(dial', waiting', working')
    BY DEF Orders
  <2>2. \A c : c \in OrdersIn(dial', waiting', working') <=>
                \/ \E m \in dial' \cup waiting' : m[2] = c
                \/ \E v \in Worker : working'[v] = c
    BY DEF OrdersIn
  <2> QED BY <1>1, <2>1, <2>2
<1>6. \A c : c \in Orders <=> \/ \E m \in dial \cup waiting : m[2] = c
                              \/ \E v \in Worker : working[v] = c
  BY SMTT(30), OrderMember DEF Orders
<1>7. Orders' \subseteq Orders \cup {None} /\ working[w] \in Orders
  <2>1. ASSUME NEW c \in Orders' PROVE c \in Orders \cup {None}
    BY <1>2, <1>5, <1>6
  <2> QED BY <1>6, <2>1
<1>8. ASSUME NEW c \in Orders, c # working[w] PROVE c \in Orders'
  BY <1>2, <1>5, <1>6, <1>8
<1>10. ASSUME IsCreate(working[w]), NEW c \in Orders', IsCreate(c) PROVE c.index # working[w].index
  <2>1. CASE \E m \in dial \cup waiting : m[2] = c
    BY <1>10, <2>1 DEF OrderInv, OneCreate
  <2>2. CASE \E v \in Worker : working'[v] = c
    <3>1. PICK v \in Worker : working'[v] = c
      BY <2>2
    <3>2. v # w /\ working[v] = c
      BY <1>2, <1>10, <3>1 DEF IsCreate
    <3> QED BY <1>10, <3>2 DEF OrderInv, OneCreate
  <2> QED BY <1>5, <2>1, <2>2
<1>9. working[w] \in Cmd
  BY <1>1 DEF TypeOK
<1> QED BY <1>1, <1>3, <1>4, <1>7, <1>8, <1>9, <1>10 DEF Host!After

LEMMA OrderNext == BaseInv /\ EntryInv /\ OrderInv /\ [Next]_vars => OrderInv'
<1> SUFFICES ASSUME BaseInv, EntryInv, OrderInv, [Next]_vars PROVE OrderInv'
  OBVIOUS
<1>1. CASE UNCHANGED <<dial, host>>
  <2>1. OrdersFewer
    BY <1>1 DEF OrdersFewer, host
  <2> QED BY <2>1, CountSteps, OrderKept
<1>2. CASE OrdersFewer
  BY <1>2, CountSteps, OrderKept
<1> QED BY <1>1, <1>2, OrderSteps, IssuesOrder, SendsOrder, TakesOrder, FinishesOrder

\* An image has the file name of one command only.
LEMMA ImageNext == BaseInv /\ EntryInv /\ HostInv /\ [Next]_vars => ImageInv'
<1> SUFFICES ASSUME BaseInv, EntryInv, HostInv, [Next]_vars PROVE ImageInv'
  OBVIOUS
<1> ImageInv /\ OrderInv /\ IndexInv
  BY DEF HostInv, EntryInv
<1>1. OrderInv' /\ IndexInv' /\ CountKept
  BY OrderNext, IndexNext, CountSteps
<1>2. /\ \A i \in Reserved' : i \in 1..image_index'
      /\ \A i \in Reserved' : \/ \E c \in Orders' : IsCreate(c) /\ c.index = i
                              \/ \E j \in Counts' : answers'[j].seq = i
  <2>1. \A c \in Orders' : IsCreate(c) => c.index \in 1..image_index'
    BY <1>1 DEF OrderInv, CreateIndexed
  <2>2. \A j \in Counts' : answers'[j].seq \in 1..image_index'
    BY <1>1 DEF IndexInv
  <2>3. \A i : i \in Reserved' <=> \/ \E c \in Orders' : IsCreate(c) /\ c.index = i
                                 \/ \E j \in Counts' : answers'[j].seq = i
    BY DEF Reserved
  <2> QED BY <2>1, <2>2, <2>3
<1>3. ASSUME \A c \in Orders' : IsCreate(c) => c.index \in Reserved
      PROVE  \A i \in Reserved' : i \in Reserved \/ i = image_index + 1
  BY SMTT(30), <1>1, <1>2, <1>3, ReservedFacts DEF CountKept
<1>4. ASSUME images' \subseteq images, \A c \in Orders' : IsCreate(c) => c \in Orders
      PROVE  ImageInv'
  <2>1. \A c \in Orders' : IsCreate(c) => c.index \in Reserved
    BY <1>4, ReservedFacts
  <2> QED BY <1>1, <1>2, <1>3, <1>4, <2>1, ImageKept
<1>5. CASE UNCHANGED <<dial, host>>
  BY <1>4, <1>5 DEF host, Orders
<1>6. ASSUME OrdersFewer, images' = images PROVE ImageInv'
  <2>1. Orders' = OrdersIn(dial', waiting', working')
    BY DEF Orders
  <2>2. \A c \in Orders' : IsCreate(c) => c \in Orders
    BY SMTT(30), <1>6, <2>1, OrderMember DEF OrdersFewer, Orders, IsCreate
  <2> QED BY <1>4, <1>6, <2>2
<1>7. ASSUME NEW c, NEW m, Issues(c, m) PROVE ImageInv'
  <2>1. images' = images
    BY <1>7 DEF Issues, host
  <2>2. Orders' = Orders \cup {m[2]} /\ (IsCreate(m[2]) => m[2].index \in Reserved)
    BY SMTT(30), <1>7, IssuesOrder, ReservedFacts
  <2>3. \A x \in Orders' : IsCreate(x) => x.index \in Reserved
    BY <2>2, ReservedFacts
  <2> QED BY <1>1, <1>2, <1>3, <2>1, <2>3, ImageKept
<1>8. ASSUME NEW d \in dial, Sends(d) PROVE ImageInv'
  BY <1>4, <1>8, SendsOrder
<1>9. ASSUME NEW m \in waiting, NEW w \in Worker, Takes(m, w) PROVE ImageInv'
  BY <1>4, <1>9, TakesOrder DEF IsCreate
<1>10. ASSUME NEW w \in Worker, Finishes(w) PROVE ImageInv'
  <2> DEFINE c == working[w]
  <2>1. /\ c # None /\ c \in Orders /\ Orders' \subseteq Orders \cup {None}
        /\ images' = IF c.kind = "create" THEN images \cup {Host!ImageOf(c)} ELSE images \ {Host!ImageOf(c)}
        /\ IsCreate(c) => \A x \in Orders' : IsCreate(x) => x.index # c.index
    BY <1>10, FinishesOrder
  <2>2. \A x \in Orders' : IsCreate(x) => x \in Orders
    BY <2>1 DEF IsCreate
  <2>3. CASE c.kind # "create"
    BY <1>4, <2>1, <2>2, <2>3
  <2>4. CASE c.kind = "create"
    <3>1. IsCreate(c)
      BY <2>1, <2>4 DEF IsCreate
    <3>2. c.index \in 1..image_index /\ c.index \in Reserved
      BY <2>1, <3>1, ReservedFacts
    <3>3. UNCHANGED <<image_index, answers, pending>>
      BY <1>10 DEF Finishes, Quiet, mongo, conn
    <3>4. \A i \in Reserved' : i # c.index
      <4>1. \A j \in Counts' : j \in Counts /\ answers'[j].seq = answers[j].seq
        BY <3>3 DEF Counts
      <4>2. \A j \in Counts : answers[j].seq # c.index
        BY <2>1, <3>1 DEF OrderInv, CreateIndexed
      <4> QED BY <1>2, <2>1, <3>1, <4>1, <4>2
    <3>5. \A i \in Reserved' : i \in Reserved \/ i = image_index + 1
      BY <1>3, <2>2, ReservedFacts
    <3>6. Reserved' \subseteq 1..image_index
      BY <1>2, <3>3
    <3>7. \A i \in Reserved' : i \in Reserved
      <4>1. image_index + 1 \notin 1..image_index
        BY SMTT(30), <1>1 DEF CountKept
      <4> QED BY <3>5, <3>6, <4>1
    <3> SUFFICES ASSUME image_index <= IndexMod, NEW f \in images'
                 PROVE  /\ \E i \in 1..image_index : f.index = i % IndexMod
                        /\ \A i \in Reserved' : f.index # i % IndexMod
      BY <3>3 DEF ImageInv
    <3>8. CASE f \in images
      BY <3>7, <3>8 DEF ImageInv
    <3>9. CASE f = Host!ImageOf(c)
      <4>1. f.index = c.index % IndexMod
        BY <3>9 DEF Host!ImageOf
      <4>2. 1..image_index \subseteq 1..IndexMod
        BY SMTT(30), <1>1, CatalogueAssumption DEF CountKept
      <4>3. \A i \in Reserved' : c.index % IndexMod # i % IndexMod
        BY <3>2, <3>4, <3>6, <4>2, ModApart
      <4> QED BY <3>2, <4>1, <4>3
    <3> QED BY <2>1, <2>4, <3>8, <3>9
  <2> QED BY <2>3, <2>4
<1> QED BY <1>5, <1>6, <1>7, <1>8, <1>9, <1>10, OrderSteps

LEMMA InitHost == Init => HostInv
<1> SUFFICES ASSUME Init PROVE HostInv
  OBVIOUS
<1>1. /\ dial = {} /\ waiting = {} /\ \A w \in Worker : working[w] = None
      /\ 1..Len(answers) = {}
  BY SeqEmpty DEF Init
<1>2. \A c \in Orders : c = None
  BY SMTT(30), <1>1, OrderMember DEF Orders
<1>3. OrderInv
  BY <1>1, <1>2 DEF OrderInv, CreateIndexed, DeleteAsked, HostIndexed, OneCreate,
                      Counts, IsCreate, IsDelete
<1>4. Reserved = {}
  BY <1>1, <1>2 DEF Reserved, Counts, IsCreate
<1>5. ASSUME NEW f \in images PROVE \E i \in 1..image_index : f.index = i % IndexMod
  <2>1. PICK e \in entries : f = Host!ImageOf(e)
    BY DEF Init
  <2>2. e.index \in 1..image_index
    BY InitEntries, KnownParts DEF EntryInv, IndexInv
  <2> QED BY <2>1, <2>2 DEF Host!ImageOf
<1> QED BY <1>3, <1>4, <1>5 DEF HostInv, ImageInv

LEMMA HostAlways == Spec => [](BaseInv /\ EntryInv /\ HostInv)
<1>1. BaseInv /\ EntryInv /\ HostInv /\ [Next]_vars => HostInv'
  BY OrderNext, ImageNext DEF HostInv
<1> QED BY <1>1, InitHost, EntryAlways, PTL DEF Spec

\* A create never finds a file of its name, as long as the counter has not passed
\* the indices that the host tells apart, whatever breaks.
THEOREM NothingOverwritten == Spec => NoOverwrite
<1>1. ASSUME BaseInv, EntryInv, HostInv, NEW w \in Worker, working[w] # None,
             working[w].kind = "create", image_index <= IndexMod
      PROVE  Host!ImageOf(working[w]) \notin images
  <2>1. working[w] \in Orders /\ IsCreate(working[w])
    BY <1>1, OrderMember DEF Orders, IsCreate
  <2>2. working[w].index \in Reserved
    BY <1>1, <2>1, ReservedFacts DEF EntryInv, HostInv
  <2>3. Host!ImageOf(working[w]).index = working[w].index % IndexMod
    BY DEF Host!ImageOf
  <2> QED BY <1>1, <2>2, <2>3 DEF HostInv, ImageInv
<1>2. BaseInv /\ EntryInv /\ HostInv =>
        [\A w \in Worker :
           working[w] # None /\ working'[w] = None /\ working[w].kind = "create"
             /\ image_index <= IndexMod
           => Host!ImageOf(working[w]) \notin images]_vars
  BY <1>1
<1> QED BY <1>2, HostAlways, PTL DEF NoOverwrite
=============================================================================
