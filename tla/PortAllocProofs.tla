--------------------------- MODULE PortAllocProofs ---------------------------
(***************************************************************************)
(* Proofs about PortAlloc, for every set of users and requests and every   *)
(* number of ports.                                                        *)
(***************************************************************************)
EXTENDS PortAlloc, NaturalsInduction, WellFoundedInduction, TLAPS

\* A leaf is tried with Zenon first, then with the SMT solver.
USE ZenonT(20), SMTT(30)

\* A nonempty set of natural numbers has a least element.
LEMMA LeastElement ==
  ASSUME NEW T, T \subseteq Nat, T # {}
  PROVE  \E x \in T : \A y \in T : x <= y
<1> DEFINE R == OpToRel(<, Nat)
<1>1. IsWellFoundedOn(R, Nat)
  BY NatLessThanWellFounded
<1>2. \E x \in T : \A y \in T : ~ (<<y, x>> \in R)
  <2> HIDE DEF R
  <2> QED BY <1>1, WFMin
<1>3. \A x, y \in Nat : y < x => <<y, x>> \in R
  BY DEF OpToRel
<1>4. PICK x \in T : \A y \in T : ~ (<<y, x>> \in R)
  BY <1>2
<1>5. ASSUME NEW y \in T PROVE x <= y
  <2>1. x \in Nat /\ y \in Nat
    BY <1>4
  <2>2. ~ (<<y, x>> \in R)
    BY <1>4
  <2>3. ~ (y < x)
    <3> HIDE DEF R
    <3> QED BY <1>3, <2>1, <2>2
  <2> QED BY <2>1, <2>3
<1> QED BY <1>5
\* Sequences.
LEMMA SeqLen ==
  ASSUME NEW S, NEW q \in Seq(S)
  PROVE  Len(q) \in Nat /\ \A i \in 1..Len(q) : q[i] \in S
OBVIOUS

LEMMA SeqAppend ==
  ASSUME NEW S, NEW q \in Seq(S), NEW c \in S
  PROVE  /\ Append(q, c) \in Seq(S) /\ Len(Append(q, c)) = Len(q) + 1
         /\ \A i \in 1..Len(q) : Append(q, c)[i] = q[i]
         /\ Append(q, c)[Len(q) + 1] = c
OBVIOUS

LEMMA SeqTail ==
  ASSUME NEW S, NEW q \in Seq(S), q # <<>>
  PROVE  /\ Len(q) \in Nat \ {0} /\ Head(q) = q[1] /\ Head(q) \in S
         /\ Tail(q) \in Seq(S) /\ Len(Tail(q)) = Len(q) - 1
         /\ \A i \in 1..Len(Tail(q)) : Tail(q)[i] = q[i + 1]
OBVIOUS

LEMMA SeqEmpty == \A S : <<>> \in Seq(S) /\ Len(<<>>) = 0
OBVIOUS

\* The LoadBalancer loop stops at a port that was read as free.
LEMMA FirstFreeIsFree ==
  ASSUME NEW row \in Row, FreePorts(row) # {}
  PROVE  FirstFree(row) \in 1..Scan /\ FirstFree(row) \in Port
         /\ row[FirstFree(row)] = Null
<1>1. FreePorts(row) \subseteq Nat
  BY SlotAssumption DEF FreePorts
<1>2. \E p \in FreePorts(row) : \A q \in FreePorts(row) : p <= q
  BY <1>1, LeastElement
<1>3. FirstFree(row) \in FreePorts(row)
  BY <1>2 DEF FirstFree
<1> QED BY <1>3, SlotAssumption DEF FreePorts, Port

\* A row read as full stays a nonfree row; used for the type of the tables.
LEMMA FreeTableType == FreeTable \in [List -> Row] /\ FreeRow \in Row
BY DEF FreeTable, FreeRow, Row

\* Removing the head and appending keep a sequence of commands or replies.
LEMMA QueueTypes ==
  ASSUME TypeOK
  PROVE  /\ \A c \in [req: Req, op: Op] : Append(wire, c) \in Seq([req: Req, op: Op])
         /\ wire # <<>> => /\ Tail(wire) \in Seq([req: Req, op: Op])
                           /\ Head(wire) \in [req: Req, op: Op]
         /\ \A c \in [req: Req, op: Op, row: Row] :
              Append(replies, c) \in Seq([req: Req, op: Op, row: Row])
         /\ replies # <<>> => /\ Tail(replies) \in Seq([req: Req, op: Op, row: Row])
                              /\ Head(replies) \in [req: Req, op: Op, row: Row]
BY SeqAppend, SeqTail DEF TypeOK

-----------------------------------------------------------------------------
\* Type correctness: the variables of the load balancer, Redis and the web
\* server keep their types under every interleaving of callbacks and faults.
THEOREM TypeCorrect == Spec => []TypeOK
<1> USE SlotAssumption, WorkerAssumption
<1>1. Init => TypeOK
  BY SMTT(30), FreeTableType DEF Init, TypeOK, NoHolders, List, Port, Worker, Waiting,
                       Answer, Start, Install
<1>2. TypeOK /\ [Next]_vars => TypeOK'
  <2> SUFFICES ASSUME TypeOK, [Next]_vars PROVE TypeOK'
    OBVIOUS
  <2> USE DEF TypeOK, Waiting, Answer, List
  <2>1. ASSUME NEW r \in Req, NEW u \in User, NEW l \in List, Request(r, u, l)
        PROVE  TypeOK'
    BY <2>1, QueueTypes DEF Request, Cmd, Op, webVars, history
  <2>2. ASSUME NEW r \in Req, OnCheck1(r) PROVE TypeOK'
    <3>1. Append(Append(wire, Cmd(r, "check2")), Cmd(r, "balance"))
            \in Seq([req: Req, op: Op])
      BY SeqAppend DEF Cmd, Op
    <3>2. replies' \in Seq([req: Req, op: Op, row: Row])
      BY <2>2, QueueTypes DEF OnCheck1, Handle
    <3>3. pc' \in [Req -> Waiting \cup Answer \cup {"idle", "hung"}]
      BY <2>2 DEF OnCheck1
    <3>4. wire' \in Seq([req: Req, op: Op])
      BY <2>2, <3>1 DEF OnCheck1
    <3> QED
      BY <2>2, <3>2, <3>3, <3>4 DEF OnCheck1, Handle, webVars, history
  <2>3. ASSUME NEW r \in Req, OnCheck2(r) PROVE TypeOK'
    BY <2>3, QueueTypes DEF OnCheck2, Handle, webVars, history
  <2>4. ASSUME NEW r \in Req, OnBalance(r) PROVE TypeOK'
    <3>1. Head(replies).row \in Row
      BY <2>4, QueueTypes DEF OnBalance, Handle
    <3>2. FreePorts(Head(replies).row) # {}
            => FirstFree(Head(replies).row) \in 0..Slots
      BY SMTT(30), <3>1, FirstFreeIsFree DEF Port
    <3>3. Append(wire, Cmd(r, "reserve")) \in Seq([req: Req, op: Op])
      BY SeqAppend DEF Cmd, Op
    <3>4. replies' \in Seq([req: Req, op: Op, row: Row])
      BY <2>4, QueueTypes DEF OnBalance, Handle
    <3>5. pc' \in [Req -> Waiting \cup Answer \cup {"idle", "hung"}]
      BY <2>4 DEF OnBalance
    <3>6. wire' \in Seq([req: Req, op: Op]) /\ port' \in [Req -> 0..Slots]
      BY <2>4, <3>2, <3>3 DEF OnBalance
    <3> QED
      BY <2>4, <3>4, <3>5, <3>6 DEF OnBalance, Handle, webVars, history
  <2>5. ASSUME NEW r \in Req, OnReserve(r) PROVE TypeOK'
    BY <2>5, QueueTypes DEF OnReserve, Handle, webVars, history
  <2>6. CASE ConnectionLost
    BY <2>6, SeqEmpty DEF ConnectionLost, webVars
  <2>7. CASE initRedis
    BY <2>7, SeqEmpty, FreeTableType DEF initRedis, webVars, NoHolders
  <2>8. CASE getSessionList
    <3> DEFINE r == Head(wire).req
               op == Head(wire).op
               c == [req |-> r, op |-> op, row |-> table[ReadList(r, op)]]
    <3>1. r \in Req /\ op \in Op
      BY <2>8, QueueTypes DEF getSessionList
    <3>2. c \in [req: Req, op: Op, row: Row]
      BY <3>1 DEF ReadList, Start, Install
    <3>3. Append(replies, c) \in Seq([req: Req, op: Op, row: Row])
      BY <3>2, QueueTypes
    <3>4. open' \subseteq Req /\ overlap' \subseteq Req \X Req
      BY SMTT(30), <2>8, <3>1 DEF getSessionList
    <3> QED
      BY <2>8, <3>3, <3>4, QueueTypes DEF getSessionList, webVars
  <2>9. CASE setSession
    <3> DEFINE r == Head(wire).req
               c == [req |-> r, op |-> "reserve", row |-> FreeRow]
    <3>1. r \in Req
      BY <2>9, QueueTypes DEF setSession
    <3>2. Append(replies, c) \in Seq([req: Req, op: Op, row: Row])
      BY <3>1, FreeTableType, QueueTypes DEF Op
    <3>3. table' \in [List -> Row]
      BY <2>9, <3>1 DEF setSession, Row
    <3>4. holders' \in [List -> [Port -> SUBSET Req]]
      <4> DEFINE h == holders[list[r]]
      <4>1. list[r] \in List /\ h \in [Port -> SUBSET Req]
        BY <3>1
      <4>2. [h EXCEPT ![port[r]] = @ \cup {r}] \in [Port -> SUBSET Req]
        BY <3>1, <4>1
      <4>3. holders' = [holders EXCEPT ![list[r]] =
                          [h EXCEPT ![port[r]] = @ \cup {r}]]
        BY <2>9 DEF setSession
      <4> QED BY <4>1, <4>2, <4>3
    <3>5. /\ replies' \in Seq([req: Req, op: Op, row: Row])
          /\ wire' \in Seq([req: Req, op: Op])
          /\ open' \subseteq Req
      BY <2>9, <3>2, QueueTypes DEF setSession
    <3> QED
      BY <2>9, <3>3, <3>4, <3>5 DEF setSession, webVars
  <2>10. CASE RedisError
    <3>1. pc' \in [Req -> Waiting \cup Answer \cup {"idle", "hung"}]
      BY <2>10, QueueTypes DEF RedisError
    <3>2. open' \subseteq Req /\ wire' \in Seq([req: Req, op: Op])
      BY <2>10, QueueTypes DEF RedisError
    <3> QED BY <2>10, <3>1, <3>2 DEF RedisError, webVars
  <2>11. ASSUME NEW r \in Req, postPort(r) PROVE TypeOK'
    BY <2>11 DEF postPort, lbVars, history
  <2>12. ASSUME NEW r \in Req, requestPort(r) PROVE TypeOK'
    <3>1. view' \in [Req -> {"none", "page", "open", "closed"}]
      BY <2>12 DEF requestPort
    <3>2. webport[user[r]] \in 0..Slots
      BY SMTT(30), <2>12, WorkerAssumption, SlotAssumption DEF requestPort, Worker
    <3>3. vport' \in [Req -> 0..Slots]
      BY <2>12, <3>2 DEF requestPort
    <3> QED BY <2>12, <3>1, <3>3 DEF requestPort, lbVars, history
  <2>13. ASSUME NEW r \in Req, onClose(r) PROVE TypeOK'
    <3>1. clears' \in [Worker -> Nat]
      <4>1. clears \in [Worker -> Nat]
            /\ clears' = [clears EXCEPT ![vport[r]] = clears[vport[r]] + 1]
        BY <2>13 DEF onClose
      <4>2. CASE vport[r] \in Worker
        <5>1. clears[vport[r]] + 1 \in Nat
          BY SMTT(30), <4>1, <4>2
        <5> QED BY <4>1, <4>2, <5>1
      <4>3. CASE vport[r] \notin Worker
        BY <4>1, <4>3
      <4> QED BY <4>2, <4>3
    <3> QED BY <2>13, <3>1 DEF onClose, lbVars, history
  <2>14. ASSUME NEW w \in Worker, clearSession(w) PROVE TypeOK'
    <3>1. clears' \in [Worker -> Nat]
      BY SMTT(30), <2>14 DEF clearSession
    <3>2. table' \in [List -> Row]
      BY <2>14 DEF clearSession, Row
    <3> QED BY <2>14, <3>1, <3>2 DEF clearSession, lbVars
  <2>15. ASSUME NEW w \in Worker, clearLost(w) PROVE TypeOK'
    BY SMTT(30), <2>15 DEF clearLost, lbVars, history
  <2>16. CASE UNCHANGED vars
    BY <2>16 DEF vars, lbVars, webVars, history
  <2> QED
    BY <2>1, <2>2, <2>3, <2>4, <2>5, <2>6, <2>7, <2>8, <2>9, <2>10, <2>11,
       <2>12, <2>13, <2>14, <2>15, <2>16
    DEF Next, Callback, Redis, requestStartOS, requestInstallOS
<1> QED
  BY <1>1, <1>2, PTL DEF Spec

-----------------------------------------------------------------------------
\* Facts about the two queues, as sets of elements.
LEMMA ElemsEmpty == Elems(<<>>) = {} /\ Single(<<>>)
BY SMTT(30) DEF Elems, Single

LEMMA ElemsType ==
  ASSUME NEW S, NEW q \in Seq(S)
  PROVE  Elems(q) \subseteq S
BY SeqLen DEF Elems

LEMMA ElemsAppend ==
  ASSUME NEW S, NEW q \in Seq(S), NEW c \in S
  PROVE  Elems(Append(q, c)) = Elems(q) \cup {c} /\ Elems(q) \subseteq S
BY SMTT(30), SeqAppend, SeqLen DEF Elems

LEMMA ElemsTail ==
  ASSUME NEW S, NEW q \in Seq(S), q # <<>>
  PROVE  /\ Elems(Tail(q)) \subseteq Elems(q)
         /\ Head(q) \in Elems(q)
         /\ Elems(q) \subseteq S
<1>1. Len(q) \in Nat \ {0} /\ Head(q) = q[1]
  BY SeqTail
<1>2. Len(Tail(q)) = Len(q) - 1 /\ \A i \in 1..Len(Tail(q)) : Tail(q)[i] = q[i + 1]
  BY SeqTail
<1>3. Elems(Tail(q)) \subseteq Elems(q)
  BY SMTT(30), <1>1, <1>2 DEF Elems
<1> QED BY SMTT(30), <1>1, <1>3, SeqLen DEF Elems

\* The head of a queue of single commands does not occur again behind it.
LEMMA SingleTail ==
  ASSUME NEW S, NEW q \in Seq(S), q # <<>>, Single(q)
  PROVE  /\ Single(Tail(q))
         /\ \A c \in Elems(Tail(q)) : c.req = Head(q).req
              => c.op = "check2" \/ Head(q).op = "check2"
<1>1. Len(q) \in Nat \ {0} /\ Head(q) = q[1]
  BY SeqTail
<1>2. Len(Tail(q)) = Len(q) - 1 /\ \A i \in 1..Len(Tail(q)) : Tail(q)[i] = q[i + 1]
  BY SeqTail
<1>3. Single(Tail(q))
  BY SMTT(30), <1>1, <1>2 DEF Single
<1>4. ASSUME NEW i \in 1..Len(Tail(q)), Tail(q)[i].req = Head(q).req
      PROVE  Tail(q)[i].op = "check2" \/ Head(q).op = "check2"
  <2>1. i + 1 \in 1..Len(q) /\ 1 \in 1..Len(q) /\ i + 1 # 1
    BY SMTT(30), <1>1, <1>2
  <2> QED BY <1>1, <1>2, <1>4, <2>1 DEF Single
<1> QED BY <1>3, <1>4 DEF Elems

LEMMA SingleAppend ==
  ASSUME NEW S, NEW q \in Seq(S), NEW c \in S, Single(q),
         \A d \in Elems(q) : d.req = c.req => d.op = "check2" \/ c.op = "check2"
  PROVE  Single(Append(q, c))
<1> DEFINE a == Append(q, c)
<1>1. /\ Len(q) \in Nat /\ Len(a) = Len(q) + 1
      /\ \A i \in 1..Len(q) : a[i] = q[i]
      /\ a[Len(q) + 1] = c
  BY SMTT(30), SeqAppend, SeqLen
<1> HIDE DEF a
<1>2. \A i \in 1..Len(a) : i \in 1..Len(q) \/ i = Len(q) + 1
  BY <1>1
<1>3. \A i \in 1..Len(q) : a[i].req = c.req => a[i].op = "check2" \/ c.op = "check2"
  BY <1>1 DEF Elems
<1>4. ASSUME NEW i \in 1..Len(a), NEW j \in 1..Len(a), a[i].req = a[j].req,
             a[i].op # "check2", a[j].op # "check2"
      PROVE  i = j
  <2>1. CASE i \in 1..Len(q) /\ j \in 1..Len(q)
    BY <1>1, <1>4, <2>1 DEF Single
  <2>2. CASE i \in 1..Len(q) /\ j = Len(q) + 1
    BY <1>1, <1>3, <1>4, <2>2
  <2>3. CASE i = Len(q) + 1 /\ j \in 1..Len(q)
    BY <1>1, <1>3, <1>4, <2>3
  <2> QED BY <1>2, <2>1, <2>2, <2>3
<1> QED BY <1>4 DEF Single, a

\* The elements of the queues are records of their types.
LEMMA QueueElems ==
  ASSUME TypeOK
  PROVE  /\ Elems(wire) \subseteq [req: Req, op: Op]
         /\ Elems(replies) \subseteq [req: Req, op: Op, row: Row]
BY ElemsType DEF TypeOK

\* When a reply is handled, its request has no other command outstanding.
LEMMA HandleFacts ==
  ASSUME TypeOK, OverlapInv, NEW r \in Req, NEW op \in Op, Handle(r, op)
  PROVE  /\ Head(replies) \in Elems(replies)
         /\ Head(replies) \in [req: Req, op: Op, row: Row]
         /\ Elems(replies') \subseteq Elems(replies)
         /\ Single(replies')
         /\ op # "check2" =>
              /\ pc[r] = op
              /\ \A c \in Elems(wire) \cup Elems(replies') :
                   c.req = r => c.op = "check2"
<1>1. /\ replies \in Seq([req: Req, op: Op, row: Row]) /\ replies # <<>>
      /\ Head(replies).req = r /\ Head(replies).op = op
      /\ replies' = Tail(replies)
  BY DEF TypeOK, Handle
<1>2. /\ Head(replies) \in Elems(replies)
      /\ Head(replies) \in [req: Req, op: Op, row: Row]
      /\ Elems(replies') \subseteq Elems(replies)
  BY <1>1, ElemsTail
<1>3. /\ Single(replies')
      /\ \A c \in Elems(replies') : c.req = r => c.op = "check2" \/ op = "check2"
  BY <1>1, SingleTail DEF OverlapInv
<1>4. op # "check2" => pc[r] = op
  BY <1>1, <1>2 DEF OverlapInv, Awaited
<1>5. \A c \in Elems(wire) : c.req = r => c.op = "check2" \/ op = "check2"
  BY <1>1, <1>2 DEF OverlapInv, InOneQueue
<1> QED BY <1>2, <1>3, <1>4, <1>5

\* When Redis executes a command, no other one of its request is outstanding.
LEMMA ExecFacts ==
  ASSUME TypeOK, OverlapInv, wire # <<>>, wire' = Tail(wire)
  PROVE  /\ Head(wire) \in Elems(wire)
         /\ Head(wire) \in [req: Req, op: Op]
         /\ Elems(wire') \subseteq Elems(wire)
         /\ Single(wire')
         /\ Head(wire).op # "check2" =>
              /\ pc[Head(wire).req] = Head(wire).op
              /\ \A c \in Elems(wire') \cup Elems(replies) :
                   c.req = Head(wire).req => c.op = "check2"
<1>1. wire \in Seq([req: Req, op: Op])
  BY DEF TypeOK
<1>2. /\ Head(wire) \in Elems(wire)
      /\ Head(wire) \in [req: Req, op: Op]
      /\ Elems(wire') \subseteq Elems(wire)
  BY <1>1, ElemsTail
<1>3. /\ Single(wire')
      /\ \A c \in Elems(wire') : c.req = Head(wire).req
           => c.op = "check2" \/ Head(wire).op = "check2"
  BY <1>1, SingleTail DEF OverlapInv
<1>4. Head(wire).op # "check2" => pc[Head(wire).req] = Head(wire).op
  BY <1>2 DEF OverlapInv, Awaited
<1>5. \A c \in Elems(replies) : c.req = Head(wire).req
        => c.op = "check2" \/ Head(wire).op = "check2"
  BY <1>2 DEF OverlapInv, InOneQueue
<1> QED BY <1>2, <1>3, <1>4, <1>5

\* A command may be sent if its request has no other one on the wire.
LEMMA QueueAppend ==
  ASSUME NEW q \in Seq([req: Req, op: Op]), NEW c \in [req: Req, op: Op],
         Single(q),
         \A d \in Elems(q) : d.req = c.req => d.op = "check2" \/ c.op = "check2"
  PROVE  /\ Append(q, c) \in Seq([req: Req, op: Op])
         /\ Single(Append(q, c))
         /\ Elems(Append(q, c)) = Elems(q) \cup {c}
<1> DEFINE S == [req: Req, op: Op]
<1>1. q \in Seq(S) /\ c \in S
  OBVIOUS
<1> HIDE DEF S
<1>2. Single(Append(q, c))
  BY <1>1, SingleAppend
<1>3. Elems(Append(q, c)) = Elems(q) \cup {c}
  BY <1>1, ElemsAppend
<1>4. Append(q, c) \in Seq([req: Req, op: Op])
  BY SeqAppend
<1> QED BY <1>2, <1>3, <1>4

LEMMA OverlapInit == Init => OverlapInv
<1> SUFFICES ASSUME Init PROVE OverlapInv
  OBVIOUS
<1>1. /\ Elems(wire) = {} /\ Elems(replies) = {}
      /\ Single(wire) /\ Single(replies)
  BY ElemsEmpty DEF Init
<1>2. \A l \in List, p \in Port : holders[l][p] = {}
  BY DEF Init, NoHolders
<1>3. open = {} /\ \A r \in Req : pc[r] = "idle"
  BY DEF Init
<1> QED
  BY <1>1, <1>2, <1>3
  DEF OverlapInv, InOneQueue, Awaited, Waiting, SharedSlotsOverlap, Identified,
      SeenFree, ToReserve, OpenOverlap, FreeUnheld

\* A new request: it was idle, so nothing of it is outstanding but perhaps a
\* check of sessionList2.
LEMMA RequestOverlap ==
  ASSUME TypeOK, OverlapInv, NEW r \in Req, NEW u \in User, NEW l \in List,
         Request(r, u, l)
  PROVE  OverlapInv'
<1> DEFINE c == Cmd(r, "check1")
<1>1. c \in [req: Req, op: Op] /\ c.req = r /\ c.op = "check1"
  BY DEF Cmd, Op
<1>2. pc[r] = "idle" /\ pc'[r] = "check1" /\ user'[r] = u
      /\ \A s \in Req \ {r} : pc'[s] = pc[s] /\ user'[s] = user[s] /\ list'[s] = list[s]
  BY DEF Request, TypeOK
<1>3. \A d \in Elems(wire) \cup Elems(replies) : d.req = r => d.op = "check2"
  BY <1>2, QueueElems DEF OverlapInv, Awaited, Op
<1>4. /\ wire \in Seq([req: Req, op: Op])
      /\ wire' = Append(wire, c)
      /\ replies' = replies /\ port' = port /\ table' = table
      /\ holders' = holders /\ open' = open /\ overlap' = overlap
  BY DEF Request, TypeOK, webVars, history
<1> HIDE DEF c
<1>5. Single(wire') /\ Elems(wire') = Elems(wire) \cup {c}
  BY <1>1, <1>3, <1>4, QueueAppend DEF OverlapInv
<1>6. Awaited'
  BY <1>1, <1>2, <1>3, <1>4, <1>5, QueueElems DEF OverlapInv, Awaited
<1>7. InOneQueue'
  BY <1>1, <1>3, <1>4, <1>5 DEF OverlapInv, InOneQueue
<1>8. Identified'
  BY <1>2 DEF OverlapInv, Identified
<1>9. SeenFree'
  BY <1>2, <1>3, <1>4, QueueElems DEF OverlapInv, SeenFree, OverlapsHolders
<1>10. ToReserve'
  BY SMTT(30), <1>1, <1>2, <1>3, <1>4, <1>5, QueueElems
  DEF OverlapInv, ToReserve, OverlapsHolders
<1> QED
  BY <1>4, <1>5, <1>6, <1>7, <1>8, <1>9, <1>10
  DEF OverlapInv, SharedSlotsOverlap, OpenOverlap, FreeUnheld

\* What the four callbacks have in common.
LEMMA HandleOverlap ==
  ASSUME OverlapInv, NEW r, NEW op, Handle(r, op)
  PROVE  OpenOverlap' /\ FreeUnheld' /\ SharedSlotsOverlap'
BY DEF OverlapInv, Handle, history, OpenOverlap, FreeUnheld, SharedSlotsOverlap

LEMMA OnCheck1Overlap ==
  ASSUME TypeOK, OverlapInv, NEW r \in Req, OnCheck1(r)
  PROVE  OverlapInv'
<1> DEFINE c == Cmd(r, "check2")
           d == Cmd(r, "balance")
<1>0. Handle(r, "check1") /\ "check1" \in Op
  BY DEF OnCheck1, Op
<1>1. /\ Elems(replies') \subseteq Elems(replies) /\ Single(replies')
      /\ pc[r] = "check1"
      /\ \A e \in Elems(wire) \cup Elems(replies') : e.req = r => e.op = "check2"
  BY <1>0, HandleFacts
<1>2. /\ user' = user /\ list' = list /\ port' = port /\ holders' = holders
      /\ open' = open /\ overlap' = overlap
      /\ \A s \in Req \ {r} : pc'[s] = pc[s]
  BY <1>0 DEF OnCheck1, Handle, history, TypeOK
<1>3. SeenFree' /\ Identified'
  BY <1>1, <1>2
  DEF OverlapInv, SeenFree, Identified, OverlapsHolders, Waiting
<1>4. CASE wire' = wire
  BY <1>0, <1>1, <1>2, <1>3, <1>4, HandleOverlap, QueueElems
  DEF OverlapInv, Awaited, InOneQueue, ToReserve, OverlapsHolders
<1>5. CASE wire' = Append(Append(wire, c), d) /\ pc'[r] = "balance"
  <2>1. /\ c \in [req: Req, op: Op] /\ c.req = r /\ c.op = "check2"
        /\ d \in [req: Req, op: Op] /\ d.req = r /\ d.op = "balance"
    BY DEF Cmd, Op
  <2> HIDE DEF c, d
  <2>2. /\ Single(Append(wire, c)) /\ Elems(Append(wire, c)) = Elems(wire) \cup {c}
        /\ Append(wire, c) \in Seq([req: Req, op: Op])
    BY <1>1, <2>1, QueueAppend DEF OverlapInv, TypeOK
  <2>3. Single(wire') /\ Elems(wire') = Elems(wire) \cup {c, d}
    <3>1. \A e \in Elems(Append(wire, c)) :
            e.req = d.req => e.op = "check2" \/ d.op = "check2"
      BY <1>1, <2>1, <2>2
    <3>2. /\ Single(Append(Append(wire, c), d))
          /\ Elems(Append(Append(wire, c), d)) = Elems(Append(wire, c)) \cup {d}
      BY <2>1, <2>2, <3>1, QueueAppend
    <3> QED BY <1>5, <2>2, <3>2
  <2>4. Awaited' /\ InOneQueue'
    <3>1. InOneQueue /\ Awaited
      BY DEF OverlapInv
    <3>2. Awaited'
      BY <1>1, <1>2, <1>5, <2>1, <2>3, <3>1, QueueElems DEF Awaited
    <3>3. InOneQueue'
      BY SMTT(30), <1>1, <1>2, <1>5, <2>1, <2>3, <3>1, QueueElems DEF InOneQueue
    <3> QED BY <3>2, <3>3
  <2>5. ToReserve'
    BY <1>2, <2>1, <2>3 DEF OverlapInv, ToReserve, OverlapsHolders
  <2> QED
    BY <1>0, <1>1, <1>3, <2>3, <2>4, <2>5, HandleOverlap DEF OverlapInv
<1> QED
  BY <1>4, <1>5 DEF OnCheck1, TypeOK

LEMMA OnCheck2Overlap ==
  ASSUME TypeOK, OverlapInv, NEW r \in Req, OnCheck2(r)
  PROVE  OverlapInv'
<1>1. Handle(r, "check2") /\ "check2" \in Op
  BY DEF OnCheck2, Op
<1>2. Elems(replies') \subseteq Elems(replies) /\ Single(replies')
  BY <1>1, HandleFacts
<1>3. /\ user' = user /\ list' = list /\ port' = port /\ holders' = holders
      /\ open' = open /\ overlap' = overlap /\ wire' = wire /\ pc' = pc
  BY <1>1 DEF OnCheck2, Handle, history
<1> QED
  BY <1>1, <1>2, <1>3, HandleOverlap
  DEF OverlapInv, Awaited, InOneQueue, Identified, SeenFree, ToReserve,
      OverlapsHolders

\* The port that is reserved was read as free: by SeenFree the request overlaps
\* whoever has taken it since.
LEMMA OnBalanceOverlap ==
  ASSUME TypeOK, OverlapInv, NEW r \in Req, OnBalance(r)
  PROVE  OverlapInv'
<1> DEFINE c == Cmd(r, "reserve")
           h == Head(replies)
<1>0. Handle(r, "balance") /\ "balance" \in Op /\ h.req = r /\ h.op = "balance"
  BY DEF OnBalance, Op, Handle
<1>1. /\ h \in Elems(replies) /\ h.row \in Row
      /\ Elems(replies') \subseteq Elems(replies) /\ Single(replies')
      /\ pc[r] = "balance"
      /\ \A e \in Elems(wire) \cup Elems(replies') : e.req = r => e.op = "check2"
  BY <1>0, HandleFacts
<1>2. /\ user' = user /\ list' = list /\ holders' = holders
      /\ open' = open /\ overlap' = overlap
      /\ \A s \in Req \ {r} : pc'[s] = pc[s] /\ port'[s] = port[s]
  BY <1>0 DEF OnBalance, Handle, history, TypeOK
<1>3. SeenFree' /\ Identified'
  BY <1>1, <1>2
  DEF OverlapInv, SeenFree, Identified, OverlapsHolders, Waiting
<1>4. CASE wire' = wire
  BY SMTT(30), <1>0, <1>1, <1>2, <1>3, <1>4, HandleOverlap, QueueElems
  DEF OverlapInv, Awaited, InOneQueue, ToReserve, OverlapsHolders
<1>5. CASE /\ FreePorts(h.row) # {}
           /\ wire' = Append(wire, c)
           /\ pc'[r] = "reserve" /\ port'[r] = FirstFree(h.row)
  <2>1. c \in [req: Req, op: Op] /\ c.req = r /\ c.op = "reserve"
    BY DEF Cmd, Op
  <2>2. /\ r \in open /\ port'[r] \in 1..Scan
        /\ OverlapsHolders(r, list[r], FirstFree(h.row))
    <3>1. FirstFree(h.row) \in 1..Scan /\ FirstFree(h.row) \in FreePorts(h.row)
      BY <1>1, <1>5, FirstFreeIsFree DEF FreePorts
    <3> QED BY <1>0, <1>1, <1>5, <3>1 DEF OverlapInv, SeenFree
  <2> HIDE DEF c, h
  <2>3. Single(wire') /\ Elems(wire') = Elems(wire) \cup {c}
    <3>1. \A e \in Elems(wire) : e.req = c.req => e.op = "check2" \/ c.op = "check2"
      BY <1>1, <2>1
    <3>2. wire \in Seq([req: Req, op: Op]) /\ Single(wire)
      BY DEF OverlapInv, TypeOK
    <3>3. Single(Append(wire, c)) /\ Elems(Append(wire, c)) = Elems(wire) \cup {c}
      BY <2>1, <3>1, <3>2, QueueAppend
    <3> QED BY <1>5, <3>3
  <2>a. InOneQueue /\ Awaited /\ ToReserve
    BY DEF OverlapInv
  <2>4. Awaited' /\ InOneQueue'
    <3>1. Awaited'
      BY <1>1, <1>2, <1>5, <2>1, <2>3, <2>a, QueueElems DEF Awaited
    <3>2. InOneQueue'
      BY <1>1, <1>2, <1>5, <2>1, <2>3, <2>a, QueueElems DEF InOneQueue
    <3> QED BY <3>1, <3>2
  <2>5. ToReserve'
    <3>1. \A e \in Elems(wire) : e.op = "reserve" =>
            /\ e.req \in open /\ port'[e.req] \in 1..Scan
            /\ OverlapsHolders(e.req, list[e.req], port'[e.req])
      BY <1>1, <1>2, <1>5, <2>1, <2>a, QueueElems DEF ToReserve
    <3>2. \A e \in Elems(wire') : e.op = "reserve" =>
            /\ e.req \in open /\ port'[e.req] \in 1..Scan
            /\ OverlapsHolders(e.req, list[e.req], port'[e.req])
      BY <1>5, <2>1, <2>2, <2>3, <3>1
    <3> QED BY <1>1, <1>2, <1>5, <3>2 DEF ToReserve, OverlapsHolders
  <2> QED
    BY <1>0, <1>1, <1>3, <2>3, <2>4, <2>5, HandleOverlap DEF OverlapInv
<1> QED
  BY <1>4, <1>5 DEF OnBalance, TypeOK

LEMMA OnReserveOverlap ==
  ASSUME TypeOK, OverlapInv, NEW r \in Req, OnReserve(r)
  PROVE  OverlapInv'
<1>1. Handle(r, "reserve") /\ "reserve" \in Op
  BY DEF OnReserve, Op
<1>2. /\ Elems(replies') \subseteq Elems(replies) /\ Single(replies')
      /\ \A e \in Elems(wire) \cup Elems(replies') : e.req = r => e.op = "check2"
  BY <1>1, HandleFacts
<1>3. /\ user' = user /\ list' = list /\ port' = port /\ holders' = holders
      /\ open' = open /\ overlap' = overlap /\ wire' = wire
      /\ pc'[r] = "granted" /\ \A s \in Req \ {r} : pc'[s] = pc[s]
  BY <1>1 DEF OnReserve, Handle, history, TypeOK
<1>4. Identified'
  BY <1>3 DEF OverlapInv, Identified, Waiting
<1>5. Awaited'
  BY <1>2, <1>3, QueueElems DEF OverlapInv, Awaited
<1> QED
  BY <1>1, <1>2, <1>3, <1>4, <1>5, HandleOverlap
  DEF OverlapInv, InOneQueue, SeenFree, ToReserve, OverlapsHolders

\* A lost connection and a restart leave nothing outstanding.
LEMMA FailureOverlap ==
  ASSUME TypeOK, OverlapInv, ConnectionLost \/ initRedis
  PROVE  OverlapInv'
<1>1. /\ Elems(wire') = {} /\ Elems(replies') = {}
      /\ Single(wire') /\ Single(replies')
  BY ElemsEmpty DEF ConnectionLost, initRedis
<1>2. open' = {} /\ user' = user /\ \A r \in Req : pc'[r] \notin Waiting
  BY DEF ConnectionLost, initRedis, Waiting, TypeOK
<1>3. FreeUnheld' /\ SharedSlotsOverlap'
  <2>1. CASE ConnectionLost
    BY <2>1 DEF ConnectionLost, OverlapInv, FreeUnheld, SharedSlotsOverlap
  <2>2. CASE initRedis
    BY <2>2 DEF initRedis, NoHolders, FreeUnheld, SharedSlotsOverlap
  <2> QED BY <2>1, <2>2
<1> QED
  BY <1>1, <1>2, <1>3
  DEF OverlapInv, InOneQueue, Awaited, Identified, SeenFree, ToReserve,
      OpenOverlap

\* A read: a port it finds free has no holder, and from now on the request is
\* open together with every other open one.
LEMMA ReadOverlap ==
  ASSUME TypeOK, OverlapInv, getSessionList
  PROVE  OverlapInv'
<1> DEFINE r == Head(wire).req
           op == Head(wire).op
           c == [req |-> r, op |-> op, row |-> table[ReadList(r, op)]]
<1>1. /\ Head(wire) \in Elems(wire) /\ r \in Req /\ op \in Op
      /\ Elems(wire') \subseteq Elems(wire) /\ Single(wire')
      /\ op # "check2" => /\ pc[r] = op
                          /\ \A d \in Elems(wire') \cup Elems(replies) :
                               d.req = r => d.op = "check2"
  BY ExecFacts DEF getSessionList
<1>2. /\ table' = table /\ pc' = pc /\ user' = user /\ list' = list
      /\ port' = port /\ holders' = holders /\ replies' = Append(replies, c)
  BY DEF getSessionList
<1>3. /\ open' = IF op = "balance" THEN open \cup {r} ELSE open
      /\ overlap \subseteq overlap'
      /\ op = "balance" => \A s \in open : <<r, s>> \in overlap' /\ <<s, r>> \in overlap'
  BY DEF getSessionList
<1>4. /\ c \in [req: Req, op: Op, row: Row]
      /\ c.req = r /\ c.op = op
      /\ op = "balance" => c.row = table[list[r]]
  BY <1>1 DEF ReadList, TypeOK, List, Start, Install
<1>5. InOneQueue /\ Awaited /\ Single(replies)
  BY DEF OverlapInv
<1> HIDE DEF c
<1>6. Single(replies') /\ Elems(replies') = Elems(replies) \cup {c}
  <2> DEFINE S == [req: Req, op: Op, row: Row]
  <2>1. replies \in Seq(S) /\ c \in S
    BY <1>4 DEF TypeOK
  <2>2. \A d \in Elems(replies) : d.req = c.req => d.op = "check2" \/ c.op = "check2"
    BY <1>1, <1>4
  <2> HIDE DEF S
  <2>3. Single(Append(replies, c))
    BY <1>5, <2>1, <2>2, SingleAppend
  <2>4. Elems(Append(replies, c)) = Elems(replies) \cup {c}
    BY SMTT(30), <2>1, ElemsAppend
  <2> QED BY <1>2, <2>3, <2>4
<1>7. Awaited' /\ InOneQueue'
  <2>1. Awaited'
    BY <1>1, <1>2, <1>4, <1>5, <1>6 DEF Awaited
  <2>2. InOneQueue'
    BY <1>1, <1>2, <1>4, <1>5, <1>6 DEF InOneQueue
  <2> QED BY <2>1, <2>2
<1>8. ToReserve'
  BY <1>1, <1>2, <1>3 DEF OverlapInv, ToReserve, OverlapsHolders
<1>9. op = "balance" => \A p \in FreePorts(c.row) : holders[list[r]][p] = {}
  <2>1. FreeUnheld /\ list[r] \in List
    BY <1>1 DEF OverlapInv, TypeOK
  <2>2. \A p \in FreePorts(c.row) : p \in Port /\ c.row[p] = Null
    BY SlotAssumption DEF FreePorts, Port
  <2> QED BY <1>4, <2>1, <2>2 DEF FreeUnheld
<1>10. SeenFree'
  BY <1>2, <1>3, <1>4, <1>6, <1>9 DEF OverlapInv, SeenFree, OverlapsHolders
<1>11. OpenOverlap'
  BY <1>3 DEF OverlapInv, OpenOverlap
<1> QED
  BY <1>1, <1>2, <1>3, <1>6, <1>7, <1>8, <1>10, <1>11
  DEF OverlapInv, Identified, FreeUnheld, SharedSlotsOverlap

\* A write: the request overlaps the holders it joins by ToReserve, and whoever
\* is still to write by OpenOverlap.
LEMMA WriteOverlap ==
  ASSUME TypeOK, OverlapInv, setSession
  PROVE  OverlapInv'
<1> DEFINE r == Head(wire).req
           c == [req |-> r, op |-> "reserve", row |-> FreeRow]
<1>1. /\ Head(wire) \in Elems(wire) /\ Head(wire).op = "reserve" /\ r \in Req
      /\ Elems(wire') \subseteq Elems(wire) /\ Single(wire')
      /\ pc[r] = "reserve"
      /\ \A d \in Elems(wire') \cup Elems(replies) : d.req = r => d.op = "check2"
  BY ExecFacts DEF setSession
<1>2. /\ pc' = pc /\ user' = user /\ list' = list /\ port' = port
      /\ overlap' = overlap /\ open' = open \ {r} /\ replies' = Append(replies, c)
  BY DEF setSession
<1>3. /\ r \in open /\ port[r] \in 1..Scan /\ user[r] \in User
      /\ OverlapsHolders(r, list[r], port[r])
  BY <1>1 DEF OverlapInv, ToReserve, Identified, Waiting
<1>4. c \in [req: Req, op: Op, row: Row] /\ c.req = r /\ c.op = "reserve"
  BY <1>1, FreeTableType DEF Op
<1>5. InOneQueue /\ Awaited /\ Single(replies)
  BY DEF OverlapInv
<1> HIDE DEF c
<1>6. Single(replies') /\ Elems(replies') = Elems(replies) \cup {c}
  <2> DEFINE S == [req: Req, op: Op, row: Row]
  <2>1. replies \in Seq(S) /\ c \in S
    BY <1>4 DEF TypeOK
  <2>2. \A d \in Elems(replies) : d.req = c.req => d.op = "check2" \/ c.op = "check2"
    BY <1>1, <1>4
  <2> HIDE DEF S
  <2>3. Single(Append(replies, c))
    BY <1>5, <2>1, <2>2, SingleAppend
  <2>4. Elems(Append(replies, c)) = Elems(replies) \cup {c}
    BY SMTT(30), <2>1, ElemsAppend
  <2> QED BY <1>2, <2>3, <2>4
<1>7. Awaited' /\ InOneQueue'
  <2>1. Awaited'
    BY <1>1, <1>2, <1>4, <1>5, <1>6 DEF Awaited
  <2>2. InOneQueue'
    BY <1>1, <1>2, <1>4, <1>5, <1>6 DEF InOneQueue
  <2> QED BY <2>1, <2>2
<1>8. /\ list[r] \in List /\ port[r] \in Port
      /\ table'[list[r]][port[r]] = user[r]
      /\ holders'[list[r]][port[r]] = holders[list[r]][port[r]] \cup {r}
      /\ \A l \in List, p \in Port : l # list[r] \/ p # port[r]
           => holders'[l][p] = holders[l][p] /\ table'[l][p] = table[l][p]
  <2>1. list[r] \in List /\ port[r] \in Port
    <3>1. list[r] \in List
      BY <1>1 DEF TypeOK
    <3>2. port[r] \in Port
      BY <1>3, SlotAssumption DEF Port
    <3> QED BY <3>1, <3>2
  <2>2. /\ table \in [List -> [Port -> User \cup {Null}]]
        /\ table' = [table EXCEPT ![list[r]][port[r]] = user[r]]
    BY DEF setSession, TypeOK, Row
  <2>3. /\ holders \in [List -> [Port -> SUBSET Req]]
        /\ holders' = [holders EXCEPT ![list[r]][port[r]] =
                         holders[list[r]][port[r]] \cup {r}]
    BY DEF setSession, TypeOK
  <2> HIDE DEF r
  <2>4. /\ table'[list[r]][port[r]] = user[r]
        /\ \A l \in List, p \in Port : l # list[r] \/ p # port[r]
             => table'[l][p] = table[l][p]
    BY <2>1, <2>2
  <2>5. /\ holders'[list[r]][port[r]] = holders[list[r]][port[r]] \cup {r}
        /\ \A l \in List, p \in Port : l # list[r] \/ p # port[r]
             => holders'[l][p] = holders[l][p]
    BY <2>1, <2>3
  <2> QED BY <2>1, <2>4, <2>5
<1>9. ASSUME NEW s \in open, NEW l \in List, NEW p \in Port, s # r,
             OverlapsHolders(s, l, p)
      PROVE  OverlapsHolders(s, l, p)'
  <2>1. <<s, r>> \in overlap /\ <<r, s>> \in overlap
    BY <1>3, <1>9 DEF OverlapInv, OpenOverlap
  <2>2. holders'[l][p] \subseteq holders[l][p] \cup {r}
    BY <1>8
  <2> QED BY <1>2, <1>9, <2>1, <2>2 DEF OverlapsHolders
<1>10. SeenFree'
  <2> SUFFICES ASSUME NEW d \in Elems(replies'), d.op = "balance"
               PROVE  /\ d.req \in open'
                      /\ \A p \in FreePorts(d.row) :
                           OverlapsHolders(d.req, list[d.req], p)'
    BY <1>2 DEF SeenFree
  <2>1. d \in Elems(replies) /\ d.req # r /\ d.req \in Req
    BY <1>1, <1>4, <1>6, QueueElems
  <2>2. /\ d.req \in open /\ list[d.req] \in List
        /\ \A p \in FreePorts(d.row) : p \in Port /\ OverlapsHolders(d.req, list[d.req], p)
    <3>1. list[d.req] \in List /\ SeenFree
      BY <2>1 DEF TypeOK, OverlapInv
    <3>2. \A p \in FreePorts(d.row) : p \in Port
      BY SlotAssumption DEF FreePorts, Port
    <3> QED BY <2>1, <3>1, <3>2 DEF SeenFree
  <2> QED BY <1>2, <1>9, <2>1, <2>2
<1>11. ToReserve'
  <2> SUFFICES ASSUME NEW d \in Elems(wire'), d.op = "reserve"
               PROVE  /\ d.req \in open' /\ port[d.req] \in 1..Scan
                      /\ OverlapsHolders(d.req, list[d.req], port[d.req])'
    BY <1>2 DEF ToReserve
  <2>1. d \in Elems(wire) /\ d.req # r /\ d.req \in Req
    BY <1>1, QueueElems
  <2>2. /\ d.req \in open /\ list[d.req] \in List
        /\ port[d.req] \in 1..Scan /\ port[d.req] \in Port
        /\ OverlapsHolders(d.req, list[d.req], port[d.req])
    <3>1. list[d.req] \in List /\ ToReserve
      BY <2>1 DEF TypeOK, OverlapInv
    <3>2. 1..Scan \subseteq Port
      BY SlotAssumption DEF Port
    <3> QED BY <2>1, <3>1, <3>2 DEF ToReserve
  <2> QED BY <1>2, <1>9, <2>1, <2>2
<1>12. OpenOverlap'
  BY <1>2 DEF OverlapInv, OpenOverlap
<1>13. FreeUnheld'
  <2> SUFFICES ASSUME NEW l \in List, NEW p \in Port, table'[l][p] = Null
               PROVE  holders'[l][p] = {}
    BY DEF FreeUnheld
  <2>1. l # list[r] \/ p # port[r]
    BY <1>3, <1>8, NullAssumption
  <2>2. holders'[l][p] = holders[l][p] /\ table'[l][p] = table[l][p]
    BY <1>8, <2>1
  <2>3. FreeUnheld
    BY DEF OverlapInv
  <2> QED BY <2>2, <2>3 DEF FreeUnheld
<1>14. SharedSlotsOverlap'
  <2> SUFFICES ASSUME NEW l \in List, NEW p \in Port,
                      NEW s \in holders'[l][p], NEW t \in holders'[l][p], s # t
               PROVE  <<s, t>> \in overlap
    BY <1>2 DEF SharedSlotsOverlap
  <2>1. CASE l = list[r] /\ p = port[r]
    <3>1. holders'[l][p] = holders[l][p] \cup {r} /\ SharedSlotsOverlap
      BY <1>8, <2>1 DEF OverlapInv
    <3>2. \A x \in holders[l][p] : r # x => <<r, x>> \in overlap /\ <<x, r>> \in overlap
      BY <1>3, <2>1 DEF OverlapsHolders
    <3> QED BY <3>1, <3>2 DEF SharedSlotsOverlap
  <2>2. CASE l # list[r] \/ p # port[r]
    <3>1. holders'[l][p] = holders[l][p] /\ SharedSlotsOverlap
      BY <1>8, <2>2 DEF OverlapInv
    <3> QED BY <3>1 DEF SharedSlotsOverlap
  <2> QED BY <2>1, <2>2
<1>15. Identified'
  BY <1>2 DEF OverlapInv, Identified
<1> QED
  BY <1>1, <1>6, <1>7, <1>10, <1>11, <1>12, <1>13, <1>14, <1>15 DEF OverlapInv

\* A command that fails only removes itself and ends its request.
LEMMA ErrorOverlap ==
  ASSUME TypeOK, OverlapInv, RedisError
  PROVE  OverlapInv'
<1> DEFINE r == Head(wire).req
           op == Head(wire).op
<1>1. /\ Head(wire) \in Elems(wire) /\ r \in Req
      /\ Elems(wire') \subseteq Elems(wire) /\ Single(wire')
      /\ op # "check2" => \A d \in Elems(wire') \cup Elems(replies) :
                            d.req = r => d.op = "check2"
  BY ExecFacts DEF RedisError
<1>2. /\ table' = table /\ user' = user /\ list' = list /\ port' = port
      /\ holders' = holders /\ overlap' = overlap /\ replies' = replies
      /\ open' \subseteq open
      /\ \A s \in Req \ {r} : pc'[s] = pc[s] /\ (s \in open => s \in open')
      /\ op = "check2" => pc' = pc /\ open' = open
      /\ op # "check2" => pc'[r] = "hung"
  BY <1>1 DEF RedisError, TypeOK
<1> HIDE DEF r, op
<1>3. Awaited' /\ InOneQueue'
  BY <1>1, <1>2, QueueElems DEF OverlapInv, Awaited, InOneQueue
<1>4. Identified'
  BY <1>1, <1>2 DEF OverlapInv, Identified, Waiting
<1>5. SeenFree' /\ ToReserve'
  BY <1>1, <1>2, QueueElems DEF OverlapInv, SeenFree, ToReserve, OverlapsHolders
<1> QED
  BY <1>1, <1>2, <1>3, <1>4, <1>5
  DEF OverlapInv, OpenOverlap, FreeUnheld, SharedSlotsOverlap

\* The web server's HSET of "null" only takes holders away.
LEMMA ClearOverlap ==
  ASSUME TypeOK, OverlapInv, NEW w \in Worker, clearSession(w)
  PROVE  OverlapInv'
<1>1. /\ wire' = wire /\ replies' = replies /\ pc' = pc /\ user' = user
      /\ list' = list /\ port' = port /\ open' = open /\ overlap' = overlap
  BY DEF clearSession, lbVars
<1>2. Install \in List /\ w \in Port
  BY WorkerAssumption, SlotAssumption DEF List, Worker, Port
<1>3. /\ holders'[Install][w] = {}
      /\ \A l \in List, p \in Port : l # Install \/ p # w
           => holders'[l][p] = holders[l][p] /\ table'[l][p] = table[l][p]
  BY <1>2 DEF clearSession, TypeOK, Row
<1>4. \A l \in List, p \in Port : holders'[l][p] \subseteq holders[l][p]
  BY <1>2, <1>3
<1>a. FreeUnheld /\ SharedSlotsOverlap /\ SeenFree /\ ToReserve
  BY DEF OverlapInv
<1>5. FreeUnheld'
  BY SMTT(30), <1>3, <1>a DEF FreeUnheld
<1>6. SharedSlotsOverlap'
  BY <1>1, <1>4, <1>a DEF SharedSlotsOverlap
<1>7. \A c \in Elems(replies) : \A p \in FreePorts(c.row) :
        list[c.req] \in List /\ p \in Port
  <2>1. \A c \in Elems(replies) : list[c.req] \in List
    BY QueueElems DEF TypeOK
  <2>2. \A c \in Elems(replies) : \A p \in FreePorts(c.row) : p \in Port
    BY SlotAssumption DEF FreePorts, Port
  <2> QED BY <2>1, <2>2
<1>8. SeenFree'
  BY <1>1, <1>4, <1>7, <1>a DEF SeenFree, OverlapsHolders
<1>9. ToReserve'
  <2>1. \A c \in Elems(wire) : c.op = "reserve" =>
          list[c.req] \in List /\ port[c.req] \in Port
    <3>1. \A c \in Elems(wire) : c.req \in Req
      BY QueueElems
    <3>2. \A c \in Elems(wire) : c.op = "reserve" => port[c.req] \in 1..Scan
      BY DEF OverlapInv, ToReserve
    <3>3. 1..Scan \subseteq Port
      BY SlotAssumption DEF Port
    <3> QED BY <3>1, <3>2, <3>3 DEF TypeOK
  <2> QED BY <1>1, <1>4, <2>1 DEF OverlapInv, ToReserve, OverlapsHolders
<1> QED
  BY <1>1, <1>5, <1>6, <1>8, <1>9
  DEF OverlapInv, Awaited, InOneQueue, Identified, OpenOverlap

\* Steps of the web server and the browser that leave the hashes alone.
LEMMA IdleOverlap ==
  ASSUME OverlapInv, UNCHANGED <<table, lbVars, history>>
  PROVE  OverlapInv'
BY DEF lbVars, history, OverlapInv, Awaited, InOneQueue, Identified, SeenFree,
       ToReserve, OverlapsHolders, OpenOverlap, FreeUnheld, SharedSlotsOverlap

\* OverlapInv holds in every reachable state of the load balancer.
THEOREM OverlapInvariant == Spec => []OverlapInv
<1>1. TypeOK /\ OverlapInv /\ [Next]_vars => OverlapInv'
  <2> SUFFICES ASSUME TypeOK, OverlapInv, [Next]_vars PROVE OverlapInv'
    OBVIOUS
  <2>1. ASSUME NEW r \in Req, NEW u \in User, NEW l \in List, Request(r, u, l)
        PROVE  OverlapInv'
    BY <2>1, RequestOverlap
  <2>2. CASE Callback
    BY <2>2, OnCheck1Overlap, OnCheck2Overlap, OnBalanceOverlap, OnReserveOverlap
    DEF Callback
  <2>3. CASE Redis
    BY <2>3, ReadOverlap, WriteOverlap DEF Redis
  <2>4. CASE ConnectionLost \/ initRedis
    BY <2>4, FailureOverlap
  <2>5. CASE RedisError
    BY <2>5, ErrorOverlap
  <2>6. ASSUME NEW w \in Worker, clearSession(w) PROVE OverlapInv'
    BY <2>6, ClearOverlap
  <2>7. ASSUME NEW r \in Req, postPort(r) \/ requestPort(r) \/ onClose(r)
        PROVE  OverlapInv'
    BY <2>7, IdleOverlap DEF postPort, requestPort, onClose
  <2>8. ASSUME NEW w \in Worker, clearLost(w) PROVE OverlapInv'
    BY <2>8, IdleOverlap DEF clearLost
  <2>9. CASE UNCHANGED vars
    BY <2>9, IdleOverlap DEF vars
  <2> QED
    BY <2>1, <2>2, <2>3, <2>4, <2>5, <2>6, <2>7, <2>8, <2>9
    DEF Next, requestStartOS, requestInstallOS, List
<1> QED
  BY <1>1, OverlapInit, TypeCorrect, PTL DEF Spec

\* Two requests that hold one port of one hash at the same time overlapped: each
\* read the hash before the other's HSET was executed.
THEOREM PortsSharedOnlyByOverlap == Spec => []SharedSlotsOverlap
<1>1. OverlapInv => SharedSlotsOverlap
  BY DEF OverlapInv
<1> QED BY <1>1, OverlapInvariant, PTL

-----------------------------------------------------------------------------
\* How a step changes a slot of a hash: a reservation writes a user to a scanned
\* port, a restart frees all and forgets the replies, a close handler frees one
\* port of the install hash.
LEMMA SlotStep ==
  ASSUME TypeOK, OverlapInv, [Next]_vars, NEW l \in List, NEW p \in Port
  PROVE  \/ table'[l][p] = table[l][p]
         \/ p \in 1..Scan /\ table'[l][p] \in User
         \/ table' = FreeTable /\ replies' = <<>>
         \/ l = Install /\ p \in Worker /\ clears[p] > 0 /\ table'[l][p] = Null
<1>1. CASE UNCHANGED table
  BY <1>1
<1>2. CASE setSession
  <2> DEFINE r == Head(wire).req
  <2>1. Head(wire) \in Elems(wire) /\ r \in Req /\ pc[r] = "reserve"
    BY <1>2, ExecFacts DEF setSession
  <2>2. port[r] \in 1..Scan /\ user[r] \in User
    BY <1>2, <2>1 DEF setSession, OverlapInv, ToReserve, Identified, Waiting
  <2>3. table' = [table EXCEPT ![list[r]][port[r]] = user[r]]
    BY <1>2 DEF setSession
  <2> HIDE DEF r
  <2>4. table'[l][p] = IF l = list[r] /\ p = port[r] THEN user[r] ELSE table[l][p]
    BY <2>3 DEF TypeOK, Row
  <2> QED BY <2>2, <2>4
<1>3. CASE initRedis
  BY <1>3 DEF initRedis
<1>4. ASSUME NEW w \in Worker, clearSession(w)
      PROVE  \/ table'[l][p] = table[l][p]
             \/ l = Install /\ p \in Worker /\ clears[p] > 0 /\ table'[l][p] = Null
  <2>1. table'[l][p] = IF l = Install /\ p = w THEN Null ELSE table[l][p]
    BY <1>4 DEF clearSession, TypeOK, Row
  <2> QED BY <1>4, <2>1 DEF clearSession
<1> QED
  BY <1>1, <1>2, <1>3, <1>4
  DEF Next, Callback, Redis, requestStartOS, requestInstallOS, Request, Handle, OnCheck1,
      OnCheck2, OnBalance, OnReserve, getSessionList, postPort, requestPort, onClose,
      clearLost, ConnectionLost, RedisError, vars

\* The ports the scans do not look at are never taken, whatever fails.
THEOREM UnscannedFree == Spec => []UnscannedStayFree
<1>1. Init => UnscannedStayFree
  BY SMTT(30) DEF Init, UnscannedStayFree, FreeTable, FreeRow
<1>2. TypeOK /\ OverlapInv /\ UnscannedStayFree /\ [Next]_vars => UnscannedStayFree'
  <2> SUFFICES ASSUME TypeOK, OverlapInv, UnscannedStayFree, [Next]_vars,
                      NEW l \in List, NEW p \in Port \ 1..Scan
               PROVE  table'[l][p] = Null
    BY DEF UnscannedStayFree
  <2>1. table[l][p] = Null
    BY DEF UnscannedStayFree
  <2>2. FreeTable[l][p] = Null
    BY DEF FreeTable, FreeRow
  <2> QED BY <2>1, <2>2, SlotStep
<1> QED BY <1>1, <1>2, TypeCorrect, OverlapInvariant, PTL DEF Spec

-----------------------------------------------------------------------------
\* A HSET that a worker has sent comes from the close of a page of that worker.
ClearsFromClose ==
  \A w \in Worker : clears[w] > 0 => \E r \in Req : view[r] = "closed" /\ vport[r] = w

LEMMA ClearsNext == TypeOK /\ ClearsFromClose /\ [Next]_vars => ClearsFromClose'
<1> SUFFICES ASSUME TypeOK, ClearsFromClose, [Next]_vars PROVE ClearsFromClose'
  OBVIOUS
<1>1. CASE UNCHANGED webVars
  BY <1>1 DEF webVars, ClearsFromClose
<1>2. ASSUME NEW r \in Req, postPort(r) PROVE ClearsFromClose'
  BY <1>2 DEF postPort, ClearsFromClose, TypeOK
<1>3. ASSUME NEW r \in Req, requestPort(r) PROVE ClearsFromClose'
  BY <1>3 DEF requestPort, ClearsFromClose, TypeOK
<1>4. ASSUME NEW r \in Req, onClose(r) PROVE ClearsFromClose'
  <2>1. \A w \in Worker : w # vport[r] => clears'[w] = clears[w]
    BY <1>4 DEF onClose, TypeOK
  <2>2. view'[r] = "closed" /\ vport' = vport /\ \A s \in Req : s # r => view'[s] = view[s]
    BY <1>4 DEF onClose, TypeOK
  <2> QED BY SMTT(30), <1>4, <2>1, <2>2 DEF onClose, ClearsFromClose
<1>5. ASSUME NEW w \in Worker, clearSession(w) \/ clearLost(w) PROVE ClearsFromClose'
  <2>1. \A v \in Worker : clears'[v] > 0 => clears[v] > 0
    BY <1>5 DEF clearSession, clearLost, TypeOK
  <2>2. view' = view /\ vport' = vport
    BY <1>5 DEF clearSession, clearLost
  <2> QED BY <2>1, <2>2 DEF ClearsFromClose
<1> QED
  BY <1>1, <1>2, <1>3, <1>4, <1>5
  DEF Next, Callback, Redis, requestStartOS, requestInstallOS, Request, Handle, OnCheck1,
      OnCheck2, OnBalance, OnReserve, getSessionList, setSession, ConnectionLost,
      RedisError, initRedis, vars

\* Apart from a restart, an install port is freed only after the close of a page
\* that was connected to the worker of that number.
THEOREM FreedAfterClose == Spec => ReleasedAfterClose
<1>1. Init => ClearsFromClose
  BY SMTT(30) DEF Init, ClearsFromClose
<1>2. TypeOK /\ OverlapInv /\ ClearsFromClose /\ [Next]_vars
        => [\A p \in Port : table[Install][p] # Null /\ table'[Install][p] = Null
              => \/ table' = FreeTable
                 \/ \E r \in Req : view[r] = "closed" /\ vport[r] = p]_vars
  <2> SUFFICES ASSUME TypeOK, OverlapInv, ClearsFromClose, [Next]_vars, NEW p \in Port,
                      table[Install][p] # Null, table'[Install][p] = Null,
                      table' # FreeTable
               PROVE  \E r \in Req : view[r] = "closed" /\ vport[r] = p
    OBVIOUS
  <2>1. p \in Worker /\ clears[p] > 0
    BY SlotStep, NullAssumption DEF List
  <2> QED BY <2>1 DEF ClearsFromClose
<1> QED
  BY <1>1, <1>2, ClearsNext, TypeCorrect, OverlapInvariant, PTL DEF Spec, ReleasedAfterClose

-----------------------------------------------------------------------------
\* What a start request has read is never too pessimistic: a port that is free now
\* was free in the reply.
ReadsOld == \A c \in Elems(replies) :
  c.op = "balance" /\ list[c.req] = Start => FreePorts(table[Start]) \subseteq FreePorts(c.row)

\* A step adds at most the reply of a read, and leaves the hash of a request that
\* waits for a reply as it is.
LEMMA RepliesStep ==
  ASSUME TypeOK, OverlapInv, [Next]_vars, NEW c \in Elems(replies'), c.op = "balance"
  PROVE  /\ c \in Elems(replies) \/ (table' = table /\ c.row = table[list[c.req]])
         /\ list'[c.req] = list[c.req]
<1>1. CASE replies' = replies /\ list' = list
  BY <1>1
<1>2. ASSUME NEW r \in Req, NEW u \in User, NEW l \in List, Request(r, u, l)
      PROVE  c \in Elems(replies) /\ list'[c.req] = list[c.req]
  <2>1. c \in Elems(replies)
    BY <1>2 DEF Request
  <2>2. pc[c.req] = "balance" /\ c.req \in Req
    BY <2>1, QueueElems DEF OverlapInv, Awaited
  <2> QED BY <1>2, <2>1, <2>2 DEF Request, TypeOK
<1>3. ASSUME NEW r \in Req, NEW op \in Op, Handle(r, op)
      PROVE  c \in Elems(replies) /\ list'[c.req] = list[c.req]
  BY <1>3, HandleFacts DEF Handle
<1>4. ASSUME replies' = <<>>, list' = list PROVE FALSE
  BY <1>4, ElemsEmpty
<1>5. CASE getSessionList
  <2> DEFINE r == Head(wire).req
             op == Head(wire).op
             a == [req |-> r, op |-> op, row |-> table[ReadList(r, op)]]
  <2>1. r \in Req /\ op \in Op
    BY <1>5, ExecFacts DEF getSessionList
  <2>2. ReadList(r, op) \in List
    BY <2>1 DEF ReadList, TypeOK, List
  <2>3. a \in [req: Req, op: Op, row: Row]
    BY <2>1, <2>2 DEF TypeOK
  <2>4. replies' = Append(replies, a) /\ table' = table /\ list' = list
    BY <1>5 DEF getSessionList
  <2>5. c \in Elems(replies) \/ c = a
    <3> DEFINE S == [req: Req, op: Op, row: Row]
    <3>1. replies \in Seq(S) /\ a \in S
      BY <2>3 DEF TypeOK
    <3> HIDE DEF a, S
    <3>2. Elems(Append(replies, a)) = Elems(replies) \cup {a}
      BY SMTT(30), <3>1, ElemsAppend
    <3> QED BY <2>4, <3>2
  <2>6. c = a => c.row = table[list[c.req]]
    BY DEF ReadList
  <2> QED BY <2>4, <2>5, <2>6
<1>6. CASE setSession
  <2> DEFINE a == [req |-> Head(wire).req, op |-> "reserve", row |-> FreeRow]
  <2>1. Head(wire).req \in Req
    BY <1>6, ExecFacts DEF setSession
  <2>2. a \in [req: Req, op: Op, row: Row] /\ a.op = "reserve"
    BY <2>1, FreeTableType DEF Op
  <2>3. replies' = Append(replies, a) /\ list' = list
    BY <1>6 DEF setSession
  <2>4. c \in Elems(replies) \/ c = a
    <3> DEFINE S == [req: Req, op: Op, row: Row]
    <3>1. replies \in Seq(S) /\ a \in S
      BY <2>2 DEF TypeOK
    <3> HIDE DEF a, S
    <3>2. Elems(Append(replies, a)) = Elems(replies) \cup {a}
      BY SMTT(30), <3>1, ElemsAppend
    <3> QED BY <2>3, <3>2
  <2> QED BY <2>2, <2>3, <2>4
<1>7. ASSUME NEW r \in Req, OnCheck1(r) \/ OnCheck2(r) \/ OnBalance(r) \/ OnReserve(r)
      PROVE  \E op \in Op : Handle(r, op)
  BY <1>7 DEF OnCheck1, OnCheck2, OnBalance, OnReserve, Op
<1> QED
  BY <1>1, <1>2, <1>3, <1>4, <1>5, <1>6, <1>7
  DEF Next, Callback, Redis, requestStartOS, requestInstallOS, List, postPort, requestPort,
      onClose, clearSession, clearLost, ConnectionLost, RedisError, initRedis, vars, lbVars

LEMMA ReadsOldNext == TypeOK /\ OverlapInv /\ ReadsOld /\ [Next]_vars => ReadsOld'
<1> SUFFICES ASSUME TypeOK, OverlapInv, ReadsOld, [Next]_vars,
                    NEW c \in Elems(replies'), c.op = "balance", list'[c.req] = Start
             PROVE  FreePorts(table'[Start]) \subseteq FreePorts(c.row)
  BY DEF ReadsOld
<1>1. /\ c \in Elems(replies) \/ (table' = table /\ c.row = table[list[c.req]])
      /\ list[c.req] = Start
  BY RepliesStep
<1>2. replies' # <<>>
  BY ElemsEmpty
<1>3. Start \in List /\ Start # Install /\ 1..Scan \subseteq Port
  BY SlotAssumption DEF List, Start, Install, Port
<1>4. ASSUME NEW p \in FreePorts(table'[Start]) PROVE p \in FreePorts(table[Start])
  <2>1. p \in 1..Scan /\ p \in Port /\ table'[Start][p] = Null
    BY <1>3 DEF FreePorts
  <2>2. table'[Start][p] = table[Start][p]
    BY <1>2, <1>3, <2>1, SlotStep, NullAssumption
  <2> QED BY <2>1, <2>2 DEF FreePorts
<1>5. FreePorts(table[Start]) \subseteq FreePorts(c.row)
  BY <1>1 DEF ReadsOld
<1> QED BY <1>4, <1>5

\* A request becomes "full" only in the callback of its read.
LEMMA FullStep ==
  ASSUME TypeOK, [Next]_vars, NEW r \in Req, pc[r] # "full", pc'[r] = "full"
  PROVE  OnBalance(r) /\ FreePorts(Head(replies).row) = {}
<1>1. CASE UNCHANGED pc
  BY <1>1
<1>2. ASSUME NEW s \in Req, NEW v, v # "full", pc' = [pc EXCEPT ![s] = v] PROVE FALSE
  BY <1>2 DEF TypeOK
<1>3. CASE ConnectionLost \/ initRedis
  BY <1>3 DEF ConnectionLost, initRedis, TypeOK
<1>4. CASE RedisError
  <2>1. Head(wire).req = r \/ pc'[r] = pc[r]
    BY <1>4 DEF RedisError, TypeOK
  <2> QED BY <1>4, <2>1 DEF RedisError, TypeOK
<1>5. ASSUME NEW s \in Req, OnBalance(s)
      PROVE  OnBalance(r) /\ FreePorts(Head(replies).row) = {}
  BY <1>5 DEF OnBalance, TypeOK
<1>6. ASSUME NEW s \in Req, OnCheck1(s) \/ OnCheck2(s) \/ OnReserve(s) PROVE FALSE
  BY <1>1, <1>2, <1>6 DEF OnCheck1, OnCheck2, OnReserve
<1>7. ASSUME NEW s \in Req, NEW u \in User, NEW l \in List, Request(s, u, l) PROVE FALSE
  BY <1>2, <1>7 DEF Request
<1> QED
  BY <1>1, <1>3, <1>4, <1>5, <1>6, <1>7
  DEF Next, Callback, Redis, requestStartOS, requestInstallOS, List, getSessionList,
      setSession, postPort, requestPort, onClose, clearSession, clearLost, vars, lbVars

\* A start request is told "full" only while every scanned port is taken, however
\* long its reply was under way.
THEOREM FullIsCurrent == Spec => FullStartIsCurrent
<1>1. Init => ReadsOld
  BY ElemsEmpty DEF Init, ReadsOld
<1>2. TypeOK /\ OverlapInv /\ ReadsOld /\ [Next]_vars
        => [\A r \in Req : pc[r] # "full" /\ pc'[r] = "full" /\ list[r] = Start
              => FreePorts(table[Start]) = {}]_vars
  <2> SUFFICES ASSUME TypeOK, OverlapInv, ReadsOld, [Next]_vars, NEW r \in Req,
                      pc[r] # "full", pc'[r] = "full", list[r] = Start
               PROVE  FreePorts(table[Start]) = {}
    OBVIOUS
  <2>1. OnBalance(r) /\ FreePorts(Head(replies).row) = {}
    BY FullStep
  <2>2. Handle(r, "balance")
    BY <2>1 DEF OnBalance
  <2>3. Head(replies) \in Elems(replies)
    BY <2>2, HandleFacts DEF Op
  <2> QED BY <2>1, <2>2, <2>3 DEF Handle, ReadsOld
<1> QED
  BY <1>1, <1>2, ReadsOldNext, TypeCorrect, OverlapInvariant, PTL DEF Spec, FullStartIsCurrent

-----------------------------------------------------------------------------
\* A page, and the port kept for a user, go back to a request that was granted.
Granted(u, p) == \E s \in Req : pc[s] = "granted" /\ user[s] = u /\ port[s] = p

ViewInv ==
  /\ \A r \in Req : pc[r] # "idle" => user[r] \in User
  /\ \A r \in Req : view[r] # "none" => pc[r] = "granted"
  /\ \A u \in User : webport[u] # 0 => Granted(u, webport[u])
  /\ ViewerOnGrantedPort

\* An answer is final: a granted request keeps its user and its port; and no step
\* makes a request idle, or gives a request that is not idle another user.
LEMMA GrantStep ==
  ASSUME TypeOK, OverlapInv, [Next]_vars, NEW r \in Req
  PROVE  /\ pc[r] = "granted" => pc'[r] = "granted" /\ port'[r] = port[r]
         /\ pc[r] # "idle" => user'[r] = user[r]
         /\ pc[r] = "idle" /\ pc'[r] # "idle" => user'[r] \in User
<1>1. CASE UNCHANGED <<pc, user, port>>
  BY <1>1
<1>2. ASSUME NEW s \in Req, NEW u \in User, NEW l \in List, Request(s, u, l)
      PROVE  /\ pc[r] = "granted" => pc'[r] = "granted" /\ port'[r] = port[r]
             /\ pc[r] # "idle" => user'[r] = user[r]
             /\ pc[r] = "idle" /\ pc'[r] # "idle" => user'[r] \in User
  BY <1>2 DEF Request, TypeOK
<1>3. ASSUME NEW s \in Req, OnCheck1(s) \/ OnBalance(s) \/ OnReserve(s)
      PROVE  /\ pc[r] = "granted" => pc'[r] = "granted" /\ port'[r] = port[r]
             /\ pc[r] # "idle" => user'[r] = user[r]
             /\ pc[r] = "idle" /\ pc'[r] # "idle" => user'[r] \in User
  <2>1. PICK op \in {"check1", "balance", "reserve"} : Handle(s, op)
    BY <1>3 DEF OnCheck1, OnBalance, OnReserve
  <2>2. pc[s] \in {"check1", "balance", "reserve"}
    BY <2>1, HandleFacts DEF Op
  <2>3. user' = user
    BY <2>1 DEF Handle
  <2>4. r # s => pc'[r] = pc[r] /\ port'[r] = port[r]
    BY <1>3 DEF OnCheck1, OnBalance, OnReserve, TypeOK
  <2> QED BY <2>2, <2>3, <2>4
<1>4. CASE ConnectionLost \/ initRedis
  BY <1>4 DEF ConnectionLost, initRedis, Waiting
<1>5. CASE RedisError
  <2>1. Head(wire).op # "check2" =>
          pc[Head(wire).req] = Head(wire).op /\ Head(wire).req \in Req /\ Head(wire).op \in Op
    BY <1>5, ExecFacts DEF RedisError
  <2>2. user' = user /\ port' = port
    BY <1>5 DEF RedisError
  <2>3. pc[r] \in {"granted", "idle"} => pc'[r] = pc[r]
    BY <1>5, <2>1 DEF RedisError, TypeOK, Op
  <2> QED BY <2>2, <2>3
<1>6. ASSUME NEW s \in Req, OnCheck2(s) PROVE UNCHANGED <<pc, user, port>>
  BY <1>6 DEF OnCheck2, Handle
<1>7. Redis => UNCHANGED <<pc, user, port>>
  <2>1. getSessionList => UNCHANGED <<pc, user, port>>
    BY DEF getSessionList
  <2>2. setSession => UNCHANGED <<pc, user, port>>
    BY DEF setSession
  <2> QED BY <2>1, <2>2 DEF Redis
<1>8. ASSUME NEW s \in Req, postPort(s) \/ requestPort(s) \/ onClose(s)
      PROVE  UNCHANGED <<pc, user, port>>
  BY <1>8 DEF postPort, requestPort, onClose, lbVars
<1>9. ASSUME NEW w \in Worker, clearSession(w) \/ clearLost(w)
      PROVE  UNCHANGED <<pc, user, port>>
  BY <1>9 DEF clearSession, clearLost, lbVars
<1>10. CASE Callback
  BY <1>1, <1>3, <1>6, <1>10 DEF Callback
<1>11. ASSUME NEW s \in Req, NEW u \in User, requestStartOS(s, u) \/ requestInstallOS(s, u)
       PROVE  \E l \in List : Request(s, u, l)
  BY <1>11 DEF requestStartOS, requestInstallOS, List
<1>12. CASE UNCHANGED vars
  BY <1>1, <1>12 DEF vars, lbVars
<1> QED
  BY <1>1, <1>2, <1>4, <1>5, <1>7, <1>8, <1>9, <1>10, <1>11, <1>12 DEF Next

\* Where the pages and the users' ports come from.
LEMMA ViewStep ==
  ASSUME TypeOK, ViewInv, [Next]_vars
  PROVE  /\ \A r \in Req : view'[r] # "none" => pc[r] = "granted"
         /\ \A u \in User : webport'[u] # 0 => Granted(u, webport'[u])
         /\ \A r \in Req : view'[r] \in {"open", "closed"} => Granted(user[r], vport'[r])
<1>1. /\ \A r \in Req : view[r] # "none" => pc[r] = "granted" /\ user[r] \in User
      /\ \A u \in User : webport[u] # 0 => Granted(u, webport[u])
      /\ \A r \in Req : view[r] \in {"open", "closed"} => Granted(user[r], vport[r])
  BY DEF ViewInv, ViewerOnGrantedPort, Granted
<1>2. CASE UNCHANGED <<webport, view, vport>>
  BY <1>1, <1>2
<1>3. ASSUME NEW r \in Req, postPort(r)
      PROVE  /\ \A s \in Req : view'[s] # "none" => pc[s] = "granted"
             /\ \A u \in User : webport'[u] # 0 => Granted(u, webport'[u])
             /\ \A s \in Req : view'[s] \in {"open", "closed"} => Granted(user[s], vport'[s])
  <2>1. user[r] \in User /\ Granted(user[r], port[r])
    BY <1>3 DEF postPort, ViewInv, Granted
  <2> QED BY <1>1, <1>3, <2>1 DEF postPort, TypeOK
<1>4. ASSUME NEW r \in Req, requestPort(r)
      PROVE  /\ \A s \in Req : view'[s] # "none" => pc[s] = "granted"
             /\ \A u \in User : webport'[u] # 0 => Granted(u, webport'[u])
             /\ \A s \in Req : view'[s] \in {"open", "closed"} => Granted(user[s], vport'[s])
  <2>0. view[r] # "none" /\ webport[user[r]] # 0
    BY <1>4, WorkerAssumption DEF requestPort, Worker
  <2>1. user[r] \in User /\ pc[r] = "granted" /\ webport[user[r]] # 0
    BY <1>1, <2>0
  <2> QED BY <1>1, <1>4, <2>1 DEF requestPort, TypeOK
<1>5. ASSUME NEW r \in Req, onClose(r)
      PROVE  /\ \A s \in Req : view'[s] # "none" => pc[s] = "granted"
             /\ \A u \in User : webport'[u] # 0 => Granted(u, webport'[u])
             /\ \A s \in Req : view'[s] \in {"open", "closed"} => Granted(user[s], vport'[s])
  BY <1>1, <1>5 DEF onClose, TypeOK
<1>6. Callback => UNCHANGED <<webport, view, vport>>
  BY DEF Callback, OnCheck1, OnCheck2, OnBalance, OnReserve, Handle, webVars
<1>7. Redis \/ ConnectionLost \/ RedisError \/ initRedis => UNCHANGED <<webport, view, vport>>
  <2>1. getSessionList => UNCHANGED <<webport, view, vport>>
    BY DEF getSessionList, webVars
  <2>2. setSession => UNCHANGED <<webport, view, vport>>
    BY Zenon DEF setSession, webVars
  <2>3. RedisError => UNCHANGED <<webport, view, vport>>
    BY DEF RedisError, webVars
  <2>4. ConnectionLost \/ initRedis => UNCHANGED <<webport, view, vport>>
    BY DEF ConnectionLost, initRedis, webVars
  <2> QED BY <2>1, <2>2, <2>3, <2>4 DEF Redis
<1> QED
  BY <1>2, <1>3, <1>4, <1>5, <1>6, <1>7
  DEF Next, requestStartOS, requestInstallOS, Request, clearSession, clearLost, vars, webVars

LEMMA ViewNext == TypeOK /\ OverlapInv /\ ViewInv /\ [Next]_vars => ViewInv'
<1> SUFFICES ASSUME TypeOK, OverlapInv, ViewInv, [Next]_vars PROVE ViewInv'
  OBVIOUS
<1>1. \A r \in Req : pc'[r] # "idle" => user'[r] \in User
  BY GrantStep DEF ViewInv
<1>2. \A r \in Req : view'[r] # "none" => pc'[r] = "granted" /\ user'[r] = user[r]
  BY ViewStep, GrantStep
<1>3. \A u \in User : webport'[u] # 0 => Granted(u, webport[u])'
  <2> SUFFICES ASSUME NEW u \in User, webport'[u] # 0 PROVE Granted(u, webport[u])'
    OBVIOUS
  <2>1. PICK s \in Req : pc[s] = "granted" /\ user[s] = u /\ port[s] = webport'[u]
    BY ViewStep DEF Granted
  <2> QED BY <2>1, GrantStep DEF Granted
<1>4. ViewerOnGrantedPort'
  <2> SUFFICES ASSUME NEW r \in Req, view'[r] \in {"open", "closed"}
               PROVE  \E s \in Req : pc'[s] = "granted" /\ user'[s] = user'[r]
                                     /\ port'[s] = vport'[r]
    BY DEF ViewerOnGrantedPort
  <2>1. PICK s \in Req : pc[s] = "granted" /\ user[s] = user[r] /\ port[s] = vport'[r]
    BY ViewStep DEF Granted
  <2> QED BY <1>2, <2>1, GrantStep
<1> QED BY <1>1, <1>2, <1>3, <1>4 DEF ViewInv

\* A page is only ever connected to a port that was granted to its user, for any
\* number of pages, users and ports and any faults of the connection.
THEOREM ViewerGranted == Spec => []ViewerOnGrantedPort
<1>1. Init => ViewInv
  BY DEF Init, ViewInv, ViewerOnGrantedPort
<1>2. ViewInv => ViewerOnGrantedPort
  BY DEF ViewInv
<1> QED BY <1>1, <1>2, ViewNext, TypeCorrect, OverlapInvariant, PTL DEF Spec
=============================================================================
