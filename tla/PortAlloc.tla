------------------------------ MODULE PortAlloc ------------------------------
(***************************************************************************)
(* The load balancer's start and install requests: how a streaming port is *)
(* reserved in the two Redis hashes, shown to the user by the web server   *)
(* and given back.  Each request is a chain of callbacks; the commands of  *)
(* all requests share one FIFO connection to Redis, and the web server's   *)
(* workers write to the same hashes over connections of their own.         *)
(***************************************************************************)
EXTENDS Integers, Sequences, FiniteSets

CONSTANTS
  User,        \* member e-mails
  Req,         \* start and install requests; each is made at most once
  Scan,        \* ports the scans look at: 3 in the code
  Slots,       \* ports initRedis creates in each hash: 8 in the code
  NumWorkers,  \* web server workers, one per CPU
  Null,        \* the string "null" of a free port
  Faults       \* whether connections and the load balancer may fail

ASSUME SlotAssumption == Scan \in Nat /\ Slots \in Nat /\ Scan <= Slots
ASSUME WorkerAssumption == NumWorkers \in Nat /\ NumWorkers <= Slots
ASSUME NullAssumption == Null \notin User
ASSUME FaultsAssumption == Faults \in BOOLEAN

Start   == "sessionList1"
Install == "sessionList2"
List    == {Start, Install}
Port    == 1..Slots
Worker  == 1..NumWorkers
Row     == [Port -> User \cup {Null}]

Op      == {"check1", "check2", "balance", "reserve"}
Waiting == {"check1", "balance", "reserve"}
Answer  == {"granted", "dup", "full"}

VARIABLES
  table,    \* the two hashes as Redis stores them
  wire,     \* commands the load balancer has sent, oldest first
  replies,  \* replies Redis has sent back, oldest first
  pc,       \* the reply each request waits for, or how it ended
  user, list, port,    \* MemberEmail, hash and chosen index of a request
  webport,  \* req.session.port of each user's session at the web server
  view,     \* each request's page: none, page, open, closed
  vport,    \* the worker a page is connected to
  clears,   \* HSETs sent by each worker's close handler, not yet executed
  \* History of the Redis commands, read by no action.
  holders,  \* requests whose reservation of a slot has not been overwritten
            \* by a "null"
  open,     \* requests that have read the hash and not yet written it
  overlap   \* pairs of requests that were open at the same time

lbVars   == <<wire, replies, pc, user, list, port>>
webVars  == <<webport, view, vport, clears>>
history  == <<holders, open, overlap>>
vars     == <<table, lbVars, webVars, history>>

FreeRow     == [p \in Port |-> Null]
FreeTable   == [l \in List |-> FreeRow]
NoHolders   == [l \in List |-> [p \in Port |-> {}]]

TypeOK ==
  /\ table \in [List -> Row]
  /\ wire \in Seq([req: Req, op: Op])
  /\ replies \in Seq([req: Req, op: Op, row: Row])
  /\ pc \in [Req -> Waiting \cup Answer \cup {"idle", "hung"}]
  /\ user \in [Req -> User \cup {Null}]
  /\ list \in [Req -> List]
  /\ port \in [Req -> 0..Slots]
  /\ webport \in [User -> 0..Slots]
  /\ view \in [Req -> {"none", "page", "open", "closed"}]
  /\ vport \in [Req -> 0..Slots]
  /\ clears \in [Worker -> Nat]
  /\ holders \in [List -> [Port -> SUBSET Req]]
  /\ open \subseteq Req
  /\ overlap \subseteq Req \X Req

\* initRedis has run: every port of both hashes holds "null".
Init ==
  /\ table = FreeTable
  /\ wire = <<>> /\ replies = <<>>
  /\ pc = [r \in Req |-> "idle"]
  /\ user = [r \in Req |-> Null]
  /\ list = [r \in Req |-> Start]
  /\ port = [r \in Req |-> 0]
  /\ webport = [u \in User |-> 0]
  /\ view = [r \in Req |-> "none"]
  /\ vport = [r \in Req |-> 0]
  /\ clears = [w \in Worker |-> 0]
  /\ holders = NoHolders /\ open = {} /\ overlap = {}

-----------------------------------------------------------------------------
\* What the callbacks compute from a reply.

\* checkOverLogin: the e-mail is the value of one of the scanned ports.
LoggedIn(u, row) == \E p \in 1..Scan : row[p] = u

\* The ports the LoadBalancer loop may stop at, and where it does stop.
FreePorts(row) == {p \in 1..Scan : row[p] = Null}
FirstFreeOffByOne(row) ==
  LET p == CHOOSE q \in FreePorts(row) : \A x \in FreePorts(row) : q <= x
  IN  IF p > 1 THEN p - 1 ELSE p
FirstFree(row) == CHOOSE p \in FreePorts(row) : \A q \in FreePorts(row) : p <= q

Cmd(r, op) == [req |-> r, op |-> op]

-----------------------------------------------------------------------------
\* The load balancer.  A handler sends checkOverLogin's HGETALL and returns.
Request(r, u, l) ==
  /\ pc[r] = "idle"
  /\ pc' = [pc EXCEPT ![r] = "check1"]
  /\ user' = [user EXCEPT ![r] = u]
  /\ list' = [list EXCEPT ![r] = l]
  /\ wire' = Append(wire, Cmd(r, "check1"))
  /\ UNCHANGED <<table, replies, port, webVars, history>>

requestStartOS(r, u)   == Request(r, u, Start)
requestInstallOS(r, u) == Request(r, u, Install)

\* The oldest reply is handled; `op' is the command it answers.
Handle(r, op) ==
  /\ replies # <<>>
  /\ Head(replies).req = r /\ Head(replies).op = op
  /\ replies' = Tail(replies)
  /\ UNCHANGED <<table, user, list, webVars, history>>

\* The first checkOverLogin callback.  It issues the check of sessionList2 and
\* tests `check' at once, so only sessionList1 decides; both HGETALLs of the
\* else branches are then on the wire, one after the other.
OnCheck1(r) ==
  /\ Handle(r, "check1")
  /\ IF LoggedIn(user[r], Head(replies).row)
     THEN /\ pc' = [pc EXCEPT ![r] = "dup"]
          /\ UNCHANGED wire
     ELSE /\ pc' = [pc EXCEPT ![r] = "balance"]
          /\ wire' = Append(Append(wire, Cmd(r, "check2")), Cmd(r, "balance"))
  /\ UNCHANGED port

\* The second checkOverLogin callback sets `check', which nothing reads again.
OnCheck2(r) ==
  /\ Handle(r, "check2")
  /\ UNCHANGED <<wire, pc, port>>

\* LoadBalancer: take the first port read as free, or answer "full".
OnBalance(r) ==
  /\ Handle(r, "balance")
  /\ IF FreePorts(Head(replies).row) # {}
     THEN /\ pc' = [pc EXCEPT ![r] = "reserve"]
          /\ port' = [port EXCEPT ![r] = FirstFree(Head(replies).row)]
          /\ wire' = Append(wire, Cmd(r, "reserve"))
     ELSE /\ pc' = [pc EXCEPT ![r] = "full"]
          /\ UNCHANGED <<wire, port>>

\* setSession's callback: the VM command is sent and the port answered.
OnReserve(r) ==
  /\ Handle(r, "reserve")
  /\ pc' = [pc EXCEPT ![r] = "granted"]
  /\ UNCHANGED <<wire, port>>

\* A lost connection ends every outstanding command with an error, which the
\* callbacks only log: the requests behind them are never answered.
ConnectionLost ==
  /\ Faults
  /\ wire # <<>> \/ replies # <<>>
  /\ wire' = <<>> /\ replies' = <<>>
  /\ pc' = [r \in Req |-> IF pc[r] \in Waiting THEN "hung" ELSE pc[r]]
  /\ open' = {}
  /\ UNCHANGED <<table, user, list, port, webVars, holders, overlap>>

\* The load balancer stops and starts again: its requests are gone, and
\* initRedis frees every port before the first new request is read.
initRedis ==
  /\ Faults
  /\ table' = FreeTable
  /\ wire' = <<>> /\ replies' = <<>>
  /\ pc' = [r \in Req |-> IF pc[r] \in Waiting THEN "hung" ELSE pc[r]]
  /\ holders' = NoHolders /\ open' = {}
  /\ UNCHANGED <<user, list, port, webVars, overlap>>

-----------------------------------------------------------------------------
\* Redis executes the load balancer's commands one at a time, in order.
ReadList(r, op) ==
  CASE op = "check1" -> Start [] op = "check2" -> Install [] OTHER -> list[r]

\* HGETALL (getSessionList).
getSessionList ==
  /\ wire # <<>> /\ Head(wire).op # "reserve"
  /\ LET r == Head(wire).req
         op == Head(wire).op
     IN  /\ replies' = Append(replies, [req |-> r, op |-> op,
                                         row |-> table[ReadList(r, op)]])
         /\ IF op = "balance"
            THEN /\ open' = open \cup {r}
                 /\ overlap' = overlap \cup ({r} \X open) \cup (open \X {r})
            ELSE UNCHANGED <<open, overlap>>
  /\ wire' = Tail(wire)
  /\ UNCHANGED <<table, pc, user, list, port, webVars, holders>>

\* HSET sessionList portN e-mail (setSession).
setSession ==
  /\ wire # <<>> /\ Head(wire).op = "reserve"
  /\ LET r == Head(wire).req
     IN  /\ table' = [table EXCEPT ![list[r]][port[r]] = user[r]]
         /\ holders' = [holders EXCEPT ![list[r]][port[r]] = @ \cup {r}]
         /\ open' = open \ {r}
         /\ replies' = Append(replies, [req |-> r, op |-> "reserve",
                                         row |-> FreeRow])
  /\ wire' = Tail(wire)
  /\ UNCHANGED <<pc, user, list, port, webVars, overlap>>

\* A single command is answered by an error (a HSET refused, for instance):
\* it has no effect, and its request is never answered.
RedisError ==
  /\ Faults
  /\ wire # <<>>
  /\ LET r == Head(wire).req
         op == Head(wire).op
     IN  /\ pc' = IF op = "check2" THEN pc ELSE [pc EXCEPT ![r] = "hung"]
         /\ open' = IF op = "reserve" THEN open \ {r} ELSE open
  /\ wire' = Tail(wire)
  /\ UNCHANGED <<table, replies, user, list, port, webVars, holders, overlap>>

-----------------------------------------------------------------------------
\* (mutant) the port is answered before the HSET's callback
postPortEarly(r) ==
  /\ pc[r] \in {"reserve", "granted"} /\ view[r] = "none"
  /\ view' = [view EXCEPT ![r] = "page"]
  /\ webport' = [webport EXCEPT ![user[r]] = port[r]]
  /\ UNCHANGED <<table, lbVars, vport, clears, history>>

\* The web server.  The browser posts the granted port, which the server keeps
\* in the user's session; a second page of the same user overwrites it.
postPort(r) ==
  /\ pc[r] = "granted" /\ view[r] = "none"
  /\ view' = [view EXCEPT ![r] = "page"]
  /\ webport' = [webport EXCEPT ![user[r]] = port[r]]
  /\ UNCHANGED <<table, lbVars, vport, clears, history>>

\* (mutant) the session is deleted when the page connects
requestPortClears(r) ==
  /\ view[r] = "page"
  /\ webport[user[r]] \in Worker
  /\ view' = [view EXCEPT ![r] = "open"]
  /\ vport' = [vport EXCEPT ![r] = webport[user[r]]]
  /\ clears' = [clears EXCEPT ![webport[user[r]]] = @ + 1]
  /\ UNCHANGED <<table, lbVars, webport, history>>

\* The page asks for the session's port and connects to that worker, if there
\* is one.
requestPort(r) ==
  /\ view[r] = "page"
  /\ webport[user[r]] \in Worker
  /\ view' = [view EXCEPT ![r] = "open"]
  /\ vport' = [vport EXCEPT ![r] = webport[user[r]]]
  /\ UNCHANGED <<table, lbVars, webport, clears, history>>

\* The worker's close handler: HSET sessionList2 port<worker id> null.
onClose(r) ==
  /\ view[r] = "open"
  /\ view' = [view EXCEPT ![r] = "closed"]
  /\ clears' = [clears EXCEPT ![vport[r]] = @ + 1]
  /\ UNCHANGED <<table, lbVars, webport, vport, history>>

\* (mutant) the port is freed in the hash of the start requests
clearStartSession(w) ==
  /\ clears[w] > 0
  /\ clears' = [clears EXCEPT ![w] = @ - 1]
  /\ table' = [table EXCEPT ![Start][w] = Null]
  /\ holders' = [holders EXCEPT ![Start][w] = {}]
  /\ UNCHANGED <<lbVars, webport, view, vport, open, overlap>>

clearSession(w) ==
  /\ clears[w] > 0
  /\ clears' = [clears EXCEPT ![w] = @ - 1]
  /\ table' = [table EXCEPT ![Install][w] = Null]
  /\ holders' = [holders EXCEPT ![Install][w] = {}]
  /\ UNCHANGED <<lbVars, webport, view, vport, open, overlap>>

\* The same HSET ends with an error, which is logged.
clearLost(w) ==
  /\ Faults
  /\ clears[w] > 0
  /\ clears' = [clears EXCEPT ![w] = @ - 1]
  /\ UNCHANGED <<table, lbVars, webport, view, vport, history>>

-----------------------------------------------------------------------------
Redis    == getSessionList \/ setSession
Callback == \E r \in Req :
              OnCheck1(r) \/ OnCheck2(r) \/ OnBalance(r) \/ OnReserve(r)

Next ==
  \/ \E r \in Req, u \in User : requestStartOS(r, u) \/ requestInstallOS(r, u)
  \/ Callback
  \/ Redis
  \/ \E r \in Req : postPort(r) \/ requestPort(r) \/ onClose(r)
  \/ \E w \in Worker : clearSession(w) \/ clearLost(w)
  \/ ConnectionLost
  \/ RedisError
  \/ initRedis

Spec == Init /\ [][Next]_vars

-----------------------------------------------------------------------------
\* Two requests hold one port of one hash at the same time only if each read
\* the hash before the other's write reached Redis: requests whose
\* LoadBalancer read and HSET do not overlap never share a slot.
SharedSlotsOverlap ==
  \A l \in List, p \in Port : \A r, s \in holders[l][p] :
    r # s => <<r, s>> \in overlap

\* The inductive form of SharedSlotsOverlap.  A command or reply is the one its
\* request waits for (the dead check of sessionList2 excepted) and is the only
\* one; a request that has seen a port free, in a reply not yet handled or a
\* HSET not yet executed, is still open and overlaps whoever took the port since.
Elems(q) == {q[i] : i \in 1..Len(q)}

Single(q) == \A i, j \in 1..Len(q) :
  q[i].req = q[j].req /\ q[i].op # "check2" /\ q[j].op # "check2" => i = j

Awaited == \A c \in Elems(wire) \cup Elems(replies) :
  c.op # "check2" => pc[c.req] = c.op

InOneQueue == \A c \in Elems(wire), d \in Elems(replies) :
  c.req = d.req => c.op = "check2" \/ d.op = "check2"

OverlapsHolders(r, l, p) == \A s \in holders[l][p] :
  r # s => <<r, s>> \in overlap /\ <<s, r>> \in overlap

Identified == \A r \in Req : pc[r] \in Waiting => user[r] \in User

SeenFree == \A c \in Elems(replies) : c.op = "balance" =>
  /\ c.req \in open
  /\ \A p \in FreePorts(c.row) : OverlapsHolders(c.req, list[c.req], p)

ToReserve == \A c \in Elems(wire) : c.op = "reserve" =>
  /\ c.req \in open
  /\ port[c.req] \in 1..Scan
  /\ OverlapsHolders(c.req, list[c.req], port[c.req])

OpenOverlap == \A r, s \in open : r # s => <<r, s>> \in overlap

FreeUnheld == \A l \in List, p \in Port : table[l][p] = Null => holders[l][p] = {}

OverlapInv ==
  /\ Single(wire) /\ Single(replies) /\ InOneQueue /\ Awaited
  /\ Identified /\ SeenFree /\ ToReserve /\ OpenOverlap /\ FreeUnheld
  /\ SharedSlotsOverlap

\* The loops stop at port 3 while initRedis creates eight: the ports behind
\* stay free for ever, so a hash never holds more than Scan users.
UnscannedStayFree ==
  \A l \in List : \A p \in Port \ 1..Scan : table[l][p] = Null

\* A "full" answered to a start request is still true when it is sent, however
\* old the reply it was read from is: nothing but a restart frees a port of
\* sessionList1, and a restart ends the request.
FullStartIsCurrent ==
  [][\A r \in Req : pc[r] # "full" /\ pc'[r] = "full" /\ list[r] = Start
       => FreePorts(table[Start]) = {}]_vars

\* Apart from a restart, an install port becomes free only after a page
\* connected to the worker of that number has been closed.
ReleasedAfterClose ==
  [][\A p \in Port :
       table[Install][p] # Null /\ table'[Install][p] = Null
       => \/ table' = FreeTable
          \/ \E r \in Req : view[r] = "closed" /\ vport[r] = p]_vars

\* A page is only ever connected to a port that was granted to its user, even
\* when two pages of the user overwrite each other's session port.
ViewerOnGrantedPort ==
  \A r \in Req : view[r] \in {"open", "closed"} =>
    \E s \in Req : pc[s] = "granted" /\ user[s] = user[r] /\ port[s] = vport[r]

-----------------------------------------------------------------------------
\* What the browser tells the users (see the findings).

\* "This ID is currently connected": a user has at most one open page.
OneConnectionPerUser ==
  \A r, s \in Req : r # s /\ view[r] = "open" /\ view[s] = "open"
    => user[r] # user[s]

\* "The number of users that can be served has been reached": when a start
\* request is answered "full", every scanned port of sessionList1 was reserved
\* by a request whose page has not been closed.
FullMeansInUse ==
  [][\A r \in Req : pc[r] # "full" /\ pc'[r] = "full" /\ list[r] = Start =>
       \A p \in 1..Scan : \E s \in holders[Start][p] : view[s] # "closed"]_vars
=============================================================================
