------------------------------- MODULE Members -------------------------------
(***************************************************************************)
(* Members of the load balancer: registration, the check of an id and      *)
(* login.  Requests send their commands to MongoDB on one connection, which *)
(* executes and answers them in order; each answer runs a callback, between *)
(* the callbacks of other requests.  A broken connection fails all pending  *)
(* callbacks at once, and some of them throw, which ends the process.      *)
(***************************************************************************)
EXTENDS Naturals, Sequences

CONSTANTS
  Email,     \* ids users register
  Ones,      \* those that JavaScript's == takes for true, like "00001"
  Password,
  Req,       \* requests; each is posted once
  Faults,    \* whether the connection may break
  None

ASSUME MembersAssumption ==
  Ones \subseteq Email /\ Faults \in BOOLEAN /\ None \notin Nat \cup BOOLEAN

Kind == {"join", "login", "idCheck"}
Ask  == [kind: Kind, email: Email, password: Password]
Op   == {"initIndexers", "getIndexers", "checkIdMember", "checkLoginMember",
         "getIndexMember", "insertMember"}
Call == [op: Op, req: Req, index: Nat \cup {None}]   \* index: for insertMember
Wait == {c \in Call : c.op # "initIndexers"}         \* calls with a callback

ASSUME AskAssumption == None \notin Ask

VARIABLES
  members,     \* the documents; the request that inserts one stands for its _id
  user_index,  \* the counter document, None before the first insert
  wire,        \* commands on their way to MongoDB
  pending,     \* calls whose callback has not run, oldest first
  answers,     \* what MongoDB has answered to the first of them
  ask,         \* what each request asks
  inputIndex,  \* the variable of joinMember; None is undefined
  answer,      \* what the browser was told
  up,          \* the process runs
  failing,     \* callbacks of a lost connection, still to be called with the error
  \* History.
  seen,        \* what the check of an id found
  known,       \* credentials whose join was answered, no fault since
  due,         \* logins posted with known credentials, no fault since
  lost         \* the connection has broken

mongo == <<members, user_index>>
lb    == <<ask, inputIndex, answer>>
hist  == <<seen, known, due, lost>>
vars  == <<mongo, wire, pending, answers, failing, lb, up, hist>>

Doc == [_id: Req, index: Nat \cup {None}, email: Email, password: Password]

TypeOK ==
  /\ members \subseteq Doc
  /\ user_index \in Nat \cup {None}
  /\ wire \in Seq(Call) /\ pending \in Seq(Wait) /\ failing \in Seq(Wait)
  /\ answers \in Seq([seq: Nat \cup {None}, found: BOOLEAN])
  /\ ask \in [Req -> Ask \cup {None}]
  /\ inputIndex \in [Req -> Nat \cup {None}]
  /\ answer \in [Req -> BOOLEAN \cup {None}]
  /\ up \in BOOLEAN
  /\ seen \in [Req -> BOOLEAN]
  /\ known \subseteq Email \X Password
  /\ due \subseteq Req /\ lost \in BOOLEAN

Init ==
  /\ members = {} /\ user_index = None
  /\ wire = <<>> /\ pending = <<>> /\ answers = <<>> /\ failing = <<>>
  /\ ask = [r \in Req |-> None]
  /\ inputIndex = [r \in Req |-> None]
  /\ answer = [r \in Req |-> None]
  /\ up = TRUE
  /\ seen = [r \in Req |-> FALSE] /\ known = {} /\ due = {} /\ lost = FALSE

-----------------------------------------------------------------------------
\* sendCommand: calls whose callbacks wait behind those in rest.
C(op, r) == [op |-> op, req |-> r, index |-> inputIndex[r]]

Sent(rest, calls) == wire' = wire \o calls /\ pending' = rest \o calls

Elems(q) == {q[i] : i \in 1..Len(q)}

Credentials(r) == <<ask[r].email, ask[r].password>>

\* (mutant) the counter is asked before it is made
joinMemberSwapped(r) ==
  /\ wire' = wire \o <<C("getIndexers", r), C("initIndexers", r), C("checkIdMember", r)>>
  /\ pending' = pending \o <<C("getIndexers", r), C("checkIdMember", r)>>

\* router.post: what each request sends at once.  The insert of the counter has no
\* callback.
joinMember(r) ==
  /\ wire' = wire \o <<C("initIndexers", r), C("getIndexers", r), C("checkIdMember", r)>>
  /\ pending' = pending \o <<C("getIndexers", r), C("checkIdMember", r)>>

idCheckMember(r) == Sent(pending, <<C("checkIdMember", r)>>)
loginMember(r)   == Sent(pending, <<C("checkLoginMember", r)>>)

Post(r, a) ==
  /\ up /\ failing = <<>> /\ ask[r] = None
  /\ ask' = [ask EXCEPT ![r] = a]
  /\ CASE a.kind = "join"    -> joinMember(r)
       [] a.kind = "idCheck" -> idCheckMember(r)
       [] a.kind = "login"   -> loginMember(r)
  /\ due' = IF a.kind = "login" /\ <<a.email, a.password>> \in known
            THEN due \cup {r} ELSE due
  /\ UNCHANGED <<mongo, answers, failing, inputIndex, answer, up, seen, known, lost>>

-----------------------------------------------------------------------------
\* (mutant) the counter is set back by every registration
initIndexersUpsert == 0

\* MongoDB: the insert fails silently when the counter is there.
initIndexers == IF user_index = None THEN 0 ELSE user_index

\* findAndModify with new: true; null when there is no counter.
getIndexers == IF user_index = None THEN None ELSE user_index + 1

Found(e)      == \E d \in members : d.email = e
FoundLogin(c) == \E d \in members : <<d.email, d.password>> = c
Document(c) == [_id |-> c.req, index |-> c.index,
                email |-> ask[c.req].email, password |-> ask[c.req].password]

\* What the callback of a call gets to know.
Result(c) ==
  [seq   |-> IF c.op = "getIndexers" THEN getIndexers ELSE 0,
   found |-> IF c.op = "checkLoginMember" THEN FoundLogin(Credentials(c.req))
             ELSE Found(ask[c.req].email)]

\* MongoDB executes the next command; only a pending call gets its answer.
Execute ==
  /\ wire # <<>>
  /\ LET c == Head(wire) IN
     /\ user_index' = CASE c.op = "initIndexers" -> initIndexers
                        [] c.op = "getIndexers"  -> getIndexers
                        [] OTHER -> user_index
     /\ members' = IF c.op = "insertMember" THEN members \cup {Document(c)}
                   ELSE members
     /\ answers' = IF c \in Elems(pending)
                   THEN Append(answers, Result(c)) ELSE answers
     /\ seen' = IF c.op = "checkIdMember"
                THEN [seen EXCEPT ![c.req] = Found(ask[c.req].email)] ELSE seen
  /\ wire' = Tail(wire)
  /\ UNCHANGED <<pending, failing, lb, up, known, due, lost>>

-----------------------------------------------------------------------------
Answer(r, b) == answer' = [answer EXCEPT ![r] = b]

\* checkIdMember passes the id itself, and the callers compare it with true.
Taken(e, found) == found /\ e \in Ones

\* (mutant) the member is never inserted
JoinOnlyAnswers(r, rest) ==
  /\ Answer(r, TRUE) /\ Sent(rest, <<>>)
  /\ known' = known \cup {Credentials(r)}

\* The member is sent off; the browser is told without waiting for MongoDB.
JoinInserts(r, rest) ==
  /\ Answer(r, TRUE) /\ Sent(rest, <<C("insertMember", r)>>)
  /\ known' = known \cup {Credentials(r)}

\* The callback of checkIdMember in joinMember and in idCheckMember; rest are
\* the calls still pending.
OnId(r, found, rest) ==
  LET taken == Taken(ask[r].email, found) IN
  IF ask[r].kind = "join" /\ ~taken
  THEN JoinInserts(r, rest)
  ELSE /\ Answer(r, ask[r].kind = "idCheck" /\ taken)
       /\ Sent(rest, <<>>) /\ UNCHANGED known

\* (mutant) a refused login is not answered
OnLoginSilent(r, found, rest) ==
  /\ Sent(rest, IF found THEN <<C("getIndexMember", r)>> ELSE <<>>)
  /\ UNCHANGED <<answer, known>>

\* The callbacks of loginMember; without an index the browser gets no answer.
OnLogin(r, found, rest) ==
  /\ IF found THEN Sent(rest, <<C("getIndexMember", r)>>) /\ UNCHANGED answer
              ELSE Sent(rest, <<>>) /\ Answer(r, FALSE)
  /\ UNCHANGED known

OnIndex(r, found, rest) ==
  /\ IF found THEN Answer(r, TRUE) ELSE UNCHANGED answer
  /\ Sent(rest, <<>>) /\ UNCHANGED known

OnAnswer(c, found, rest) ==
  /\ CASE c.op = "checkIdMember"    -> OnId(c.req, found, rest)
       [] c.op = "checkLoginMember" -> OnLogin(c.req, found, rest)
       [] c.op = "getIndexMember"   -> OnIndex(c.req, found, rest)
  /\ UNCHANGED inputIndex

\* An answer arrives and runs its callback.
Callback ==
  /\ up /\ failing = <<>> /\ answers # <<>>
  /\ LET c == Head(pending)
         a == Head(answers)
     IN  \/ /\ c.op = "getIndexers" /\ a.seq # None
            /\ inputIndex' = [inputIndex EXCEPT ![c.req] = a.seq]
            /\ Sent(Tail(pending), <<>>) /\ UNCHANGED <<answer, known>>
         \/ /\ c.op = "insertMember"
            /\ Sent(Tail(pending), <<>>) /\ UNCHANGED <<inputIndex, answer, known>>
         \/ /\ c.op \notin {"getIndexers", "insertMember"}
            /\ OnAnswer(c, a.found, Tail(pending))
  /\ answers' = Tail(answers)
  /\ UNCHANGED <<mongo, failing, ask, up, seen, due, lost>>

\* The connection breaks: the server has received some part of what was sent.
\* close() then fails all pending callbacks in one turn of the event loop.
ConnectionLost ==
  /\ Faults /\ up /\ failing = <<>> /\ pending # <<>>
  /\ failing' = pending /\ pending' = <<>> /\ answers' = <<>>
  /\ \E n \in 0..Len(wire) : wire' = SubSeq(wire, 1, n)
  /\ known' = {} /\ due' = {} /\ lost' = TRUE
  /\ UNCHANGED <<mongo, lb, up, seen>>

\* The callbacks of findOne take the error for "not found"; what they send goes
\* to a new connection.
FailFind ==
  /\ up /\ failing # <<>> /\ Head(failing).op \notin {"getIndexers", "insertMember"}
  /\ OnAnswer(Head(failing), FALSE, pending)
  /\ failing' = Tail(failing)
  /\ UNCHANGED <<mongo, answers, ask, up, seen, due, lost>>

\* Those of getIndexers and insertMember throw, which ends the process.
FailThrows ==
  /\ up /\ failing # <<>> /\ Head(failing).op \in {"getIndexers", "insertMember"}
  /\ up' = FALSE /\ failing' = <<>> /\ pending' = <<>> /\ answers' = <<>>
  /\ \E n \in 0..Len(wire) : wire' = SubSeq(wire, 1, n)
  /\ known' = {} /\ due' = {}
  /\ UNCHANGED <<mongo, lb, seen, lost>>

\* The load balancer is started again.
Restart ==
  /\ ~up /\ up' = TRUE
  /\ UNCHANGED <<mongo, wire, pending, answers, failing, lb, hist>>

Next ==
  \/ \E r \in Req, a \in Ask : Post(r, a)
  \/ Execute \/ Callback \/ ConnectionLost \/ FailFind \/ FailThrows \/ Restart

Spec == Init /\ [][Next]_vars

-----------------------------------------------------------------------------
\* Every member document has an index of its own: the answer of getIndexers is
\* there before that of checkIdMember, whatever breaks, and the counter that every
\* registration inserts again is never set back.
OwnIndex ==
  /\ \A d \in members : d.index # None
  /\ \A d, e \in members : d.index = e.index => d = e

\* data.seq is never read of null: the counter is inserted before it is counted.
CounterThere == \A i \in DOMAIN answers : answers[i].seq # None

\* The browser is told of a join before MongoDB has the member; a login that is
\* posted after that is not refused, unless the connection breaks.
LoginAfterJoin == \A r \in due : answer[r] # FALSE

\* No request is forgotten: when no callback is pending, all are answered, unless
\* the connection has broken (the second query of a login then fails without an
\* answer, and a process that ends answers nobody).
NobodyForgotten ==
  pending = <<>> /\ ~lost => \A r \in Req : ask[r] # None => answer[r] # None

\* "사용 가능한 아이디입니다." (the id can be used): the check found no member.
UsableIsFree ==
  \A r \in Req : ask[r] # None /\ ask[r].kind = "idCheck" /\ answer[r] = FALSE => ~seen[r]
=============================================================================
