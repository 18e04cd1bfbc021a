------------------------------ MODULE Catalogue ------------------------------
(***************************************************************************)
(* The image catalogue: the selection page lists, creates and deletes      *)
(* images; the load balancer keeps their entries in MongoDB, on one        *)
(* connection, and sends each command to the VM host on a connection of    *)
(* its own.  The host is ImageHost, which VmManager implements.            *)
(***************************************************************************)
EXTENDS Integers, Sequences

CONSTANTS
  User, Os,   \* os: what the page offers; None when nothing is selected
  MaxReq,     \* bound on the requests posted
  Old,        \* bound on the images there are at first
  Worker, IndexMod,   \* of the host
  Faults,     \* whether something outside may fail, once
  None

ASSUME CatalogueAssumption ==
  /\ MaxReq \in Nat /\ Old \in Nat /\ IndexMod \in Nat \ {0}
  /\ Faults \in BOOLEAN /\ None \notin Nat \cup Os

Req   == 1..MaxReq   \* in the order they are posted
Entry == [index: Nat, id: User, os: Os \cup {None}]
Ask   == [kind: {"list", "create", "delete"}, id: User,
          os: Os \cup {None}, index: Nat \cup {None}]
Op    == {"getIndexers", "insertImage", "deleteImage", "checkImageList"}
Call  == [op: Op, req: Req, index: Nat \cup {None}]
Cmd   == [kind: {"create", "delete"}, os: Os \cup {None},
          index: Nat \cup {None}, id: User]

Reply == [is: {"none", "ok", "list"}, list: SUBSET Entry]
Ok    == [is |-> "ok", list |-> {}]

ASSUME NoneAssumption == None \notin Ask \cup Cmd

VARIABLES
  entries, image_index,    \* MongoDB; the counter is 0 until it is first counted
  wire, pending, answers,  \* commands to MongoDB, calls without callback, answers
  ask, answer,             \* what each request asks and is answered
  shown,                   \* the list each user's page shows
  dial,                    \* commands whose connection to the host is not up yet
  up,                      \* the load balancer runs
  waiting, working, images,  \* the host
  \* History.
  fault,      \* a connection broke, a command failed or the load balancer ended
  overtaken,  \* a delete was carried out before the create of its image
  arrived,    \* requests whose answer the page has handled
  reordered   \* a page got an older list after a newer one

Host == INSTANCE ImageHost WITH Command <- Cmd, Number <- Req

mongo == <<entries, image_index>>
conn  == <<wire, pending, answers>>
host  == <<waiting, working, images>>
page  == <<shown, arrived, reordered>>
vars  == <<mongo, conn, ask, answer, page, dial, up, host, fault, overtaken>>

TypeOK ==
  /\ entries \subseteq Entry /\ image_index \in Nat
  /\ wire \in Seq(Call) /\ pending \in Seq(Call)
  /\ answers \in Seq([seq: Nat, list: SUBSET Entry])
  /\ ask \in [Req -> Ask \cup {None}]
  /\ answer \in [Req -> Reply]
  /\ shown \in [User -> SUBSET Entry]
  /\ dial \subseteq Req \X Cmd /\ waiting \subseteq Req \X Cmd
  /\ working \in [Worker -> Cmd \cup {None}]
  /\ up \in BOOLEAN /\ fault \in BOOLEAN /\ overtaken \in BOOLEAN
  /\ reordered \in BOOLEAN /\ arrived \subseteq Req

Of(u) == {e \in entries : e.id = u}

\* The catalogue of earlier days: n images of one user, all shown.
Init ==
  /\ \E n \in 0..Old, u \in User, o \in Os :
       /\ image_index = n
       /\ entries = {[index |-> i, id |-> u, os |-> o] : i \in 1..n}
  /\ images = {Host!ImageOf(e) : e \in entries}
  /\ shown = [u \in User |-> Of(u)]
  /\ waiting = {} /\ working = [w \in Worker |-> None]
  /\ wire = <<>> /\ pending = <<>> /\ answers = <<>>
  /\ ask = [r \in Req |-> None] /\ answer = [r \in Req |-> [is |-> "none", list |-> {}]]
  /\ dial = {} /\ up = TRUE
  /\ fault = FALSE /\ overtaken = FALSE /\ reordered = FALSE
  /\ arrived = {}

-----------------------------------------------------------------------------
\* A call appended to those still pending.
Call1(rest, op, r, i) ==
  LET c == [op |-> op, req |-> r, index |-> i] IN
  wire' = Append(wire, c) /\ pending' = Append(rest, c)

\* The page asks: a list at any time, a create or a delete of what is selected,
\* or of nothing.  initIndexers and getIndexers go out together and count as one
\* call: no other command comes between them.
Request(r, a) ==
  /\ up /\ \A q \in Req : ask[q] = None <=> q >= r
  /\ ask' = [ask EXCEPT ![r] = a]
  /\ Call1(pending, CASE a.kind = "list"   -> "checkImageList"
                      [] a.kind = "create" -> "getIndexers"
                      [] a.kind = "delete" -> "deleteImage", r, a.index)
  /\ UNCHANGED <<mongo, answers, answer, dial, host, up, fault, overtaken>>

Asked(kind, u, os, i) == [kind |-> kind, id |-> u, os |-> os, index |-> i]

requestOSList(r, u) == Request(r, Asked("list", u, None, None))

Click(r, u) ==
  /\ \/ requestOSList(r, u)
     \/ \E os \in Os \cup {None} : Request(r, Asked("create", u, os, None))
     \/ \E e \in shown[u] : Request(r, Asked("delete", u, e.os, e.index))
     \/ Request(r, Asked("delete", u, None, None))
  /\ UNCHANGED page

-----------------------------------------------------------------------------
\* (mutant) the counter is set back by every create
getIndexersReset == 1

\* initIndexers makes the counter unless it is there; getIndexers counts.
getIndexers == image_index + 1

Document(c) == [index |-> c.index, id |-> ask[c.req].id, os |-> ask[c.req].os]

\* (mutant) the index is compared as the string it comes as
deleteImageString(c) == entries

deleteImage(c) == entries \ {Document(c)}

\* What the callback of a call gets to know.
Result(c) ==
  [seq  |-> IF c.op = "getIndexers" THEN getIndexers ELSE 0,
   list |-> IF c.op = "checkImageList" THEN Of(ask[c.req].id) ELSE {}]

\* MongoDB executes the next command; only a pending call gets its answer.
Execute ==
  /\ wire # <<>>
  /\ LET c == Head(wire) IN
     /\ image_index' = IF c.op = "getIndexers" THEN getIndexers ELSE image_index
     /\ entries' = CASE c.op = "insertImage" -> entries \cup {Document(c)}
                     [] c.op = "deleteImage" -> deleteImage(c)
                     [] OTHER -> entries
     /\ answers' = IF \E i \in DOMAIN pending : pending[i] = c
                   THEN Append(answers, Result(c)) ELSE answers
  /\ wire' = Tail(wire)
  /\ UNCHANGED <<pending, ask, answer, page, dial, up, host, fault, overtaken>>

-----------------------------------------------------------------------------
Command(kind, r, i) ==
  <<r, [kind |-> kind, os |-> ask[r].os, index |-> i, id |-> ask[r].id]>>

Answer(r, a) == answer' = [answer EXCEPT ![r] = a]

\* (mutant) the counter is asked for before it is there
OnIndexUndefined(r, i, rest) ==
  /\ Call1(rest, "insertImage", r, None)
  /\ dial' = dial \cup {Command("create", r, None)}
  /\ Answer(r, Ok)

\* The callback of getIndexers: the entry, the command and the answer go out
\* together.
OnIndex(r, i, rest) ==
  /\ Call1(rest, "insertImage", r, i)
  /\ dial' = dial \cup {Command("create", r, i)}
  /\ Answer(r, Ok)

\* (mutant) the image stays
OnDeletedOnly(r, rest) ==
  /\ dial' = dial
  /\ Answer(r, Ok) /\ pending' = rest /\ UNCHANGED wire

\* The callback of deleteImage, whether an entry was removed or not.
OnDeleted(r, rest) ==
  /\ dial' = dial \cup {Command("delete", r, ask[r].index)}
  /\ Answer(r, Ok) /\ pending' = rest /\ UNCHANGED wire

\* (mutant) an empty list is not answered
OnListNonEmpty(r, l, rest) ==
  /\ IF l = {} THEN UNCHANGED answer ELSE Answer(r, [is |-> "list", list |-> l])
  /\ pending' = rest /\ UNCHANGED <<wire, dial>>

OnList(r, l, rest) ==
  /\ Answer(r, [is |-> "list", list |-> l])
  /\ pending' = rest /\ UNCHANGED <<wire, dial>>

Callback ==
  /\ up /\ answers # <<>>
  /\ LET c == Head(pending)
         rest == Tail(pending)
     IN  \/ c.op = "getIndexers" /\ OnIndex(c.req, Head(answers).seq, rest)
         \/ c.op = "deleteImage" /\ OnDeleted(c.req, rest)
         \/ c.op = "checkImageList" /\ OnList(c.req, Head(answers).list, rest)
         \/ c.op = "insertImage" /\ pending' = rest /\ UNCHANGED <<wire, dial, answer>>
  /\ answers' = Tail(answers)
  /\ UNCHANGED <<mongo, ask, page, up, host, fault, overtaken>>

-----------------------------------------------------------------------------
\* (mutant) a list is not asked for after a create or delete
SuccessQuiet(r) ==
  /\ answer[r].is = "ok"
  /\ UNCHANGED <<mongo, conn, ask, answer, dial, host, up, fault, overtaken>>
  /\ UNCHANGED <<shown, reordered>>

\* The page's success handlers: a create or a delete asks for the list,
Success(r) ==
  /\ answer[r].is = "ok"
  /\ \E q \in Req : requestOSList(q, ask[r].id)
  /\ UNCHANGED <<shown, reordered>>

\* a list replaces what is shown; answers arrive in any order.
Newer(r) == {q \in arrived : q > r /\ ask[q].kind = "list" /\ ask[q].id = ask[r].id}

ShowList(r) ==
  /\ answer[r].is = "list"
  /\ shown' = [shown EXCEPT ![ask[r].id] = answer[r].list]
  /\ reordered' = (reordered \/ Newer(r) # {})
  /\ UNCHANGED <<mongo, conn, ask, answer, dial, host, up, fault, overtaken>>

Arrive(r) ==
  /\ r \notin arrived /\ arrived' = arrived \cup {r}
  /\ Success(r) \/ ShowList(r)

-----------------------------------------------------------------------------
MayFail == Faults /\ ~fault

\* The load balancer ends: an exception that nothing catches.  Some part of what
\* it sent has reached MongoDB.
Crash ==
  /\ up' = FALSE /\ fault' = TRUE
  /\ pending' = <<>> /\ answers' = <<>> /\ dial' = {}
  /\ \E n \in 0..Len(wire) : wire' = SubSeq(wire, 1, n)

Restart ==
  /\ ~up /\ up' = TRUE
  /\ UNCHANGED <<mongo, conn, ask, answer, page, dial, host, fault, overtaken>>

\* The connection to the host is up and the command is written; toString of an
\* os or an index that is undefined throws.
Connected(d) ==
  /\ up /\ d \in dial
  /\ IF None \in {d[2].os, d[2].index}
     THEN Crash /\ UNCHANGED host
     ELSE /\ Host!Send(d[1], d[2])
          /\ dial' = dial \ {d}
          /\ UNCHANGED <<conn, up, fault>>
  /\ UNCHANGED <<mongo, ask, answer, page, overtaken>>

ConnectFails(d) ==
  /\ MayFail /\ up /\ d \in dial
  /\ dial' = dial \ {d} /\ fault' = TRUE
  /\ UNCHANGED <<mongo, conn, ask, answer, page, up, host, overtaken>>

\* The connection to MongoDB breaks: pending callbacks get the error.  That of
\* checkImageList logs it and answers nothing; the others throw.
ConnectionLost ==
  /\ MayFail /\ up /\ pending # <<>>
  /\ IF \E i \in DOMAIN pending : pending[i].op # "checkImageList"
     THEN Crash
     ELSE /\ fault' = TRUE /\ pending' = <<>> /\ answers' = <<>>
          /\ \E n \in 0..Len(wire) : wire' = SubSeq(wire, 1, n)
          /\ UNCHANGED <<up, dial>>
  /\ UNCHANGED <<mongo, ask, answer, page, host, overtaken>>

-----------------------------------------------------------------------------
\* Creates of index i on their way.
Creating(i) ==
  {c \in {m[2] : m \in dial \cup waiting} \cup {working[w] : w \in Worker} :
     c # None /\ c.kind = "create" /\ c.index = i}

HostStep ==
  /\ \/ \E m \in waiting, w \in Worker :
          Host!Take(m, w) /\ UNCHANGED <<fault, overtaken>>
     \/ MayFail /\ (\E m \in waiting : Host!Drop(m))
        /\ fault' = TRUE /\ UNCHANGED overtaken
     \/ \E w \in Worker :
          /\ Host!Finish(w, TRUE)
          /\ overtaken' = (overtaken \/ (working[w].kind = "delete"
                                         /\ Creating(working[w].index) # {}))
          /\ UNCHANGED fault
     \/ MayFail /\ (\E w \in Worker : Host!Finish(w, FALSE))
        /\ fault' = TRUE /\ UNCHANGED overtaken
  /\ UNCHANGED <<mongo, conn, ask, answer, page, dial, up>>

Next ==
  \/ \E r \in Req, u \in User : Click(r, u)
  \/ Execute \/ Callback \/ Restart \/ ConnectionLost \/ HostStep
  \/ \E r \in Req : Arrive(r)
  \/ \E d \in dial : Connected(d) \/ ConnectFails(d)

Spec == Init /\ [][Next]_vars

\* MongoDB and the event loop go on.
FairSpec == Spec /\ WF_vars(Execute) /\ WF_vars(Callback)

-----------------------------------------------------------------------------
\* The catalogue and the host agree when nothing is under way: an entry for each
\* image and an image for each entry.  The three effects of a create and the two
\* of a delete have no common outcome, so this takes that nothing failed and that
\* no delete overtook its create; and the host tells only IndexMod indices apart.
CatalogueMatchesHost ==
  /\ pending = <<>> /\ dial = {} /\ waiting = {} /\ \A w \in Worker : working[w] = None
  /\ ~fault /\ ~overtaken /\ image_index <= IndexMod
  => images = {Host!ImageOf(e) : e \in entries}

\* The page asks for the list as soon as it is told of a create, before MongoDB
\* may have the entry; still, when all its answers are in, it shows its user's
\* entries, unless answers to lists overtook each other or a connection broke.
ShownIsCurrent ==
  ~fault /\ ~reordered =>
    \A u \in User :
      (\A r \in Req : ask[r] # None /\ ask[r].id = u => r \in arrived)
        => shown[u] = Of(u)

\* A delete that was answered has removed its entry for good, whatever breaks: no
\* insert of the entry is still under way when a page shows it.
DeletedStaysGone ==
  \A r \in Req : ask[r] # None /\ ask[r].kind = "delete" /\ answer[r].is = "ok"
    => \A e \in entries : e.index # ask[r].index

\* A create never finds a file of its name, which qemu-img would overwrite: indices
\* are counted in MongoDB and survive every crash.  After IndexMod images they are
\* used again.
NoOverwrite ==
  [][\A w \in Worker :
       working[w] # None /\ working'[w] = None /\ working[w].kind = "create"
         /\ image_index <= IndexMod
       => Host!ImageOf(working[w]) \notin images]_vars

\* Every request is answered, unless a connection breaks or the load balancer ends.
EveryRequestAnswered ==
  \A r \in Req : ask[r] # None ~> (answer[r].is # "none" \/ fault)
=============================================================================
