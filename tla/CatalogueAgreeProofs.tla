------------------------ MODULE CatalogueAgreeProofs ------------------------
(***************************************************************************)
(* Proofs that MongoDB, the host and the pages of Catalogue agree when all *)
(* is done: before that, an entry has its image or one is being made,      *)
(* MongoDB answers the lists in the order they were asked for, and         *)
(* whatever a page does not show yet is in an answer it has still to get.  *)
(***************************************************************************)
EXTENDS CatalogueProofs

\* A leaf is tried with Zenon first, then with the SMT solver.
USE ZenonT(20), SMTT(30)

-----------------------------------------------------------------------------
\* Entries that are there or will be inserted; entries whose image is to be deleted;
\* images that are being made.
DocOf(c, a) == [index |-> c.index, id |-> a.id, os |-> a.os]
Removed == {j \in 1..Len(answers) : pending[j].op = "deleteImage" /\ pending[j].index # None}
Coming  == entries \cup {DocOf(wire[i], ask[wire[i].req]) : i \in Inserts}
Deleted  == {DocOf(pending[j], ask[pending[j].req]) : j \in Removed}
Deleting == {Doc(c) : c \in {x \in Orders : IsDelete(x)}}
Leaving  == Deleted \cup Deleting
Made    == {Doc(c) : c \in {x \in Orders : IsCreate(x)}}

\* An entry that is there, or coming, has its image, or that is being made; an image
\* without one is being deleted.
Fine == ~fault /\ ~overtaken /\ image_index <= IndexMod
AgreeInv == Fine =>
  /\ \A e \in Coming : e \notin Leaving /\ (Host!ImageOf(e) \in images \/ e \in Made)
  /\ \A f \in images : \E e \in Coming \cup Leaving : Host!ImageOf(e) = f
  /\ Made \subseteq Coming \cup Leaving

\* The members of these sets, now and in the next state.
LEMMA ComingMember ==
  /\ \A e : e \in Coming <=> \/ e \in entries
                             \/ \E i \in Inserts : e = DocOf(wire[i], ask[wire[i].req])
  /\ \A e : e \in Coming' <=> \/ e \in entries'
                              \/ \E i \in Inserts' : e = DocOf(wire'[i], ask'[wire'[i].req])
BY DEF Coming

LEMMA DeletedMember ==
  /\ \A e : e \in Deleted <=> \E j \in Removed : e = DocOf(pending[j], ask[pending[j].req])
  /\ \A e : e \in Deleted' <=> \E j \in Removed' : e = DocOf(pending'[j], ask'[pending'[j].req])
BY DEF Deleted

LEMMA DeletingMember ==
  /\ \A e : e \in Deleting <=> \E c \in Orders : IsDelete(c) /\ e = Doc(c)
  /\ \A e : e \in Deleting' <=> \E c \in Orders' : IsDelete(c) /\ e = Doc(c)
BY DEF Deleting

LEMMA MadeMember ==
  /\ \A e : e \in Made <=> \E c \in Orders : IsCreate(c) /\ e = Doc(c)
  /\ \A e : e \in Made' <=> \E c \in Orders' : IsCreate(c) /\ e = Doc(c)
BY DEF Made

\* What leaves was asked for by a page, and what comes has an index of its own.
LEMMA AgreeFacts ==
  ASSUME BaseInv, EntryInv, HostInv
  PROVE  /\ \A e \in Leaving : e \in Known
         /\ \A e \in Coming : e.index \in 1..image_index /\ \A g \in Known : e.index = g.index => e = g
         /\ \A e \in Leaving : e.index \in 1..image_index
<1>1. ASSUME NEW e \in Leaving PROVE e \in Known
  <2>1. CASE \E c \in Orders : IsDelete(c) /\ e = Doc(c)
    BY <2>1, KnownParts DEF HostInv, OrderInv, DeleteAsked
  <2>2. ASSUME NEW j \in Removed, e = DocOf(pending[j], ask[pending[j].req]) PROVE e \in Known
    <3> DEFINE c == pending[j]
    <3>1. j \in 1..Len(pending) /\ c.op = "deleteImage" /\ c.index # None
      BY SMTT(30), LengthFacts DEF Removed
    <3>2. c \in Call /\ CallOK(c)
      BY <3>1, HeadFacts
    <3>3. c.req \in Req /\ ask[c.req] # None /\ ask[c.req].kind = "delete" /\ c.index = ask[c.req].index
      BY <3>1, <3>2, CallFacts DEF BaseInv, CallOK, CallFits
    <3>4. c.req \in Deletions(ask) /\ e = Doc(ask[c.req])
      BY <2>2, <3>1, <3>3 DEF Deletions, DocOf, Doc
    <3> QED BY <3>4, KnownParts
  <2> QED BY <2>1, <2>2, DeletedMember, DeletingMember DEF Leaving
<1>2. ASSUME NEW e \in Coming
      PROVE  e.index \in 1..image_index /\ \A g \in Known : e.index = g.index => e = g
  <2>1. CASE e \in entries
    BY <2>1, KnownParts DEF EntryInv, IndexInv
  <2>2. ASSUME NEW i \in Inserts, e = DocOf(wire[i], ask[wire[i].req])
        PROVE  e.index \in 1..image_index /\ \A g \in Known : e.index = g.index => e = g
    <3>1. e.index = wire[i].index
      BY <2>2 DEF DocOf
    <3> QED BY <3>1 DEF EntryInv, IndexInv
  <2> QED BY <2>1, <2>2, ComingMember
<1>3. \A e \in Leaving : e.index \in 1..image_index
  BY <1>1 DEF EntryInv, IndexInv
<1> QED BY <1>1, <1>2, <1>3

\* Entries with different indices have different files.
LEMMA ImagesApart ==
  ASSUME image_index \in Nat, image_index <= IndexMod,
         NEW e, NEW g, e.index \in 1..image_index, g.index \in 1..image_index,
         Host!ImageOf(e) = Host!ImageOf(g)
  PROVE  e.index = g.index
<1>1. e.index \in 1..IndexMod /\ g.index \in 1..IndexMod
  BY SMTT(30), CatalogueAssumption
<1>2. e.index % IndexMod = g.index % IndexMod
  <2>1. /\ Host!ImageOf(e).index = e.index % IndexMod
        /\ Host!ImageOf(g).index = g.index % IndexMod
    BY DEF Host!ImageOf
  <2> QED BY <2>1
<1> QED BY <1>1, <1>2, ModApart

LEMMA PostsFlags ==
  ASSUME NEW r \in Req, NEW a \in Ask, Posts(r, a)
  PROVE  fault' = fault /\ overtaken' = overtaken
BY DEF Posts

LEMMA FineBefore == BaseInv /\ [Next]_vars /\ Fine' => Fine
<1> SUFFICES ASSUME BaseInv, [Next]_vars, Fine' PROVE Fine
  OBVIOUS
<1>1. image_index <= IndexMod
  <2>1. image_index \in Nat /\ image_index' \in Nat /\ image_index <= image_index'
    BY CountSteps DEF CountKept
  <2>2. image_index' <= IndexMod /\ IndexMod \in Nat
    BY CatalogueAssumption DEF Fine
  <2> QED BY SMTT(30), <2>1, <2>2
<1>2. ~fault' /\ ~overtaken'
  BY DEF Fine
<1>3. ~fault /\ ~overtaken
  <2>1. CASE \E r \in Req, a \in Ask : Posts(r, a)
    BY <1>2, <2>1, PostsFlags
  <2>2. CASE Execute
    BY <1>2, <2>2 DEF Execute
  <2>3. CASE Callback
    BY <1>2, <2>3 DEF Callback
  <2>4. CASE \E r \in Req : Shows(r)
    BY SMTT(30), <1>2, <2>4 DEF Shows, ShowList
  <2>5. CASE Breaks
    BY <1>2, <2>5 DEF Breaks
  <2>6. CASE Quiet /\ HostStep
    <3>1. CASE UNCHANGED overtaken
      BY <1>2, <2>6, <3>1 DEF Quiet
    <3>2. ASSUME NEW x, overtaken' = (overtaken \/ x) PROVE ~fault /\ ~overtaken
      BY <1>2, <2>6, <3>2 DEF Quiet
    <3>3. UNCHANGED overtaken \/ \E w \in Worker :
            overtaken' = (overtaken \/ (working[w].kind = "delete" /\ Creating(working[w].index) # {}))
      BY <2>6 DEF HostStep
    <3> QED BY <3>1, <3>2, <3>3
  <2>7. CASE Quiet /\ ((\E d \in dial : Sends(d) \/ Fails(d)) \/ Rests)
    BY SMTT(30), <1>2, <2>7 DEF Quiet, Sends, Fails, Rests
  <2> QED BY <2>1, <2>2, <2>3, <2>4, <2>5, <2>6, <2>7, Steps DEF BaseInv
<1> QED BY <1>1, <1>3 DEF Fine

LEMMA AgreeKept ==
  ASSUME AgreeInv, Fine, Coming' = Coming, Leaving' = Leaving, Made' = Made, images' = images
  PROVE  AgreeInv'
BY DEF AgreeInv

LEMMA CallsSame ==
  ASSUME UNCHANGED <<entries, wire, pending, answers, ask>>
  PROVE  Coming' = Coming /\ Deleted' = Deleted
<1>1. Inserts' = Inserts /\ Removed' = Removed
  BY DEF Inserts, Removed
<1> QED BY <1>1 DEF Coming, Deleted

LEMMA OrdersSame ==
  ASSUME \A c : c # None => (c \in Orders' <=> c \in Orders)
  PROVE  Deleting' = Deleting /\ Made' = Made
<1>1. \A c : IsDelete(c) \/ IsCreate(c) => c # None
  BY DEF IsDelete, IsCreate
<1>2. \A e : e \in Deleting' <=> e \in Deleting
  BY <1>1, DeletingMember
<1>3. \A e : e \in Made' <=> e \in Made
  BY <1>1, MadeMember
<1> QED BY <1>2, <1>3

LEMMA PostsAgree ==
  ASSUME BaseInv, NEW r \in Req, NEW a \in Ask, Posts(r, a)
  PROVE  Coming' = Coming /\ Deleted' = Deleted
<1> DEFINE n == NewCall(r, a)
<1>1. n.op # "insertImage"
  BY NewCallType, FirstOps
<1>2. /\ Len(wire') = Len(wire) + 1 /\ wire'[Len(wire) + 1] = n
      /\ \A i \in 1..Len(wire) : wire'[i] = wire[i]
  BY PostsGrow DEF Grown
<1>3. /\ Len(pending') = Len(pending) + 1 /\ \A i \in 1..Len(pending) : pending'[i] = pending[i]
  BY PostsGrow DEF Grown
<1>4. Len(wire) \in Nat /\ Len(pending) \in Nat /\ Len(answers) \in Nat /\ Len(answers) <= Len(pending)
  BY HeadFacts
<1>5. /\ \A i \in 1..Len(wire) : ask'[wire[i].req] = ask[wire[i].req]
      /\ \A i \in 1..Len(pending) : ask'[pending[i].req] = ask[pending[i].req]
  <2>1. /\ \A i \in 1..Len(wire) : wire[i].req \in Req /\ wire[i].req # r
        /\ \A i \in 1..Len(pending) : pending[i].req \in Req /\ pending[i].req # r
    BY PostsFresh, HeadFacts DEF Call
  <2> QED BY <2>1, PostsFresh
<1>6. 1..Len(wire') = 1..Len(wire) \cup {Len(wire) + 1} /\ 1..Len(answers) \subseteq 1..Len(pending)
  BY SMTT(30), <1>2, <1>4
<1>7. entries' = entries /\ answers' = answers
  BY PostsGrow
<1>8. Inserts' = Inserts
  BY <1>1, <1>2, <1>6 DEF Inserts
<1>9. Removed' = Removed
  BY <1>3, <1>6, <1>7 DEF Removed
<1>10. ASSUME NEW i \in Inserts
       PROVE  DocOf(wire'[i], ask'[wire'[i].req]) = DocOf(wire[i], ask[wire[i].req])
  BY <1>2, <1>5 DEF Inserts
<1>11. ASSUME NEW j \in Removed
       PROVE  DocOf(pending'[j], ask'[pending'[j].req]) = DocOf(pending[j], ask[pending[j].req])
  BY <1>3, <1>5, <1>6 DEF Removed
<1>12. \A e : e \in Coming' <=> e \in Coming
  BY SMTT(30), <1>7, <1>8, <1>10, ComingMember
<1>13. \A e : e \in Deleted' <=> e \in Deleted
  BY SMTT(30), <1>9, <1>11, DeletedMember
<1> QED BY <1>12, <1>13

\* What MongoDB executes: an insert only moves its entry, a delete its own.
LEMMA ExecuteAgree ==
  ASSUME BaseInv, EntryInv, Execute, ~fault
  PROVE  LET c == wire[1]
             d == DocOf(c, ask[c.req])
         IN  /\ c.op # "deleteImage" => Coming' = Coming /\ Deleted' = Deleted
             /\ c.op = "deleteImage" =>
                  /\ \A e \in Coming' : e \in Coming /\ (c.index # None => e # d)
                  /\ \A e \in Coming : e \in Coming' \/ e \in Deleted'
                  /\ \A e \in Deleted' : e \in Deleted \/ (c.index # None /\ e = d)
                  /\ \A e \in Deleted : e \in Deleted'
<1> DEFINE c == wire[1]
           d == DocOf(c, ask[c.req])
           l == Len(answers)
<1>1. /\ 1 \in 1..Len(wire) /\ c \in Call /\ CallOK(c) /\ Shifted(wire, wire')
      /\ l + 1 \in 1..Len(pending) /\ pending[l + 1] = c /\ Grown(answers, answers', Result(c))
      /\ UNCHANGED <<pending, ask>>
  BY ExecuteQueues DEF BaseInv, QueueInv
<1>2. d = Document(c)
  BY DEF DocOf, Document
<1>3. Len(answers') = l + 1 /\ l \in Nat /\ Len(wire) \in Nat
  BY <1>1, HeadFacts DEF Grown
<1>4. 1..Len(answers') = 1..l \cup {l + 1} /\ l + 1 \notin 1..l
  BY SMTT(30), <1>3
<1>5. /\ c.op = "deleteImage" /\ c.index # None => Removed' = Removed \cup {l + 1}
      /\ ~(c.op = "deleteImage" /\ c.index # None) => Removed' = Removed
  BY <1>1, <1>4 DEF Removed
<1>6. \A e : e \in Deleted' <=> e \in Deleted \/ (c.op = "deleteImage" /\ c.index # None /\ e = d)
  <2>1. pending' = pending /\ ask' = ask /\ DocOf(pending[l + 1], ask[pending[l + 1].req]) = d
    BY <1>1
  <2> HIDE DEF d, c, l
  <2> QED BY <1>5, <2>1, DeletedMember
<1>7. \A i \in Inserts' : i + 1 \in Inserts /\ wire'[i] = wire[i + 1]
  BY SMTT(30), <1>1, <1>3 DEF Inserts, Shifted
<1>8. \A k \in Inserts : k # 1 => k - 1 \in Inserts' /\ wire'[k - 1] = wire[k]
  BY SMTT(30), <1>1, <1>3 DEF Inserts, Shifted
<1>9. \A e : e \in Coming' <=> \/ e \in entries'
                              \/ \E k \in Inserts : k # 1 /\ e = DocOf(wire[k], ask[wire[k].req])
  <2>1. \A i \in Inserts' : i + 1 # 1
    BY SMTT(30), <1>3 DEF Inserts
  <2>2. ASSUME NEW i \in Inserts'
        PROVE  \E k \in Inserts : k # 1 /\ DocOf(wire'[i], ask'[wire'[i].req]) = DocOf(wire[k], ask[wire[k].req])
    BY <1>1, <1>7, <2>1
  <2>3. ASSUME NEW k \in Inserts, k # 1
        PROVE  \E i \in Inserts' : DocOf(wire'[i], ask'[wire'[i].req]) = DocOf(wire[k], ask[wire[k].req])
    BY <1>1, <1>8, <2>3
  <2> QED BY SMTT(30), <2>2, <2>3, ComingMember
<1>10. /\ c.op = "insertImage" => entries' = entries \cup {d}
       /\ c.op = "deleteImage" => entries' = entries \ {d}
       /\ c.op \notin {"insertImage", "deleteImage"} => entries' = entries
  <2>1. Head(wire) = c
    BY HeadFacts DEF Execute
  <2> QED BY <1>2, <2>1 DEF Execute, deleteImage
<1>11. c.op = "insertImage" <=> 1 \in Inserts
  BY <1>1 DEF Inserts
<1>12. ASSUME c.op # "deleteImage" PROVE Coming' = Coming /\ Deleted' = Deleted
  <2>1. \A e : e \in Deleted' <=> e \in Deleted
    BY <1>6, <1>12
  <2>2. CASE c.op = "insertImage"
    <3>1. \A e : e \in Coming' <=> e \in Coming
      BY <1>9, <1>10, <1>11, <2>2, ComingMember
    <3> QED BY <2>1, <3>1
  <2>3. CASE c.op # "insertImage"
    <3>1. entries' = entries /\ 1 \notin Inserts
      BY <1>10, <1>11, <1>12, <2>3
    <3>2. \A e : e \in Coming' <=> e \in Coming
      BY <1>9, <3>1, ComingMember
    <3> QED BY <2>1, <3>2
  <2> QED BY <2>2, <2>3
<1>13. ASSUME c.op = "deleteImage"
       PROVE  /\ \A e \in Coming' : e \in Coming /\ (c.index # None => e # d)
              /\ \A e \in Coming : e \in Coming' \/ e \in Deleted'
              /\ \A e \in Deleted' : e \in Deleted \/ (c.index # None /\ e = d)
              /\ \A e \in Deleted : e \in Deleted'
  <2>1. entries' = entries \ {d} /\ 1 \notin Inserts
    BY <1>10, <1>11, <1>13
  <2>2. \A e \in Coming' : e \in Coming
    BY <1>9, <2>1, ComingMember
  <2>3. ASSUME c.index # None PROVE d \in Known
    <3>1. c.req \in Req /\ ask[c.req] # None /\ ask[c.req].kind = "delete" /\ c.index = ask[c.req].index
      BY <1>1, <1>13, CallFacts DEF BaseInv, CallOK, CallFits
    <3>2. c.req \in Deletions(ask) /\ d = Doc(ask[c.req])
      BY <2>3, <3>1 DEF Deletions, DocOf, Doc
    <3> QED BY <3>2, KnownParts
  <2>4. ASSUME NEW e \in Coming', c.index # None PROVE e # d
    <3>1. CASE e \in entries'
      BY <2>1, <3>1
    <3>2. ASSUME NEW k \in Inserts, e = DocOf(wire[k], ask[wire[k].req]) PROVE e # d
      <4>1. e.index = wire[k].index
        BY <3>2 DEF DocOf
      <4> QED BY <2>3, <2>4, <4>1 DEF EntryInv, IndexInv
    <3> QED BY <1>9, <3>1, <3>2
  <2>5. ASSUME NEW e \in Coming PROVE e \in Coming' \/ e \in Deleted'
    <3>1. CASE e = d /\ e \in entries
      <4>1. e.index \in Nat /\ e.index = c.index
        BY <3>1, KnownParts, KnownTypes DEF BaseInv, DocOf
      <4>2. c.index # None
        BY <4>1, CatalogueAssumption
      <4> QED BY <1>6, <1>13, <3>1, <4>2
    <3> QED BY <1>9, <2>1, <3>1, ComingMember
  <2> QED BY <1>6, <1>13, <2>2, <2>4, <2>5
<1> QED BY <1>12, <1>13

\* What a callback does: the entry and the command of a create go out together, and
\* so does the command of a delete that was executed.
LEMMA CallbackAgree ==
  ASSUME BaseInv, EntryInv, Callback
  PROVE  LET c == pending[1]
             d == DocOf(c, ask[c.req])
             n == [index |-> answers[1].seq, id |-> ask[c.req].id, os |-> ask[c.req].os]
         IN  /\ c.op = "getIndexers" => /\ Deleted' = Deleted
                                        /\ \A e : e \in Coming' <=> e \in Coming \/ e = n
             /\ c.op # "getIndexers" => Coming' = Coming
             /\ c.op = "deleteImage" /\ c.index # None =>
                  \A e : e \in Deleted <=> e \in Deleted' \/ e = d
             /\ c.op # "deleteImage" \/ c.index = None => Deleted' = Deleted
<1> DEFINE c == pending[1]
           d == DocOf(c, ask[c.req])
           n == [index |-> answers[1].seq, id |-> ask[c.req].id, os |-> ask[c.req].os]
           x == [op |-> "insertImage", req |-> c.req, index |-> answers[1].seq]
<1>1. /\ Shifted(answers, answers') /\ Shifted(pending, Tail(pending)) /\ 1 \in 1..Len(answers)
      /\ UNCHANGED <<entries, ask>>
      /\ \/ /\ c.op = "getIndexers" /\ Grown(wire, wire', x) /\ Grown(Tail(pending), pending', x)
         \/ c.op # "getIndexers" /\ wire' = wire /\ pending' = Tail(pending)
  BY CallbackQueues, CallbackFacts, CallbackKnown
<1>2. Len(answers) \in Nat \ {0} /\ Len(answers') = Len(answers) - 1 /\ Len(pending) \in Nat
      /\ Len(answers) <= Len(pending) /\ Len(wire) \in Nat
  BY <1>1, HeadFacts DEF Shifted
<1>3. \A j \in Removed' : j + 1 \in Removed /\ j + 1 # 1 /\ pending'[j] = pending[j + 1]
  BY CallbackPlaces DEF Removed
<1>4. \A k \in 1..Len(answers) : k # 1 => k - 1 \in 1..Len(answers') /\ (k - 1) + 1 = k
  BY SMTT(30), <1>2
<1>5. \A k \in Removed : k # 1 => k - 1 \in Removed' /\ pending'[k - 1] = pending[k]
  <2> SUFFICES ASSUME NEW k \in Removed, k # 1 PROVE k - 1 \in Removed' /\ pending'[k - 1] = pending[k]
    OBVIOUS
  <2>1. k - 1 \in 1..Len(answers') /\ (k - 1) + 1 = k
    BY <1>4 DEF Removed
  <2>2. pending'[k - 1] = pending[k]
    BY <2>1, CallbackPlaces
  <2> QED BY <2>1, <2>2 DEF Removed
<1>6. \A e : e \in Deleted' <=> \E k \in Removed : k # 1 /\ e = DocOf(pending[k], ask[pending[k].req])
  <2>1. ASSUME NEW j \in Removed'
        PROVE  \E k \in Removed : k # 1 /\ DocOf(pending'[j], ask'[pending'[j].req])
                                             = DocOf(pending[k], ask[pending[k].req])
    BY <1>1, <1>3
  <2>2. ASSUME NEW k \in Removed, k # 1
        PROVE  \E j \in Removed' : DocOf(pending'[j], ask'[pending'[j].req])
                                     = DocOf(pending[k], ask[pending[k].req])
    BY <1>1, <1>5, <2>2
  <2> QED BY SMTT(30), <2>1, <2>2, DeletedMember
<1>7. 1 \in Removed <=> c.op = "deleteImage" /\ c.index # None
  BY <1>1 DEF Removed
<1>8. ASSUME c.op # "deleteImage" \/ c.index = None PROVE Deleted' = Deleted
  <2>1. \A e : e \in Deleted' <=> e \in Deleted
    BY <1>6, <1>7, <1>8, DeletedMember
  <2> QED BY <2>1
<1>9. ASSUME c.op = "deleteImage" /\ c.index # None
      PROVE  \A e : e \in Deleted <=> e \in Deleted' \/ e = d
  BY <1>6, <1>7, <1>9, DeletedMember
<1>10. ASSUME c.op # "getIndexers" PROVE Coming' = Coming
  <2>1. wire' = wire /\ Inserts' = Inserts
    BY <1>10, CallbackPlaces
  <2>2. \A e : e \in Coming' <=> e \in Coming
    BY SMTT(30), <1>1, <2>1, ComingMember
  <2> QED BY <2>2
<1>11. ASSUME c.op = "getIndexers" PROVE \A e : e \in Coming' <=> e \in Coming \/ e = n
  <2>1. /\ Len(wire') = Len(wire) + 1 /\ wire'[Len(wire) + 1] = x
        /\ \A i \in 1..Len(wire) : wire'[i] = wire[i]
    BY <1>1, <1>11 DEF Grown
  <2>2. 1..Len(wire') = 1..Len(wire) \cup {Len(wire) + 1}
    BY SMTT(30), <1>2, <2>1
  <2>3. Inserts' = Inserts \cup {Len(wire) + 1} /\ \A i \in Inserts : wire'[i] = wire[i]
    BY SMTT(30), <2>1, <2>2 DEF Inserts
  <2>4. DocOf(x, ask[x.req]) = n
    BY DEF DocOf
  <2> HIDE DEF x, n
  <2> QED BY SMTT(30), <1>1, <2>1, <2>3, <2>4, ComingMember
<1> QED BY <1>8, <1>9, <1>10, <1>11

LEMMA IssuesAgree ==
  ASSUME BaseInv, EntryInv, HostInv, AgreeInv, Fine, [Next]_vars, NEW c, NEW m, Issues(c, m)
  PROVE  AgreeInv'
<1> DEFINE d == Doc(m[2])
<1>1. /\ Orders' = Orders \cup {m[2]} /\ m \in Req \X Cmd /\ c.req \in Req
      /\ m[2].os = ask[c.req].os /\ m[2].id = ask[c.req].id
  BY IssuesOrder DEF HostInv
<1>2. c = pending[1] /\ Callback /\ images' = images
  BY DEF Issues, host
<1>3. CASE c.op = "getIndexers"
  <2>1. m[2].kind = "create" /\ m[2].index = answers[1].seq /\ 1 \in Counts /\ IsCreate(m[2])
    BY <1>3, IssuesOrder DEF HostInv
  <2>2. d = [index |-> answers[1].seq, id |-> ask[c.req].id, os |-> ask[c.req].os]
    BY <1>1, <2>1 DEF Doc
  <2>3. Deleted' = Deleted /\ \A e : e \in Coming' <=> e \in Coming \/ e = d
    BY <1>2, <1>3, <2>2, CallbackAgree
  <2>4. ~IsDelete(m[2])
    BY <2>1 DEF IsDelete
  <2>5. \A e : e \in Deleting' <=> e \in Deleting
    BY <1>1, <2>4, DeletingMember
  <2>6. \A e : e \in Made' <=> e \in Made \/ e = d
    BY <1>1, <2>1, MadeMember
  <2>7. d \notin Leaving
    <3>1. d.index = answers[1].seq
      BY SMTT(30), <2>2
    <3>2. \A e \in Known : e.index # answers[1].seq
      BY <2>1 DEF EntryInv, IndexInv
    <3> QED BY <3>1, <3>2, AgreeFacts
  <2>8. \A e : e \in Leaving' <=> e \in Leaving
    BY <2>3, <2>5 DEF Leaving
  <2> HIDE DEF d
  <2> QED BY <1>2, <2>3, <2>6, <2>7, <2>8 DEF AgreeInv
<1>4. CASE c.op # "getIndexers"
  <2>1. m[2].kind = "delete" /\ m[2].index = ask[c.req].index /\ c.op = "deleteImage" /\ ~IsCreate(m[2])
    BY <1>4, IssuesOrder DEF HostInv
  <2>2. c.index = ask[c.req].index
    BY <1>2, <2>1, CallbackFacts DEF CallOK, CallFits
  <2>3. d = DocOf(c, ask[c.req])
    BY <1>1, <2>1, <2>2 DEF Doc, DocOf
  <2>4. Coming' = Coming
    BY <1>2, <1>4, CallbackAgree
  <2>5. Made' = Made
    <3>1. \A e : e \in Made' <=> e \in Made
      BY <1>1, <2>1, MadeMember
    <3> QED BY <3>1
  <2>6. m[2] # None
    BY <1>1, NoneAssumption
  <2>7. Leaving' = Leaving
    <3>1. CASE c.index = None
      <4>1. Deleted' = Deleted
        BY <1>2, <3>1, CallbackAgree
      <4>2. \A e : e \in Deleting' <=> e \in Deleting
        BY SMTT(30), <1>1, <2>1, <2>2, <3>1, DeletingMember DEF IsDelete
      <4> QED BY <4>1, <4>2 DEF Leaving
    <3>2. CASE c.index # None
      <4>1. IsDelete(m[2])
        BY <2>1, <2>2, <2>6, <3>2 DEF IsDelete
      <4>2. \A e : e \in Deleted <=> e \in Deleted' \/ e = d
        BY <1>2, <2>1, <2>3, <3>2, CallbackAgree
      <4>3. \A e : e \in Deleting' <=> e \in Deleting \/ e = d
        BY <1>1, <4>1, DeletingMember
      <4>4. \A e : e \in Leaving' <=> e \in Leaving
        BY <4>2, <4>3 DEF Leaving
      <4> QED BY <4>4
    <3> QED BY <3>1, <3>2
  <2> QED BY <1>2, <2>4, <2>5, <2>7, AgreeKept
<1> QED BY <1>3, <1>4

LEMMA FinishesAgree ==
  ASSUME BaseInv, EntryInv, HostInv, AgreeInv, Fine, Fine', [Next]_vars, NEW w \in Worker, Finishes(w)
  PROVE  AgreeInv'
<1> DEFINE c == working[w]
           d == Doc(c)
<1>1. /\ c \in Cmd /\ c # None /\ c \in Orders
      /\ images' = IF c.kind = "create" THEN images \cup {Host!ImageOf(c)}
                                        ELSE images \ {Host!ImageOf(c)}
      /\ Orders' \subseteq Orders \cup {None}
      /\ \A x \in Orders : x # c => x \in Orders'
  BY FinishesOrder DEF HostInv
<1>2. Coming' = Coming /\ Deleted' = Deleted
  <2>1. UNCHANGED <<entries, wire, pending, answers, ask>>
    BY DEF Finishes, Quiet, mongo, conn
  <2> QED BY <2>1, CallsSame
<1>3. Host!ImageOf(d) = Host!ImageOf(c)
  BY DEF Host!ImageOf, Doc
<1>4. \A x : x \in Orders' /\ (IsCreate(x) \/ IsDelete(x)) => x \in Orders
  BY <1>1 DEF IsCreate, IsDelete
<1>5. /\ \A e \in Made' : e \in Made
      /\ \A e \in Leaving' : e \in Leaving
  <2>1. \A e \in Made' : e \in Made
    BY <1>4, MadeMember
  <2>2. \A e \in Deleting' : e \in Deleting
    BY <1>4, DeletingMember
  <2> QED BY <1>2, <2>1, <2>2 DEF Leaving
<1>6. \A e \in Made : e \in Made' \/ (IsCreate(c) /\ e = d)
  BY <1>1, MadeMember
<1>7. \A e \in Leaving : e \in Leaving' \/ (IsDelete(c) /\ e = d)
  <2>1. \A e \in Deleting : e \in Deleting' \/ (IsDelete(c) /\ e = d)
    BY <1>1, DeletingMember
  <2> QED BY <1>2, <2>1 DEF Leaving
<1>8. /\ \A e \in Coming : e \notin Leaving /\ (Host!ImageOf(e) \in images \/ e \in Made)
      /\ \A f \in images : \E e \in Coming \cup Leaving : Host!ImageOf(e) = f
      /\ Made \subseteq Coming \cup Leaving
  BY DEF AgreeInv
<1>9. CASE c.kind = "create"
  <2>1. IsCreate(c) /\ ~IsDelete(c) /\ images' = images \cup {Host!ImageOf(c)}
    BY <1>1, <1>9 DEF IsCreate, IsDelete
  <2>2. \A e \in Leaving : e \in Leaving'
    BY <1>7, <2>1
  <2>3. d \in Coming \cup Leaving
    BY <1>1, <1>8, <2>1, MadeMember
  <2> HIDE DEF c, d
  <2>4. \A e \in Coming : e \notin Leaving' /\ (Host!ImageOf(e) \in images' \/ e \in Made')
    BY <1>3, <1>5, <1>6, <1>8, <2>1
  <2>5. \A f \in images' : \E e \in Coming \cup Leaving' : Host!ImageOf(e) = f
    BY <1>3, <1>8, <2>1, <2>2, <2>3
  <2>6. \A e \in Made' : e \in Coming \cup Leaving'
    BY <1>5, <1>8, <2>2
  <2> QED BY <1>2, <2>4, <2>5, <2>6 DEF AgreeInv
<1>10. CASE c.kind # "create"
  <2>1. c.kind = "delete" /\ ~IsCreate(c) /\ images' = images \ {Host!ImageOf(c)}
    BY <1>1, <1>10 DEF IsCreate, Cmd
  <2>2. IsDelete(c) /\ d \in Leaving
    <3>1. c.index # None
      BY <1>1 DEF HostInv, OrderInv, HostIndexed
    <3>2. IsDelete(c)
      BY <1>1, <2>1, <3>1 DEF IsDelete
    <3> QED BY <1>1, <3>2, DeletingMember DEF Leaving
  <2>3. d \notin Made
    <3> SUFFICES ASSUME d \in Made PROVE FALSE
      OBVIOUS
    <3>1. PICK x \in Orders : IsCreate(x) /\ d = Doc(x)
      BY MadeMember
    <3>2. x.index = c.index
      BY <3>1 DEF Doc
    <3>3. \/ \E m \in dial \cup waiting : m[2] = x
          \/ \E v \in Worker : working[v] = x
      BY SMTT(30), OrderMember DEF Orders
    <3>4. x \in Creating(c.index)
      BY <3>1, <3>2, <3>3 DEF Creating, IsCreate
    <3>5. overtaken'
      BY <2>1, <3>4 DEF Finishes
    <3> QED BY <3>5 DEF Fine
  <2>4. \A e \in Coming : Host!ImageOf(e) # Host!ImageOf(c)
    <3> SUFFICES ASSUME NEW e \in Coming, Host!ImageOf(e) = Host!ImageOf(c) PROVE FALSE
      OBVIOUS
    <3>1. /\ e.index \in 1..image_index /\ d.index \in 1..image_index /\ d \in Known
          /\ \A g \in Known : e.index = g.index => e = g
      BY <2>2, AgreeFacts
    <3> HIDE DEF d, c
    <3>2. e.index = d.index
      BY <1>3, <3>1, ImagesApart DEF Fine, BaseInv, TypeOK
    <3> QED BY <1>8, <2>2, <3>1, <3>2
  <2> HIDE DEF c, d
  <2>5. \A e \in Coming : e \notin Leaving' /\ (Host!ImageOf(e) \in images' \/ e \in Made')
    BY <1>5, <1>6, <1>8, <2>1, <2>4
  <2>6. \A f \in images' : \E e \in Coming \cup Leaving' : Host!ImageOf(e) = f
    BY <1>3, <1>7, <1>8, <2>1
  <2>7. \A e \in Made' : e \in Coming \cup Leaving'
    BY <1>5, <1>7, <1>8, <2>3
  <2> QED BY <1>2, <2>5, <2>6, <2>7 DEF AgreeInv
<1> QED BY <1>9, <1>10

LEMMA AgreeNext == BaseInv /\ EntryInv /\ HostInv /\ AgreeInv /\ [Next]_vars => AgreeInv'
<1> SUFFICES ASSUME BaseInv, EntryInv, HostInv, AgreeInv, [Next]_vars, Fine' PROVE AgreeInv'
  BY DEF AgreeInv
<1>1. Fine /\ ~fault /\ ~fault'
  BY FineBefore DEF Fine
<1>2. ASSUME UNCHANGED <<dial, host>> PROVE AgreeInv'
  <2>1. Deleting' = Deleting /\ Made' = Made /\ images' = images
    <3>1. Orders' = Orders /\ images' = images
      BY <1>2 DEF Orders, host
    <3> QED BY <3>1, OrdersSame
  <2>2. ASSUME Coming' = Coming, Deleted' = Deleted PROVE AgreeInv'
    <3>1. Leaving' = Leaving
      BY <2>1, <2>2 DEF Leaving
    <3> QED BY <1>1, <2>1, <2>2, <3>1, AgreeKept
  <2>3. CASE \E r \in Req, a \in Ask : Posts(r, a)
    BY <2>2, <2>3, PostsAgree
  <2>4. CASE Execute
    <3> DEFINE c == wire[1]
               d == DocOf(c, ask[c.req])
    <3>1. CASE c.op # "deleteImage"
      BY <1>1, <2>2, <2>4, <3>1, ExecuteAgree
    <3>2. CASE c.op = "deleteImage"
      <4>1. /\ \A e \in Coming' : e \in Coming /\ (c.index # None => e # d)
            /\ \A e \in Coming : e \in Coming' \/ e \in Deleted'
            /\ \A e \in Deleted' : e \in Deleted \/ (c.index # None /\ e = d)
            /\ \A e \in Deleted : e \in Deleted'
        BY <1>1, <2>4, <3>2, ExecuteAgree
      <4> HIDE DEF c, d
      <4>2. \A e \in Coming' : e \in Coming /\ (e \in Leaving' => e \in Leaving)
        BY <2>1, <4>1 DEF Leaving
      <4>3. \A e \in Coming \cup Leaving : e \in Coming' \cup Leaving'
        BY <2>1, <4>1 DEF Leaving
      <4> QED BY <1>1, <2>1, <4>2, <4>3 DEF AgreeInv
    <3> QED BY <3>1, <3>2
  <2>5. CASE Callback
    <3> DEFINE c == pending[1]
    <3>1. CASE c.op \notin {"getIndexers", "deleteImage"}
      BY <2>2, <2>5, <3>1, CallbackAgree
    <3>2. CASE c.op \in {"getIndexers", "deleteImage"}
      <4>1. \E m : Issues(c, m)
        BY <1>2, <2>5, <3>2, CallbackEffects DEF Issues
      <4> QED BY <1>1, <4>1, IssuesAgree
    <3> QED BY <3>1, <3>2
  <2>6. CASE (\E r \in Req : Shows(r)) \/ Quiet
    BY <2>2, <2>6, SameConn, CallsSame
  <2>7. CASE Breaks
    BY <1>1, <2>7, BreaksConn
  <2> QED BY <2>3, <2>4, <2>5, <2>6, <2>7, Steps DEF BaseInv
<1>3. ASSUME NEW d \in dial, Quiet, Sends(d) PROVE AgreeInv'
  <2>1. Orders' = Orders /\ images' = images
    BY <1>3, SendsOrder DEF HostInv
  <2> QED BY <1>1, <1>3, <2>1, OrdersSame, SameConn, CallsSame, AgreeKept DEF Leaving
<1>4. ASSUME NEW m \in waiting, NEW w \in Worker, Quiet, Takes(m, w) PROVE AgreeInv'
  <2>1. images' = images /\ \A c : c # None => (c \in Orders' <=> c \in Orders)
    BY <1>4, TakesOrder DEF HostInv
  <2> QED BY <1>1, <1>4, <2>1, OrdersSame, SameConn, CallsSame, AgreeKept DEF Leaving
<1> QED BY <1>1, <1>2, <1>3, <1>4, OrderSteps, IssuesAgree, FinishesAgree

LEMMA InitAgree == Init => AgreeInv
<1> SUFFICES ASSUME Init PROVE AgreeInv
  OBVIOUS
<1>1. /\ wire = <<>> /\ answers = <<>> /\ dial = {} /\ waiting = {}
      /\ \A w \in Worker : working[w] = None
      /\ images = {Host!ImageOf(e) : e \in entries}
  BY DEF Init
<1>2. Inserts = {} /\ Removed = {}
  BY <1>1, SeqEmpty DEF Inserts, Removed
<1>3. \A c \in Orders : c = None
  BY SMTT(30), <1>1, OrderMember DEF Orders
<1>4. Made = {} /\ Leaving = {}
  BY SMTT(30), <1>2, <1>3, DeletedMember, DeletingMember, MadeMember DEF Leaving, IsCreate, IsDelete
<1>5. Coming = entries
  BY <1>2, ComingMember
<1> QED BY <1>1, <1>4, <1>5 DEF AgreeInv

LEMMA AgreeAlways == Spec => [](BaseInv /\ EntryInv /\ HostInv /\ AgreeInv)
<1>1. Init => AgreeInv
  BY InitAgree
<1> QED BY <1>1, AgreeNext, HostAlways, PTL DEF Spec

\* The entries in MongoDB and the files of the host agree whenever nothing is under
\* way, nothing failed and no delete overtook its create: although the insert, the
\* command and the answer of a create go out together and may take effect in any order.
THEOREM CatalogueAgrees == Spec => []CatalogueMatchesHost
<1>1. BaseInv /\ AgreeInv => CatalogueMatchesHost
  <2> SUFFICES ASSUME BaseInv, AgreeInv, pending = <<>>, dial = {}, waiting = {},
                      \A w \in Worker : working[w] = None,
                      ~fault, ~overtaken, image_index <= IndexMod
               PROVE  images = {Host!ImageOf(e) : e \in entries}
    BY DEF CatalogueMatchesHost
  <2>1. Len(wire) = 0 /\ Len(answers) = 0
    <3>1. Len(pending) = 0 /\ Len(wire) + Len(answers) = Len(pending)
      BY SeqEmpty DEF BaseInv, QueueInv
    <3>2. Len(wire) \in Nat /\ Len(answers) \in Nat
      BY HeadFacts
    <3> QED BY SMTT(30), <3>1, <3>2
  <2>2. Inserts = {} /\ Removed = {}
    BY <2>1, SeqEmpty DEF Inserts, Removed
  <2>3. \A c \in Orders : c = None
    BY SMTT(30), OrderMember DEF Orders
  <2>4. Made = {} /\ Leaving = {}
    BY <2>2, <2>3, DeletedMember, DeletingMember, MadeMember DEF Leaving, IsCreate, IsDelete
  <2>5. Coming = entries
    BY <2>2, ComingMember
  <2>6. /\ \A e \in entries : Host!ImageOf(e) \in images
        /\ \A f \in images : \E e \in entries : Host!ImageOf(e) = f
    BY <2>4, <2>5 DEF AgreeInv, Fine
  <2> QED BY <2>6
<1> QED BY <1>1, AgreeAlways, PTL

-----------------------------------------------------------------------------
\* Of user u, a request that the page has not handled the answer of; a list only if
\* it is newer than those of L.
DueIn(Q, A, u, L) == \E s \in Req \ A :
  Q[s] # None /\ Q[s].id = u /\ (Q[s].kind = "list" => \A q \in L : q < s)
Due(u, L) == DueIn(ask, arrived, u, L)

ListsOf(u) == {r \in arrived : ask[r].kind = "list" /\ ask[r].id = u}
Listing(p) == {j \in 1..Len(p) : p[j].op = "checkImageList"}
OfIn(E, u) == {e \in E : e.id = u}

\* MongoDB answers the lists in the order they were asked for.
ListOrder ==
  /\ \A i, j \in Listing(pending) : i < j => pending[i].req < pending[j].req
  /\ \A r \in Req : answer[r].is = "list" => \A j \in Listing(pending) : r < pending[j].req

\* The page may be told of a create before MongoDB has the entry, but its list is
\* read after that.
NewsComing == ~fault =>
  \A i \in (Len(answers) + 1)..Len(pending) : pending[i].op = "insertImage" =>
    \/ pending[i].req \notin arrived
    \/ \E j \in Listing(pending) : i < j /\ ask[pending[j].req].id = ask[pending[i].req].id

\* A list of request r is that of the entries, or news is due.
CurrentIn(E, Q, A, r, l) == l = OfIn(E, Q[r].id) \/ DueIn(Q, A, Q[r].id, {r})
Current(r, l) == CurrentIn(entries, ask, arrived, r, l)
PageInv == ~fault /\ ~reordered =>
  /\ \A u \in User : shown[u] = OfIn(entries, u) \/ Due(u, ListsOf(u))
  /\ \A j \in Listing(pending) : j <= Len(answers) => Current(pending[j].req, answers[j].list)
  /\ \A r \in Req \ arrived : answer[r].is = "list" /\ Newer(r) = {} => Current(r, answer[r].list)

ViewInv == ListOrder /\ NewsComing /\ PageInv

LEMMA ReqNat == MaxReq \in Nat /\ Req \subseteq Nat /\ \A q, r \in Req : q < r \/ q = r \/ r < q
BY SMTT(30), CatalogueAssumption DEF Req

\* A request that has arrived was asked and answered.
LEMMA ArrivedFacts ==
  ASSUME BaseInv
  PROVE  /\ \A r \in arrived : /\ r \in Req /\ ask[r] # None /\ answer[r].is # "none"
                               /\ ask[r].kind = "list" => answer[r].is = "list"
         /\ \A r \in Req : answer[r].is = "list" => ask[r] # None /\ ask[r].kind = "list"
<1>1. arrived \subseteq Req /\ \A r \in Req : AskOK(r) /\ answer[r] \in Reply
  BY DEF BaseInv, TypeOK, CallInv
<1>2. \A r \in arrived : answer[r].is # "none"
  BY DEF BaseInv, CallInv
<1>3. \A r \in Req : answer[r].is \in {"none", "ok", "list"}
  BY <1>1 DEF Reply
<1>4. ASSUME NEW r \in arrived PROVE ask[r] # None /\ (ask[r].kind = "list" => answer[r].is = "list")
  BY <1>1, <1>2, <1>3 DEF AskOK
<1>5. ASSUME NEW r \in Req, answer[r].is = "list" PROVE ask[r] # None /\ ask[r].kind = "list"
  BY <1>1, <1>5 DEF AskOK
<1> QED BY <1>1, <1>2, <1>4, <1>5

\* A pending list is of a request that has not arrived.
LEMMA ListingFacts ==
  ASSUME BaseInv, NEW j \in Listing(pending)
  PROVE  /\ j \in 1..Len(pending) /\ pending[j].op = "checkImageList"
         /\ pending[j].req \in Req \ arrived /\ ask[pending[j].req] # None
         /\ ask[pending[j].req].kind = "list" /\ ask[pending[j].req].id \in User
<1> DEFINE c == pending[j]
<1>1. j \in 1..Len(pending) /\ c.op = "checkImageList"
  BY DEF Listing
<1>2. c \in Call /\ CallOK(c)
  BY <1>1, HeadFacts
<1>3. c.req \in Req /\ ask[c.req].kind = "list" /\ ask[c.req].id \in User
  BY <1>1, <1>2, CallFacts DEF BaseInv
<1>4. ask[c.req] # None /\ answer[c.req].is = "none"
  BY <1>1, <1>2 DEF CallOK, CallFits
<1> QED BY <1>1, <1>3, <1>4, ArrivedFacts

LEMMA DueMember ==
  ASSUME NEW Q, NEW A, NEW u, NEW L
  PROVE  DueIn(Q, A, u, L) <=>
           \E s \in Req : /\ s \notin A /\ Q[s] # None /\ Q[s].id = u
                          /\ Q[s].kind = "list" => \A q \in L : q < s
BY DEF DueIn

-----------------------------------------------------------------------------
\* A request that is posted is newer than all, and replaces the one it was posted for.
LEMMA PostsDue ==
  ASSUME BaseInv, NEW r \in Req, NEW a \in Ask, Posts(r, a)
  PROVE  /\ \A q \in Req : ask[q] # None => q < r /\ ask'[q] = ask[q]
         /\ r \notin arrived' /\ arrived \subseteq arrived'
         /\ \A q \in arrived' : q \in arrived \/ ask[q].kind # "list"
         /\ \A u, L : (\A q \in L : q < r) /\ Due(u, L) => DueIn(ask', arrived', u, L)
         /\ \A q \in arrived' : q \in arrived \/ (a.kind = "list" /\ a.id = ask[q].id)
<1>1. ask'[r] = a /\ a # None /\ ask[r] = None /\ \A q \in Req : q # r => ask'[q] = ask[q]
  BY PostsFresh
<1>2. \A q \in Req : ask[q] = None <=> q >= r
  BY DEF Posts
<1>3. ASSUME NEW q \in Req, ask[q] # None PROVE q < r /\ ask'[q] = ask[q]
  <2>1. q # r
    BY <1>1, <1>3
  <2>2. ~(q >= r) /\ q \in Nat /\ r \in Nat
    BY <1>2, <1>3, ReqNat
  <2>3. q < r
    BY SMTT(30), <2>2
  <2> QED BY <1>1, <2>1, <2>3
<1>4. /\ arrived \subseteq arrived'
      /\ \A q \in arrived' : \/ q \in arrived
                             \/ /\ q \in Req /\ answer[q].is = "ok"
                                /\ a.kind = "list" /\ a.id = ask[q].id
  BY DEF Posts, PostCause
<1>5. \A q \in Req : answer[q].is = "ok" => ask[q] # None /\ ask[q].kind # "list"
  BY DEF BaseInv, CallInv, AskOK
<1>6. r \notin arrived'
  BY <1>1, <1>4, <1>5, ArrivedFacts
<1>7. \A q \in arrived' : q \in arrived \/ ask[q].kind # "list"
  BY <1>4, <1>5
<1>8. ASSUME NEW u, NEW L, \A q \in L : q < r, Due(u, L) PROVE DueIn(ask', arrived', u, L)
  <2>1. PICK s \in Req : /\ s \notin arrived /\ ask[s] # None /\ ask[s].id = u
                         /\ ask[s].kind = "list" => \A q \in L : q < s
    BY <1>8 DEF Due, DueIn
  <2>2. CASE s \notin arrived'
    BY <1>3, <2>1, <2>2 DEF DueIn
  <2>3. CASE s \in arrived'
    <3>1. a.kind = "list" /\ a.id = u
      BY <1>4, <2>1, <2>3
    <3> QED BY <1>1, <1>6, <1>8, <3>1 DEF DueIn
  <2> QED BY <2>2, <2>3
<1> QED BY <1>3, <1>4, <1>6, <1>7, <1>8

LEMMA PostsOrder ==
  ASSUME BaseInv, ListOrder, NEW r \in Req, NEW a \in Ask, Posts(r, a)
  PROVE  /\ ListOrder'
         /\ \A j \in Listing(pending) : j \in Listing(pending') /\ pending'[j] = pending[j]
         /\ \A j \in Listing(pending') : \/ j \in Listing(pending) /\ pending'[j] = pending[j]
                                         \/ j = Len(pending) + 1 /\ pending'[j].req = r
         /\ a.kind = "list" => Len(pending) + 1 \in Listing(pending')
<1> DEFINE n == NewCall(r, a)
           m == Len(pending) + 1
<1>1. n.req = r /\ n.op = FirstOp(a) /\ (n.op = "checkImageList" <=> a.kind = "list")
  BY NewCallType, FirstOps
<1>2. /\ Len(pending') = m /\ pending'[m] = n
      /\ \A i \in 1..Len(pending) : pending'[i] = pending[i]
  BY PostsGrow DEF Grown
<1>3. Len(pending) \in Nat
  BY HeadFacts
<1>4. /\ 1..Len(pending') = 1..Len(pending) \cup {m}
      /\ \A i \in 1..Len(pending) : i < m /\ ~(m < i)
      /\ ~(m < m)
  BY SMTT(30), <1>2, <1>3
<1> HIDE DEF n, m
<1>5. \A j \in Listing(pending) : j \in Listing(pending') /\ pending'[j] = pending[j]
  BY <1>2, <1>4 DEF Listing
<1>6. \A j \in Listing(pending') : \/ j \in Listing(pending) /\ pending'[j] = pending[j]
                                   \/ j = m /\ pending'[j] = n
  BY <1>2, <1>4 DEF Listing
<1>7. a.kind = "list" => m \in Listing(pending')
  BY <1>1, <1>2, <1>4 DEF Listing
<1>8. \A j \in Listing(pending) : pending[j].req < r /\ j < m /\ ~(m < j)
  BY <1>4, ListingFacts, PostsDue
<1>9. ASSUME NEW i \in Listing(pending'), NEW j \in Listing(pending'), i < j
      PROVE  pending'[i].req < pending'[j].req
  <2>1. CASE j \in Listing(pending) /\ pending'[j] = pending[j]
    BY <1>6, <1>8, <1>9, <2>1 DEF ListOrder
  <2>2. CASE j = m /\ pending'[j] = n
    BY <1>1, <1>4, <1>6, <1>8, <1>9, <2>2
  <2> QED BY <1>6, <2>1, <2>2
<1>10. ASSUME NEW q \in Req, answer'[q].is = "list", NEW j \in Listing(pending')
       PROVE  q < pending'[j].req
  <2>1. answer' = answer
    BY PostsGrow
  <2>2. q < r
    BY <1>10, <2>1, ArrivedFacts, PostsDue
  <2> QED BY <1>1, <1>6, <1>10, <2>1, <2>2 DEF ListOrder
<1>11. ListOrder'
  BY <1>9, <1>10 DEF ListOrder
<1> QED BY <1>1, <1>5, <1>6, <1>7, <1>11 DEF m

LEMMA PostsNews ==
  ASSUME BaseInv, ViewInv, NEW r \in Req, NEW a \in Ask, Posts(r, a)
  PROVE  NewsComing'
<1> SUFFICES ASSUME ~fault', NEW i \in (Len(answers') + 1)..Len(pending'),
                    pending'[i].op = "insertImage", pending'[i].req \in arrived'
             PROVE  \E j \in Listing(pending') :
                      i < j /\ ask'[pending'[j].req].id = ask'[pending'[i].req].id
  BY DEF NewsComing
<1> DEFINE m == Len(pending) + 1
           t == pending[i].req
<1>1. NewCall(r, a).op # "insertImage"
  BY NewCallType, FirstOps
<1>2. /\ Len(pending') = m /\ pending'[m] = NewCall(r, a)
      /\ \A k \in 1..Len(pending) : pending'[k] = pending[k]
      /\ answers' = answers /\ fault' = fault
  BY PostsGrow DEF Grown
<1>3. i # m
  BY <1>1, <1>2
<1>4. i \in 1..Len(pending) /\ i \in (Len(answers) + 1)..Len(pending) /\ i < m
  BY SMTT(30), <1>2, <1>3, LengthFacts
<1>5. pending'[i] = pending[i] /\ pending[i] \in Call /\ CallOK(pending[i])
  BY <1>2, <1>4, HeadFacts
<1>6. t \in Req /\ ask[t] # None /\ ask'[t] = ask[t]
  BY <1>5, PostsDue DEF CallOK, CallFits, Call
<1>7. CASE t \in arrived
  <2>1. PICK j \in Listing(pending) : i < j /\ ask[pending[j].req].id = ask[t].id
    BY <1>2, <1>4, <1>5, <1>7 DEF ViewInv, NewsComing
  <2>2. j \in Listing(pending') /\ pending'[j] = pending[j]
    BY <2>1, PostsOrder DEF ViewInv
  <2>3. ask'[pending[j].req] = ask[pending[j].req]
    BY <2>1, ListingFacts, PostsDue
  <2> QED BY <1>5, <1>6, <2>1, <2>2, <2>3
<1>8. CASE t \notin arrived
  <2>1. a.kind = "list" /\ a.id = ask[t].id
    BY <1>5, <1>8, PostsDue
  <2>2. m \in Listing(pending')
    BY <2>1, PostsOrder DEF ViewInv
  <2>3. pending'[m].req = r /\ ask'[r] = a
    BY SMTT(30), <1>2, NewCallType, PostsFresh
  <2> QED BY <1>4, <1>5, <1>6, <2>1, <2>2, <2>3
<1> QED BY <1>7, <1>8

LEMMA PostsPage ==
  ASSUME BaseInv, ViewInv, NEW r \in Req, NEW a \in Ask, Posts(r, a)
  PROVE  PageInv'
<1>1. UNCHANGED <<entries, answers, answer, shown, reordered, fault>>
  BY PostsGrow
<1>2. /\ \A q \in Req : ask[q] # None => q < r /\ ask'[q] = ask[q]
      /\ arrived \subseteq arrived' /\ \A q \in arrived' : q \in arrived \/ ask[q].kind # "list"
      /\ \A u, L : (\A q \in L : q < r) /\ Due(u, L) => DueIn(ask', arrived', u, L)
  BY PostsDue
<1>3. \A q \in arrived' : q \in Req /\ ask[q] # None /\ ask'[q] = ask[q]
  <2>1. arrived' \subseteq Req
    BY PostsTypes DEF TypeOK
  <2>2. \A q \in arrived' : answer[q].is # "none"
    BY <1>1, PostsCalls DEF CallInv
  <2>3. \A q \in Req : AskOK(q)
    BY DEF BaseInv, CallInv
  <2> QED BY <1>2, <2>1, <2>2, <2>3 DEF AskOK
<1>4. ASSUME NEW q \in Req, ask[q] # None, NEW l, Current(q, l)
      PROVE  CurrentIn(entries', ask', arrived', q, l)
  <2>1. ask'[q] = ask[q] /\ \A x \in {q} : x < r
    BY <1>2, <1>4
  <2>2. CASE l = OfIn(entries, ask[q].id)
    BY <1>1, <2>1, <2>2 DEF CurrentIn
  <2>3. CASE DueIn(ask, arrived, ask[q].id, {q})
    BY <1>2, <2>1, <2>3 DEF CurrentIn, Due
  <2> QED BY <1>4, <2>2, <2>3 DEF Current, CurrentIn
<1> SUFFICES ASSUME ~fault', ~reordered'
    PROVE /\ \A u \in User : shown'[u] = OfIn(entries', u) \/ DueIn(ask', arrived', u, ListsOf(u)')
          /\ \A j \in Listing(pending') : j <= Len(answers') =>
               CurrentIn(entries', ask', arrived', pending'[j].req, answers'[j].list)
          /\ \A q \in Req \ arrived' : answer'[q].is = "list" /\ Newer(q)' = {} =>
               CurrentIn(entries', ask', arrived', q, answer'[q].list)
  BY DEF PageInv, Due, Current
<1>5. ~fault /\ ~reordered
  BY <1>1
<1>6. ASSUME NEW u \in User
      PROVE  shown'[u] = OfIn(entries', u) \/ DueIn(ask', arrived', u, ListsOf(u)')
  <2>1. \A q : q \in ListsOf(u)' <=> q \in ListsOf(u)
    BY <1>2, <1>3 DEF ListsOf
  <2>2. ListsOf(u)' = ListsOf(u)
    BY <2>1
  <2>3. \A q \in ListsOf(u) : q < r
    BY <1>2, ArrivedFacts DEF ListsOf
  <2>4. shown[u] = OfIn(entries, u) \/ Due(u, ListsOf(u))
    BY <1>5 DEF ViewInv, PageInv
  <2> QED BY <1>1, <1>2, <2>2, <2>3, <2>4
<1>7. ASSUME NEW j \in Listing(pending'), j <= Len(answers')
      PROVE  CurrentIn(entries', ask', arrived', pending'[j].req, answers'[j].list)
  <2>1. j # Len(pending) + 1
    <3>1. Len(pending) \in Nat /\ Len(answers) \in Nat /\ Len(answers) <= Len(pending)
      BY HeadFacts
    <3>2. j <= Len(answers)
      BY <1>1, <1>7
    <3> QED BY SMTT(30), <3>1, <3>2
  <2>2. j \in Listing(pending) /\ pending'[j] = pending[j]
    BY <2>1, PostsOrder DEF ViewInv
  <2>3. Current(pending[j].req, answers[j].list)
    BY <1>1, <1>5, <1>7, <2>2 DEF ViewInv, PageInv
  <2> QED BY <1>1, <1>4, <2>2, <2>3, ListingFacts
<1>8. ASSUME NEW q \in Req \ arrived', answer'[q].is = "list", Newer(q)' = {}
      PROVE  CurrentIn(entries', ask', arrived', q, answer'[q].list)
  <2>1. q \notin arrived /\ answer[q].is = "list" /\ ask[q] # None /\ ask'[q] = ask[q]
    BY <1>1, <1>2, <1>8, ArrivedFacts
  <2>2. \A x \in Newer(q) : x \in Newer(q)'
    BY <1>2, <1>3, <2>1 DEF Newer
  <2>3. Newer(q) = {}
    BY <1>8, <2>2
  <2>4. Current(q, answer[q].list)
    BY <1>5, <2>1, <2>3 DEF ViewInv, PageInv
  <2> QED BY <1>1, <1>4, <2>1, <2>4
<1> QED BY <1>6, <1>7, <1>8

\* A list that is shown is the newest one, or a newer one is due.
LEMMA ShowsView ==
  ASSUME BaseInv, ViewInv, NEW r \in Req, Shows(r)
  PROVE  ViewInv'
<1> DEFINE v == ask[r].id
<1>1. /\ r \notin arrived /\ arrived' = arrived \cup {r} /\ answer[r].is = "list"
      /\ shown' = [shown EXCEPT ![v] = answer[r].list]
      /\ reordered' = (reordered \/ Newer(r) # {})
      /\ UNCHANGED <<entries, pending, answers, ask, answer, fault>>
  BY DEF Shows, ShowList, mongo, conn
<1>2. ask[r] # None /\ ask[r].kind = "list"
  BY <1>1, ArrivedFacts
<1>3. ListOrder'
  <2>1. ListOrder
    BY DEF ViewInv
  <2> QED BY <1>1, <2>1 DEF ListOrder
<1>4. NewsComing'
  <2> SUFFICES ASSUME ~fault, NEW i \in (Len(answers) + 1)..Len(pending),
                      pending[i].op = "insertImage", pending[i].req \in arrived'
               PROVE  \E j \in Listing(pending) :
                        i < j /\ ask[pending[j].req].id = ask[pending[i].req].id
    BY <1>1 DEF NewsComing
  <2>1. i \in 1..Len(pending)
    BY SMTT(30), LengthFacts
  <2>2. pending[i] \in Call /\ CallOK(pending[i])
    BY <2>1, HeadFacts
  <2>3. ask[pending[i].req].kind = "create"
    BY <2>2, CallFacts DEF BaseInv
  <2>4. pending[i].req \in arrived
    BY <1>1, <1>2, <2>3
  <2> QED BY <2>4 DEF ViewInv, NewsComing
<1>5. \A s \in Req : s \notin arrived /\ s # r => s \notin arrived'
  BY <1>1
<1>6. ASSUME NEW u, NEW L, Due(u, L), u = v => \E q \in L : ~(q < r)
      PROVE  DueIn(ask', arrived', u, L)
  <2>1. PICK s \in Req : /\ s \notin arrived /\ ask[s] # None /\ ask[s].id = u
                         /\ ask[s].kind = "list" => \A q \in L : q < s
    BY <1>6 DEF Due, DueIn
  <2>2. s # r
    BY <1>2, <1>6, <2>1
  <2> QED BY <1>1, <1>5, <2>1, <2>2 DEF DueIn
<1> SUFFICES ASSUME ~fault', ~reordered'
    PROVE /\ \A u \in User : shown'[u] = OfIn(entries', u) \/ DueIn(ask', arrived', u, ListsOf(u)')
          /\ \A j \in Listing(pending') : j <= Len(answers') =>
               CurrentIn(entries', ask', arrived', pending'[j].req, answers'[j].list)
          /\ \A q \in Req \ arrived' : answer'[q].is = "list" /\ Newer(q)' = {} =>
               CurrentIn(entries', ask', arrived', q, answer'[q].list)
  BY <1>3, <1>4 DEF ViewInv, PageInv, Due, Current
<1>7. ~fault /\ ~reordered /\ Newer(r) = {}
  BY <1>1
<1>8. ASSUME NEW u \in User
      PROVE  shown'[u] = OfIn(entries', u) \/ DueIn(ask', arrived', u, ListsOf(u)')
  <2>1. CASE u # v
    <3>1. shown'[u] = shown[u]
      BY <1>1, <2>1 DEF BaseInv, TypeOK
    <3>2. \A q : q \in ListsOf(u)' <=> q \in ListsOf(u)
      BY <1>1, <2>1 DEF ListsOf
    <3>3. ListsOf(u)' = ListsOf(u)
      BY <3>2
    <3>4. shown[u] = OfIn(entries, u) \/ Due(u, ListsOf(u))
      BY <1>7 DEF ViewInv, PageInv
    <3> QED BY <1>1, <1>6, <2>1, <3>1, <3>3, <3>4
  <2>2. CASE u = v
    <3>1. shown'[u] = answer[r].list
      BY <1>1, <2>2 DEF BaseInv, TypeOK
    <3>2. Current(r, answer[r].list)
      BY <1>1, <1>7 DEF ViewInv, PageInv
    <3>3. CASE answer[r].list = OfIn(entries, v)
      BY <1>1, <2>2, <3>1, <3>3
    <3>4. CASE DueIn(ask, arrived, v, {r})
      <4>1. PICK s \in Req : /\ s \notin arrived /\ ask[s] # None /\ ask[s].id = v
                             /\ ask[s].kind = "list" => r < s
        BY <3>4 DEF DueIn
      <4>2. s # r
        <5>1. s \in Nat /\ (ask[s].kind = "list" => r < s)
          BY <4>1, ReqNat
        <5> QED BY SMTT(30), <1>2, <5>1
      <4>3. ASSUME NEW q \in ListsOf(u)', ask[s].kind = "list" PROVE q < s
        <5>1. q = r \/ (q \in arrived /\ ask[q].kind = "list" /\ ask[q].id = v)
          BY <1>1, <2>2, <4>3 DEF ListsOf
        <5>2. q = r \/ ~(q > r)
          BY <1>7, <5>1 DEF Newer
        <5>3. q \in Nat /\ r \in Nat /\ s \in Nat
          BY <5>1, ReqNat, ArrivedFacts
        <5>4. r < s
          BY <4>1, <4>3
        <5> QED BY SMTT(30), <5>2, <5>3, <5>4
      <4> QED BY <1>1, <1>5, <2>2, <4>1, <4>2, <4>3 DEF DueIn
    <3> QED BY <3>2, <3>3, <3>4 DEF Current, CurrentIn
  <2> QED BY <2>1, <2>2
<1>9. ASSUME NEW q \in Req, r < q \/ ask[q].id # v, NEW l, Current(q, l)
      PROVE  CurrentIn(entries', ask', arrived', q, l)
  <2>1. CASE l = OfIn(entries, ask[q].id)
    BY <1>1, <2>1 DEF CurrentIn
  <2>2. CASE DueIn(ask, arrived, ask[q].id, {q})
    <3>1. r < q => ~(q < r)
      BY SMTT(30), ReqNat
    <3>2. DueIn(ask', arrived', ask[q].id, {q})
      BY <1>6, <1>9, <2>2, <3>1 DEF Due
    <3> QED BY <1>1, <3>2 DEF CurrentIn
  <2> QED BY <1>9, <2>1, <2>2 DEF Current, CurrentIn
<1>10. ASSUME NEW j \in Listing(pending'), j <= Len(answers')
       PROVE  CurrentIn(entries', ask', arrived', pending'[j].req, answers'[j].list)
  <2>1. j \in Listing(pending) /\ Current(pending[j].req, answers[j].list)
    BY <1>1, <1>7, <1>10 DEF ViewInv, PageInv
  <2>2. r < pending[j].req
    BY <1>1, <2>1 DEF ViewInv, ListOrder
  <2> QED BY <1>1, <1>9, <2>1, <2>2, ListingFacts
<1>11. ASSUME NEW q \in Req \ arrived', answer'[q].is = "list", Newer(q)' = {}
       PROVE  CurrentIn(entries', ask', arrived', q, answer'[q].list)
  <2>1. q \notin arrived /\ q # r /\ answer[q].is = "list"
    BY <1>1, <1>11
  <2>2. Newer(q) = {}
    <3>1. \A x \in Newer(q) : x \in Newer(q)'
      BY <1>1 DEF Newer
    <3> QED BY <1>11, <3>1
  <2>3. ~(r > q) \/ ask[q].id # v
    BY <1>1, <1>2, <1>11 DEF Newer
  <2>4. r < q \/ ask[q].id # v
    BY <2>1, <2>3, ReqNat
  <2>5. Current(q, answer[q].list)
    BY <1>7, <2>1, <2>2 DEF ViewInv, PageInv
  <2> QED BY <1>1, <1>9, <2>4, <2>5
<1> QED BY <1>8, <1>10, <1>11

\* When MongoDB changes the entries of a user, the page has not heard of the request
\* or its list is still to be read.
LEMMA NewsDue ==
  ASSUME BaseInv, ViewInv, Execute, ~fault, wire[1].op \in {"insertImage", "deleteImage"}
  PROVE  \E s \in Req :
           /\ s \notin arrived /\ ask[s] # None /\ ask[s].id = ask[wire[1].req].id
           /\ ask[s].kind = "list" =>
                /\ \A q \in Req : answer[q].is = "list" => q < s
                /\ \A j \in Listing(pending) : j <= Len(answers) => pending[j].req < s
<1> DEFINE c == wire[1]
           l == Len(answers)
<1>1. c \in Call /\ CallOK(c) /\ l + 1 \in 1..Len(pending) /\ pending[l + 1] = c
  BY ExecuteQueues DEF BaseInv, QueueInv
<1>2. c.req \in Req /\ ask[c.req] # None /\ ask[c.req].kind # "list"
  BY <1>1, CallFacts DEF BaseInv, CallOK, CallFits
<1>3. CASE c.req \notin arrived
  BY <1>2, <1>3
<1>4. CASE c.req \in arrived
  <2>1. c.op = "insertImage"
    BY <1>1, <1>4, ArrivedFacts DEF CallOK, CallFits
  <2>2. l \in Nat /\ Len(pending) \in Nat /\ l + 1 \in (l + 1)..Len(pending)
    BY SMTT(30), <1>1, LengthFacts
  <2>3. PICK j \in Listing(pending) : l + 1 < j /\ ask[pending[j].req].id = ask[c.req].id
    BY <1>1, <1>4, <2>1, <2>2 DEF ViewInv, NewsComing
  <2>4. j \in Nat /\ \A k \in Listing(pending) : k \in Nat
    BY SMTT(30), <2>2 DEF Listing
  <2>5. ASSUME NEW k \in Listing(pending), k <= l PROVE k < j
    <3>1. l \in Nat /\ j \in Nat /\ k \in Nat /\ l + 1 < j /\ k <= l
      BY <2>2, <2>3, <2>4, <2>5
    <3> HIDE DEF l
    <3> QED BY SMTT(30), <3>1
  <2>6. \A k \in Listing(pending) : k <= l => pending[k].req < pending[j].req
    BY <2>5 DEF ViewInv, ListOrder
  <2>7. \A q \in Req : answer[q].is = "list" => q < pending[j].req
    BY DEF ViewInv, ListOrder
  <2> QED BY <2>3, <2>6, <2>7, ListingFacts
<1> QED BY <1>3, <1>4

LEMMA ExecuteView ==
  ASSUME BaseInv, ViewInv, Execute
  PROVE  ViewInv'
<1> DEFINE c == wire[1]
           l == Len(answers)
           v == ask[c.req].id
<1>1. UNCHANGED <<pending, ask, answer, shown, arrived, reordered, fault>>
  BY ExecuteQueues
<1>2. ListOrder'
  <2>1. ListOrder
    BY DEF ViewInv
  <2> QED BY <1>1, <2>1 DEF ListOrder
<1>3. ASSUME ~fault
      PROVE  /\ c \in Call /\ CallOK(c) /\ pending[l + 1] = c /\ l \in Nat
             /\ Len(answers') = l + 1 /\ answers'[l + 1] = Result(c)
             /\ \A j \in 1..l : answers'[j] = answers[j]
  BY <1>3, ExecuteQueues DEF BaseInv, QueueInv, Grown
<1>4. NewsComing'
  <2> SUFFICES ASSUME ~fault, NEW i \in (Len(answers') + 1)..Len(pending),
                      pending[i].op = "insertImage", pending[i].req \in arrived
               PROVE  \E j \in Listing(pending) :
                        i < j /\ ask[pending[j].req].id = ask[pending[i].req].id
    BY <1>1 DEF NewsComing
  <2>1. i \in (l + 1)..Len(pending)
    BY SMTT(30), <1>3, LengthFacts
  <2> QED BY <2>1 DEF ViewInv, NewsComing
<1> SUFFICES ASSUME ~fault', ~reordered'
    PROVE /\ \A u \in User : shown'[u] = OfIn(entries', u) \/ DueIn(ask', arrived', u, ListsOf(u)')
          /\ \A j \in Listing(pending') : j <= Len(answers') =>
               CurrentIn(entries', ask', arrived', pending'[j].req, answers'[j].list)
          /\ \A q \in Req \ arrived' : answer'[q].is = "list" /\ Newer(q)' = {} =>
               CurrentIn(entries', ask', arrived', q, answer'[q].list)
  BY <1>2, <1>4 DEF ViewInv, PageInv, Due, Current
<1>5. ~fault /\ ~reordered
  BY <1>1
<1>6. \A j \in Listing(pending') : j <= Len(answers') =>
         \/ j \in Listing(pending) /\ j <= l /\ answers'[j] = answers[j]
         \/ j = l + 1 /\ c.op = "checkImageList"
  <2> SUFFICES ASSUME NEW j \in Listing(pending'), j <= Len(answers'), j # l + 1
               PROVE  j \in Listing(pending) /\ j <= l /\ answers'[j] = answers[j]
    BY <1>1, <1>3, <1>5 DEF Listing
  <2>1. j \in Listing(pending) /\ j \in 1..Len(pending) /\ Len(pending) \in Nat
    BY <1>1, HeadFacts DEF Listing
  <2>2. j \in 1..l /\ j <= l
    BY SMTT(30), <1>3, <1>5, <2>1
  <2> QED BY <1>3, <1>5, <2>1, <2>2
<1>7. /\ \A u : ListsOf(u)' = ListsOf(u)
      /\ \A q : Newer(q)' = Newer(q)
  BY <1>1 DEF ListsOf, Newer
<1>8. /\ \A u \in User : shown[u] = OfIn(entries, u) \/ Due(u, ListsOf(u))
      /\ \A j \in Listing(pending) : j <= l => Current(pending[j].req, answers[j].list)
      /\ \A q \in Req \ arrived : answer[q].is = "list" /\ Newer(q) = {} => Current(q, answer[q].list)
  BY <1>5 DEF ViewInv, PageInv
<1>9. Head(wire) = c
  BY HeadFacts DEF Execute
<1>10. CASE c.op \notin {"insertImage", "deleteImage"}
  <2>1. entries' = entries
    BY <1>9, <1>10 DEF Execute
  <2>2. \A q, x : CurrentIn(entries', ask', arrived', q, x) <=> Current(q, x)
    BY <1>1, <2>1 DEF Current
  <2>3. ASSUME NEW j \in Listing(pending'), j <= Len(answers')
        PROVE  Current(pending'[j].req, answers'[j].list)
    <3>1. CASE j = l + 1 /\ c.op = "checkImageList"
      <4>1. answers'[j].list = Of(v) /\ pending'[j] = c
        <5>1. answers'[j] = Result(c) /\ pending'[j] = c
          BY <1>1, <1>3, <1>5, <3>1
        <5> QED BY <3>1, <5>1 DEF Result
      <4> QED BY <4>1 DEF Current, CurrentIn, Of, OfIn
    <3> QED BY <1>1, <1>6, <1>8, <2>3, <3>1
  <2>4. \A u \in User : shown'[u] = OfIn(entries', u) \/ DueIn(ask', arrived', u, ListsOf(u)')
    BY <1>1, <1>7, <1>8, <2>1 DEF Due
  <2>5. \A q \in Req \ arrived' : answer'[q].is = "list" /\ Newer(q)' = {} => Current(q, answer'[q].list)
    BY <1>1, <1>7, <1>8
  <2> QED BY <2>2, <2>3, <2>4, <2>5
<1>11. CASE c.op \in {"insertImage", "deleteImage"}
  <2>1. \A u : u # v => OfIn(entries', u) = OfIn(entries, u)
    <3>1. entries' = entries \cup {Document(c)} \/ entries' = entries \ {Document(c)}
      BY <1>9, <1>11 DEF Execute, deleteImage
    <3>2. Document(c).id = v
      BY DEF Document
    <3> HIDE DEF c, v
    <3> QED BY <3>1, <3>2 DEF OfIn
  <2>2. PICK s \in Req :
           /\ s \notin arrived /\ ask[s] # None /\ ask[s].id = v
           /\ ask[s].kind = "list" =>
                /\ \A q \in Req : answer[q].is = "list" => q < s
                /\ \A j \in Listing(pending) : j <= l => pending[j].req < s
    BY <1>5, <1>11, NewsDue
  <2>3. ASSUME NEW q \in Req, NEW x, Current(q, x), ask[s].kind = "list" => q < s
        PROVE  CurrentIn(entries', ask', arrived', q, x)
    <3>1. CASE ask[q].id = v
      BY <1>1, <2>2, <2>3, <3>1 DEF CurrentIn, DueIn
    <3>2. CASE ask[q].id # v
      BY <1>1, <2>1, <2>3, <3>2 DEF Current, CurrentIn
    <3> QED BY <3>1, <3>2
  <2>4. ASSUME NEW u \in User
        PROVE  shown'[u] = OfIn(entries', u) \/ DueIn(ask', arrived', u, ListsOf(u)')
    <3>1. CASE u # v
      BY <1>1, <1>7, <1>8, <2>1, <3>1 DEF Due
    <3>2. CASE u = v
      <4>1. \A q \in ListsOf(u) : q \in Req /\ answer[q].is = "list"
        BY ArrivedFacts DEF ListsOf
      <4> QED BY <1>1, <1>7, <2>2, <3>2, <4>1 DEF DueIn
    <3> QED BY <3>1, <3>2
  <2>5. ASSUME NEW j \in Listing(pending'), j <= Len(answers')
        PROVE  CurrentIn(entries', ask', arrived', pending'[j].req, answers'[j].list)
    <3>1. j \in Listing(pending) /\ j <= l /\ answers'[j] = answers[j]
      BY <1>6, <1>11, <2>5
    <3> QED BY <1>1, <1>8, <2>2, <2>3, <3>1, ListingFacts
  <2>6. ASSUME NEW q \in Req \ arrived', answer'[q].is = "list", Newer(q)' = {}
        PROVE  CurrentIn(entries', ask', arrived', q, answer'[q].list)
    BY <1>1, <1>7, <1>8, <2>2, <2>3, <2>6
  <2> QED BY <2>4, <2>5, <2>6
<1> QED BY <1>10, <1>11

\* The calls move up; an insert may follow.
LEMMA CallbackMoves ==
  ASSUME BaseInv, Callback
  PROVE  /\ Len(answers) \in Nat \ {0} /\ Len(answers') = Len(answers) - 1
         /\ \A i \in 1..Len(pending') :
              \/ i + 1 \in 1..Len(pending) /\ pending'[i] = pending[i + 1]
              \/ /\ pending[1].op = "getIndexers" /\ pending'[i].op = "insertImage"
                 /\ pending'[i].req = pending[1].req
         /\ \A j \in Listing(pending') : j \in Nat /\ j + 1 \in Listing(pending) /\ pending'[j] = pending[j + 1]
         /\ \A k \in Listing(pending) : k # 1 => /\ k - 1 \in Listing(pending')
                                                 /\ pending'[k - 1] = pending[k]
<1> DEFINE c == pending[1]
           p == Tail(pending)
           x == [op |-> "insertImage", req |-> c.req, index |-> answers[1].seq]
<1>1. /\ Shifted(answers, answers') /\ Shifted(pending, p)
      /\ \/ c.op = "getIndexers" /\ Grown(p, pending', x)
         \/ c.op # "getIndexers" /\ pending' = p
  BY CallbackQueues
<1>2. Len(answers) \in Nat \ {0} /\ Len(answers') = Len(answers) - 1
  BY <1>1 DEF Shifted
<1>3. /\ Len(pending) \in Nat \ {0} /\ Len(p) = Len(pending) - 1
      /\ \A i \in 1..Len(p) : p[i] = pending[i + 1]
  BY <1>1 DEF Shifted
<1>4. x.op = "insertImage" /\ x.req = c.req
  OBVIOUS
<1> HIDE DEF x, p
<1>5. /\ \A i \in 1..Len(p) : i \in 1..Len(pending') /\ pending'[i] = p[i]
      /\ \A i \in 1..Len(pending') : i \in 1..Len(p) \/ (c.op = "getIndexers" /\ pending'[i] = x)
      /\ Len(pending') \in Nat
  <2>1. CASE c.op = "getIndexers" /\ Grown(p, pending', x)
    <3>1. /\ Len(p) \in Nat /\ Len(pending') = Len(p) + 1 /\ pending'[Len(p) + 1] = x
          /\ \A i \in 1..Len(p) : pending'[i] = p[i]
      BY <2>1 DEF Grown
    <3>2. 1..Len(pending') = 1..Len(p) \cup {Len(p) + 1} /\ Len(pending') \in Nat
      BY SMTT(30), <3>1
    <3> QED BY <2>1, <3>1, <3>2
  <2>2. CASE pending' = p
    BY SMTT(30), <1>3, <2>2
  <2> QED BY <1>1, <2>1, <2>2
<1>6. /\ \A i \in 1..Len(p) : i \in Nat /\ i + 1 \in 1..Len(pending)
      /\ \A k \in 1..Len(pending) : k # 1 => k - 1 \in 1..Len(p) /\ (k - 1) + 1 = k
  BY SMTT(30), <1>3
<1>7. \A i \in 1..Len(pending') :
        \/ i \in Nat /\ i + 1 \in 1..Len(pending) /\ pending'[i] = pending[i + 1]
        \/ c.op = "getIndexers" /\ pending'[i].op = "insertImage" /\ pending'[i].req = c.req
  BY <1>3, <1>4, <1>5, <1>6
<1>8. ASSUME NEW j \in Listing(pending')
      PROVE  j \in Nat /\ j + 1 \in Listing(pending) /\ pending'[j] = pending[j + 1]
  <2>1. j \in 1..Len(pending') /\ pending'[j].op = "checkImageList"
    BY DEF Listing
  <2>2. j \in Nat /\ j + 1 \in 1..Len(pending) /\ pending'[j] = pending[j + 1]
    BY <1>7, <2>1
  <2> QED BY <2>1, <2>2 DEF Listing
<1>9. ASSUME NEW k \in Listing(pending), k # 1
      PROVE  k - 1 \in Listing(pending') /\ pending'[k - 1] = pending[k]
  <2>1. k \in 1..Len(pending) /\ pending[k].op = "checkImageList"
    BY DEF Listing
  <2>2. k - 1 \in 1..Len(p) /\ (k - 1) + 1 = k
    BY <1>6, <1>9, <2>1
  <2>3. k - 1 \in 1..Len(pending') /\ pending'[k - 1] = pending[k]
    BY <1>3, <1>5, <2>2
  <2> QED BY <2>1, <2>3 DEF Listing
<1> QED BY <1>2, <1>7, <1>8, <1>9

LEMMA CallbackView ==
  ASSUME BaseInv, ViewInv, Callback
  PROVE  ViewInv'
<1> DEFINE c == pending[1]
<1>1. UNCHANGED <<entries, ask, shown, arrived, reordered, fault>>
  BY CallbackFacts DEF mongo, page
<1>2. /\ c \in Call /\ CallOK(c) /\ c.req \in Req /\ 1 \in 1..Len(pending)
      /\ answer \in [Req -> Reply]
  BY CallbackFacts DEF Call, BaseInv, TypeOK
<1>3. \A q \in Req : answer'[q].is = "list" =>
        \/ answer[q].is = "list" /\ answer'[q] = answer[q]
        \/ /\ q = c.req /\ 1 \in Listing(pending) /\ answer'[q].list = answers[1].list
  <2>1. CASE c.op \in {"getIndexers", "deleteImage"}
    <3>1. answer' = [answer EXCEPT ![c.req] = Ok]
      BY <2>1, CallbackEffects
    <3> QED BY <1>2, <3>1, EmptyAnswer
  <2>2. CASE c.op = "checkImageList"
    <3>1. answer' = [answer EXCEPT ![c.req] = [is |-> "list", list |-> answers[1].list]]
      BY <2>2, CallbackEffects
    <3>2. 1 \in Listing(pending)
      BY <1>2, <2>2 DEF Listing
    <3> QED BY <1>2, <3>1, <3>2
  <2>3. CASE c.op \notin {"getIndexers", "deleteImage", "checkImageList"}
    <3>1. answer' = answer
      BY <2>3, CallbackEffects
    <3> QED BY <3>1
  <2> QED BY <2>1, <2>2, <2>3
<1>4. ListOrder'
  <2>1. ASSUME NEW i \in Listing(pending'), NEW j \in Listing(pending'), i < j
        PROVE  pending'[i].req < pending'[j].req
    <3>1. /\ i \in Nat /\ i + 1 \in Listing(pending) /\ pending'[i] = pending[i + 1]
          /\ j \in Nat /\ j + 1 \in Listing(pending) /\ pending'[j] = pending[j + 1]
      BY CallbackMoves
    <3>2. i + 1 < j + 1
      BY SMTT(30), <2>1, <3>1
    <3> QED BY <3>1, <3>2 DEF ViewInv, ListOrder
  <2>2. ASSUME NEW q \in Req, answer'[q].is = "list", NEW j \in Listing(pending')
        PROVE  q < pending'[j].req
    <3>1. j \in Nat /\ j + 1 \in Listing(pending) /\ pending'[j] = pending[j + 1]
      BY CallbackMoves
    <3>2. 1 < j + 1
      <4>1. j \in 1..Len(pending')
        BY DEF Listing
      <4> QED BY SMTT(30), <3>1, <4>1
    <3>3. CASE answer[q].is = "list"
      BY <3>1, <3>3 DEF ViewInv, ListOrder
    <3>4. CASE q = c.req /\ 1 \in Listing(pending)
      BY <3>1, <3>2, <3>4 DEF ViewInv, ListOrder
    <3> QED BY <1>3, <2>2, <3>3, <3>4
  <2> QED BY <2>1, <2>2 DEF ListOrder
<1>5. NewsComing'
  <2> SUFFICES ASSUME ~fault, NEW i \in (Len(answers') + 1)..Len(pending'),
                      pending'[i].op = "insertImage", pending'[i].req \in arrived
               PROVE  \E j \in Listing(pending') :
                        i < j /\ ask[pending'[j].req].id = ask[pending'[i].req].id
    BY <1>1 DEF NewsComing
  <2>1. i \in Nat /\ i \in 1..Len(pending') /\ i + 1 >= Len(answers) + 1 /\ Len(answers) \in Nat
    BY SMTT(30), CallbackMoves
  <2>2. CASE c.op = "getIndexers" /\ pending'[i].req = c.req
    <3>1. answer[c.req].is = "none"
      BY <1>2, <2>2 DEF CallOK, CallFits
    <3> QED BY <2>2, <3>1, ArrivedFacts
  <2>3. CASE i + 1 \in 1..Len(pending) /\ pending'[i] = pending[i + 1]
    <3>1. i + 1 \in (Len(answers) + 1)..Len(pending)
      BY SMTT(30), <2>1, <2>3, LengthFacts
    <3>2. PICK k \in Listing(pending) : i + 1 < k /\ ask[pending[k].req].id = ask[pending[i + 1].req].id
      BY <2>3, <3>1 DEF ViewInv, NewsComing
    <3>3. k \in 1..Len(pending) /\ Len(pending) \in Nat
      BY HeadFacts DEF Listing
    <3>4. k # 1 /\ i < k - 1
      BY SMTT(30), <2>1, <3>2, <3>3
    <3>5. k - 1 \in Listing(pending') /\ pending'[k - 1] = pending[k]
      BY <3>4, CallbackMoves
    <3> QED BY <2>3, <3>2, <3>4, <3>5
  <2> QED BY <2>1, <2>2, <2>3, CallbackMoves
<1> SUFFICES ASSUME ~fault', ~reordered'
    PROVE /\ \A u \in User : shown'[u] = OfIn(entries', u) \/ DueIn(ask', arrived', u, ListsOf(u)')
          /\ \A j \in Listing(pending') : j <= Len(answers') =>
               CurrentIn(entries', ask', arrived', pending'[j].req, answers'[j].list)
          /\ \A q \in Req \ arrived' : answer'[q].is = "list" /\ Newer(q)' = {} =>
               CurrentIn(entries', ask', arrived', q, answer'[q].list)
  BY <1>4, <1>5 DEF ViewInv, PageInv, Due, Current
<1>6. /\ \A u \in User : shown[u] = OfIn(entries, u) \/ Due(u, ListsOf(u))
      /\ \A j \in Listing(pending) : j <= Len(answers) => Current(pending[j].req, answers[j].list)
      /\ \A q \in Req \ arrived : answer[q].is = "list" /\ Newer(q) = {} => Current(q, answer[q].list)
  BY <1>1 DEF ViewInv, PageInv
<1>7. /\ \A u : ListsOf(u)' = ListsOf(u)
      /\ \A q : Newer(q)' = Newer(q)
      /\ \A q, x : CurrentIn(entries', ask', arrived', q, x) <=> Current(q, x)
  BY <1>1 DEF ListsOf, Newer, Current
<1>8. ASSUME NEW j \in Listing(pending'), j <= Len(answers')
      PROVE  Current(pending'[j].req, answers'[j].list)
  <2>1. /\ j \in Nat /\ j + 1 \in Listing(pending) /\ pending'[j] = pending[j + 1]
        /\ Len(answers) \in Nat \ {0} /\ Len(answers') = Len(answers) - 1
    BY CallbackMoves
  <2>2. j \in 1..Len(answers') /\ j + 1 <= Len(answers)
    <3>1. j \in 1..Len(pending')
      BY DEF Listing
    <3> QED BY SMTT(30), <1>8, <2>1, <3>1
  <2>3. answers'[j] = answers[j + 1]
    <3>1. Shifted(answers, answers')
      BY CallbackQueues
    <3> QED BY <2>2, <3>1 DEF Shifted
  <2> QED BY <1>6, <2>1, <2>2, <2>3
<1>9. ASSUME NEW q \in Req \ arrived', answer'[q].is = "list", Newer(q)' = {}
      PROVE  Current(q, answer'[q].list)
  <2>1. CASE answer[q].is = "list" /\ answer'[q] = answer[q]
    BY <1>1, <1>6, <1>7, <1>9, <2>1
  <2>2. CASE q = c.req /\ 1 \in Listing(pending) /\ answer'[q].list = answers[1].list
    <3>1. 1 <= Len(answers)
      BY SMTT(30), CallbackMoves
    <3> QED BY <1>6, <2>2, <3>1
  <2> QED BY <1>3, <1>9, <2>1, <2>2
<1>10. \A u \in User : shown'[u] = OfIn(entries', u) \/ DueIn(ask', arrived', u, ListsOf(u)')
  BY <1>1, <1>6, <1>7 DEF Due
<1> QED BY <1>7, <1>8, <1>9, <1>10

LEMMA ViewNext == BaseInv /\ ViewInv /\ [Next]_vars => ViewInv'
<1> SUFFICES ASSUME BaseInv, ViewInv, [Next]_vars PROVE ViewInv'
  OBVIOUS
<1>1. CASE \E r \in Req, a \in Ask : Posts(r, a)
  BY <1>1, PostsOrder, PostsNews, PostsPage DEF ViewInv
<1>2. CASE Breaks
  <2>1. fault' = TRUE /\ pending' = <<>>
    BY <1>2, BreaksConn
  <2>2. Listing(pending') = {}
    BY <2>1, SeqEmpty DEF Listing
  <2> QED BY <2>1, <2>2 DEF ViewInv, ListOrder, NewsComing, PageInv
<1>3. CASE Quiet
  <2>1. /\ UNCHANGED <<entries, pending, answers, ask, answer, shown, arrived, reordered>>
        /\ (fault => fault')
    BY <1>3 DEF Quiet, mongo, conn, page
  <2>2. ListOrder'
    BY <2>1 DEF ViewInv, ListOrder
  <2>3. NewsComing'
    BY <2>1 DEF ViewInv, NewsComing
  <2>4. /\ \A u : ListsOf(u)' = ListsOf(u) /\ \A L : Due(u, L)' <=> Due(u, L)
        /\ \A q : Newer(q)' = Newer(q) /\ \A x : Current(q, x)' <=> Current(q, x)
    BY <2>1 DEF ListsOf, Newer, Current, Due
  <2>5. PageInv'
    BY <2>1, <2>4 DEF ViewInv, PageInv
  <2> QED BY <2>2, <2>3, <2>5 DEF ViewInv
<1> QED BY <1>1, <1>2, <1>3, ExecuteView, CallbackView, ShowsView, Steps DEF BaseInv

LEMMA InitView == Init => ViewInv
<1> SUFFICES ASSUME Init PROVE ViewInv
  OBVIOUS
<1>1. /\ pending = <<>> /\ shown = [u \in User |-> Of(u)]
      /\ answer = [r \in Req |-> [is |-> "none", list |-> {}]]
  BY DEF Init
<1>2. Listing(pending) = {} /\ Len(pending) = 0 /\ Len(answers) = 0
  BY <1>1, SeqEmpty DEF Listing, Init
<1>3. \A r \in Req : answer[r].is # "list"
  BY <1>1
<1>4. \A u \in User : shown[u] = OfIn(entries, u)
  BY <1>1 DEF Of, OfIn
<1>5. (Len(answers) + 1)..Len(pending) = {}
  BY SMTT(30), <1>2
<1> QED BY <1>2, <1>3, <1>4, <1>5 DEF ViewInv, ListOrder, NewsComing, PageInv

\* When a page has handled all its answers it shows its user's entries, unless lists
\* overtook each other or something failed: although the page asks for its list as
\* soon as it is told of a create, whose insert only went out with that answer.
THEOREM PageCurrent == Spec => []ShownIsCurrent
<1>1. ViewInv => ShownIsCurrent
  <2> SUFFICES ASSUME ViewInv, ~fault, ~reordered, NEW u \in User,
                      \A r \in Req : ask[r] # None /\ ask[r].id = u => r \in arrived
               PROVE  shown[u] = Of(u)
    BY DEF ShownIsCurrent
  <2>1. ~Due(u, ListsOf(u))
    BY DEF Due, DueIn
  <2>2. shown[u] = OfIn(entries, u)
    BY <2>1 DEF ViewInv, PageInv
  <2> QED BY <2>2 DEF Of, OfIn
<1> QED BY <1>1, InitView, ViewNext, BaseAlways, PTL DEF Spec
=============================================================================
