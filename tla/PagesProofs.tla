----------------------------- MODULE PagesProofs -----------------------------
(***************************************************************************)
(* Proofs about EventTags and EventPages, for any numbers of events, tags, *)
(* viewers and requests, any size of a page and any TTL.                   *)
(***************************************************************************)
EXTENDS EventPages, FiniteSetTheorems, WellFoundedInduction, TLAPS

-----------------------------------------------------------------------------
(* One request for tags. *)

Working == {"tag", "insert_tag", "link", "insert_link"}
Names == {<<>>} \cup {<<s>> : s \in Slugs} \cup (Slugs \X Slugs)
TagRequest ==
    [pc : Working \cup {"idle", "commit", "remove", "done", "failed"},
     event : Events \cup {0}, asked : Names, left : Names,
     new_tags : SUBSET Slugs, new_links : SUBSET Slugs, lost : SUBSET Slugs]

\* The request q is at its first name, or at its second.
First(q) == q.pc \in Working /\ q.left = q.asked
Second(q) == q.pc \in Working /\ q.left = <<q.asked[2]>>

\* What q has inserted belongs to the names it has dealt with, or is the tag of
\* the one it is at; an INSERT is of what q has not inserted yet.
HeldInv(q) ==
    /\ q.pc \in Working \cup {"commit"} => q.asked \in Slugs \X Slugs
    /\ q.pc \in Working => First(q) \/ Second(q)
    /\ q.pc \notin Working \cup {"commit"} => q.new_tags = {} /\ q.new_links = {}
    /\ q.pc = "remove" => q.event \in Events /\ \E s \in Slugs : q.asked = <<s>>
    /\ q.pc \in Working \cup {"commit"} => q.event \in Events
    /\ First(q) =>
         /\ q.new_links = {} /\ q.new_tags \subseteq {q.asked[1]}
         /\ q.pc \in {"tag", "insert_tag"} => q.new_tags = {}
    /\ Second(q) =>
         /\ q.new_links \subseteq {q.asked[1]}
         /\ q.new_tags \subseteq {q.asked[1], q.asked[2]}
         /\ q.pc \in {"tag", "insert_tag"} => q.new_tags \subseteq {q.asked[1]}
         /\ q.pc = "insert_tag" => q.asked[1] # q.asked[2]
    /\ q.pc = "commit" =>
         q.new_links \cup q.new_tags \subseteq {q.asked[1], q.asked[2]}
    /\ q.pc = "insert_tag" => Head(q.left) \notin q.new_tags
    /\ q.pc = "insert_link" => Head(q.left) \notin q.new_links

\* With the committed rows T and L: q links tags that exist for it, inserts
\* tags that do not, and has linked what it has dealt with.
RowsInv(q, T, L) ==
    /\ q.pc \in {"link", "insert_link"} => Head(q.left) \in T \cup q.new_tags
    /\ q.new_links \subseteq T \cup q.new_tags
    /\ q.new_tags \cap T = {}
    /\ Second(q) =>
         /\ q.asked[1] \in T \cup q.new_tags
         /\ q.asked[1] \in q.new_links \cup q.lost \/ <<q.event, q.asked[1]>> \in L
    /\ q.pc = "commit" => \A i \in {1, 2} :
         q.asked[i] \in q.new_links \cup q.lost \/ <<q.event, q.asked[i]>> \in L

TagsInv ==
    /\ tagging \in [TagRequests -> TagRequest]
    /\ tags \subseteq Slugs
    /\ links \subseteq Links /\ granted \subseteq Links
    /\ \A l \in links : l[2] \in tags
    /\ \A r \in TagRequests : HeldInv(tagging[r]) /\ RowsInv(tagging[r], tags, links)
    /\ \A r, o \in TagRequests :
         r # o => tagging[r].new_tags \cap tagging[o].new_tags = {}
    /\ AllOrNothing

LEMMA PairFacts ==
    ASSUME NEW p \in Slugs \X Slugs
    PROVE  /\ p[1] \in Slugs /\ p[2] \in Slugs
           /\ Head(p) = p[1] /\ Tail(p) = <<p[2]>> /\ Len(p) = 2
           /\ Head(<<p[2]>>) = p[2] /\ Tail(<<p[2]>>) = <<>> /\ Len(<<p[2]>>) = 1
           /\ p # <<p[2]>> /\ DOMAIN p = {1, 2}
           /\ p \in Names /\ <<p[2]>> \in Names /\ <<>> \in Names
<1>1. PICK s \in Slugs, t \in Slugs : p = <<s, t>>
  OBVIOUS
<1>2. p[1] = s /\ p[2] = t
  BY <1>1
<1>3. Head(p) = s /\ Tail(p) = <<t>> /\ Len(p) = 2 /\ DOMAIN p = {1, 2}
  BY <1>1
<1>4. Head(<<t>>) = t /\ Tail(<<t>>) = <<>> /\ Len(<<t>>) = 1
  OBVIOUS
<1>5. p # <<t>>
  BY <1>3, <1>4
<1>6. QED
  BY <1>2, <1>3, <1>4, <1>5 DEF Names

LEMMA ReadyFacts ==
    /\ Ready \in TagRequest
    /\ Ready.pc = "idle" /\ Ready.event = 0 /\ Ready.asked = <<>> /\ Ready.left = <<>>
    /\ Ready.new_tags = {} /\ Ready.new_links = {} /\ Ready.lost = {}
  BY DEF Ready, TagRequest, Names

\* A request that is not working holds nothing.
LEMMA RestingInv ==
    ASSUME NEW q \in TagRequest, q.new_tags = {}, q.new_links = {},
           \/ q.pc \in {"idle", "done", "failed"}
           \/ q.pc = "remove" /\ q.event \in Events /\ \E s \in Slugs : q.asked = <<s>>,
           NEW T, NEW L
    PROVE  HeldInv(q) /\ RowsInv(q, T, L)
  BY DEF HeldInv, RowsInv, First, Second, Working

\* The commits of others add tags that q does not insert, and links.
LEMMA RowsKept ==
    ASSUME NEW q \in TagRequest, NEW T, NEW L, NEW U, NEW M, RowsInv(q, T, L),
           T \subseteq U, q.new_tags \cap U = {}, L \subseteq M
    PROVE  RowsInv(q, U, M)
  BY DEF RowsInv

\* A step of r alone that commits nothing.
LEMMA OwnStep ==
    ASSUME TagsInv, NEW r \in TagRequests, NEW q \in TagRequest, Become(r, q),
           UNCHANGED <<tags, links, granted>>,
           HeldInv(q), RowsInv(q, tags, links),
           \A o \in TagRequests \ {r} : q.new_tags \cap tagging[o].new_tags = {}
    PROVE  TagsInv'
<1>1. /\ tagging' \in [TagRequests -> TagRequest]
      /\ tagging'[r] = q
      /\ \A o \in TagRequests \ {r} : tagging'[o] = tagging[o]
  BY DEF TagsInv, Become
<1>2. \A o \in TagRequests : HeldInv(tagging'[o]) /\ RowsInv(tagging'[o], tags, links)
  BY <1>1 DEF TagsInv
<1>3. \A o, p \in TagRequests :
        o # p => tagging'[o].new_tags \cap tagging'[p].new_tags = {}
  BY <1>1 DEF TagsInv
<1>4. QED
  BY <1>1, <1>2, <1>3 DEF TagsInv, AllOrNothing

\* ROLLBACK.
LEMMA FailsKeeps ==
    ASSUME TagsInv, NEW r \in TagRequests, TagFails(r)
    PROVE  TagsInv'
<1> DEFINE q == [Ready EXCEPT !.pc = "failed"]
<1>1. q \in TagRequest /\ q.pc = "failed" /\ q.new_tags = {} /\ q.new_links = {}
  BY ReadyFacts DEF TagRequest
<1>2. Become(r, q) /\ UNCHANGED <<tags, links, granted>>
  BY DEF TagFails
<1> HIDE DEF q
<1>3. HeldInv(q) /\ RowsInv(q, tags, links)
  BY <1>1 DEF HeldInv, RowsInv, First, Second, Working
<1>4. QED
  BY <1>1, <1>2, <1>3, OwnStep

LEMMA BeginAddKeeps ==
    ASSUME TagsInv, NEW r \in TagRequests, NEW e \in Events,
           NEW names \in Slugs \X Slugs, BeginAdd(r, e, names)
    PROVE  TagsInv'
<1> DEFINE q == [Ready EXCEPT !.pc = "tag", !.event = e, !.asked = names, !.left = names]
<1>1. /\ q \in TagRequest /\ q.pc = "tag" /\ q.event = e
      /\ q.asked = names /\ q.left = names /\ q.new_tags = {} /\ q.new_links = {}
  BY ReadyFacts, PairFacts DEF TagRequest, Working
<1>2. Become(r, q) /\ UNCHANGED <<tags, links, granted>>
  BY DEF BeginAdd
<1> HIDE DEF q
<1>3. HeldInv(q) /\ RowsInv(q, tags, links)
  BY <1>1, PairFacts DEF HeldInv, RowsInv, First, Second, Working
<1>4. QED
  BY <1>1, <1>2, <1>3, OwnStep

LEMMA BeginRemoveKeeps ==
    ASSUME TagsInv, NEW r \in TagRequests, NEW e \in Events, NEW s \in Slugs,
           BeginRemoveTag(r, e, s)
    PROVE  TagsInv'
<1> DEFINE q == [Ready EXCEPT !.pc = "remove", !.event = e, !.asked = <<s>>]
<1>1. /\ q \in TagRequest /\ q.pc = "remove" /\ q.event = e
      /\ q.asked = <<s>> /\ q.new_tags = {} /\ q.new_links = {}
  <2>1. <<s>> \in Names
    BY DEF Names
  <2>2. QED
    BY <2>1, ReadyFacts DEF TagRequest, Working
<1>2. Become(r, q) /\ UNCHANGED <<tags, links, granted>>
  BY DEF BeginRemoveTag
<1> HIDE DEF q
<1>3. HeldInv(q) /\ RowsInv(q, tags, links)
  <2>1. \E x \in Slugs : q.asked = <<x>>
    BY <1>1
  <2>2. QED
    BY <1>1, <2>1, RestingInv
<1>4. QED
  BY <1>1, <1>2, <1>3, OwnStep

LEMMA SelectTagKeeps ==
    ASSUME TagsInv, NEW r \in TagRequests, SelectTag(r)
    PROVE  TagsInv'
<1> DEFINE t == tagging[r]
           pc == IF Slug(r) \in tags \cup t.new_tags THEN "link" ELSE "insert_tag"
           q == [t EXCEPT !.pc = pc]
<1>1. /\ t \in TagRequest /\ t.pc = "tag" /\ HeldInv(t) /\ RowsInv(t, tags, links)
      /\ \A o \in TagRequests \ {r} : t.new_tags \cap tagging[o].new_tags = {}
      /\ Slug(r) = Head(t.left)
  BY DEF TagsInv, SelectTag, Slug
<1>2. Become(r, q) /\ UNCHANGED <<tags, links, granted>>
  BY DEF SelectTag, TagGoto
<1>3. /\ pc \in {"link", "insert_tag"}
      /\ pc = "link" <=> Head(t.left) \in tags \cup t.new_tags
  BY <1>1
<1> HIDE DEF t, pc
<1>4. /\ q \in TagRequest /\ q.pc = pc /\ q.event = t.event /\ q.asked = t.asked
      /\ q.left = t.left /\ q.new_tags = t.new_tags /\ q.new_links = t.new_links
      /\ q.lost = t.lost
  BY <1>1, <1>3 DEF TagRequest, Working
<1> HIDE DEF q
<1>5. q.asked \in Slugs \X Slugs /\ (First(t) \/ Second(t))
      /\ (First(q) <=> First(t)) /\ (Second(q) <=> Second(t))
  BY <1>1, <1>3, <1>4 DEF HeldInv, First, Second, Working
<1>6. HeldInv(q)
  <2>1. CASE First(t)
    BY <1>1, <1>3, <1>4, <1>5, <2>1, PairFacts DEF HeldInv, First, Second, Working
  <2>2. CASE Second(t)
    <3>1. t.asked[1] \in tags \cup t.new_tags /\ Head(t.left) = t.asked[2]
      BY <1>1, <1>4, <1>5, <2>2, PairFacts DEF RowsInv, Second
    <3>2. pc = "insert_tag" => t.asked[1] # t.asked[2]
      BY <1>3, <3>1
    <3>3. QED
      BY <1>1, <1>3, <1>4, <1>5, <2>2, <3>1, <3>2, PairFacts
         DEF HeldInv, First, Second, Working
  <2>3. QED
    BY <1>5, <2>1, <2>2
<1>7. RowsInv(q, tags, links)
  BY <1>1, <1>3, <1>4, <1>5 DEF RowsInv
<1>8. QED
  BY <1>1, <1>2, <1>4, <1>6, <1>7, OwnStep

\* The key is free: the tag is neither there nor about to be.
LEMMA InsertTagKeeps ==
    ASSUME TagsInv, NEW r \in TagRequests, InsertTag(r)
    PROVE  TagsInv'
<1> DEFINE t == tagging[r]
           s == Slug(r)
           q == [t EXCEPT !.pc = "link", !.new_tags = t.new_tags \cup {s}]
<1>1. /\ t \in TagRequest /\ t.pc = "insert_tag" /\ HeldInv(t) /\ RowsInv(t, tags, links)
      /\ \A o \in TagRequests \ {r} : t.new_tags \cap tagging[o].new_tags = {}
      /\ s = Head(t.left) /\ s \notin tags
      /\ \A o \in TagRequests \ {r} : s \notin tagging[o].new_tags
  BY DEF TagsInv, InsertTag, Slug, WaitsFor
<1>2. Become(r, q) /\ UNCHANGED <<tags, links, granted>>
  BY DEF InsertTag
<1>3. /\ t.asked \in Slugs \X Slugs /\ (First(t) \/ Second(t))
      /\ First(t) => s = t.asked[1]
      /\ Second(t) => s = t.asked[2] /\ t.asked[1] # t.asked[2]
      /\ s \in Slugs
  BY <1>1, PairFacts DEF HeldInv, First, Second, Working
<1> HIDE DEF t, s
<1>4. /\ q \in TagRequest /\ q.pc = "link" /\ q.event = t.event /\ q.asked = t.asked
      /\ q.left = t.left /\ q.new_tags = t.new_tags \cup {s} /\ q.new_links = t.new_links
      /\ q.lost = t.lost
  BY <1>1, <1>3 DEF TagRequest, Working
<1> HIDE DEF q
<1>5. (First(q) <=> First(t)) /\ (Second(q) <=> Second(t))
  BY <1>1, <1>4 DEF First, Second, Working
<1>6. HeldInv(q)
  <2>1. CASE First(t)
    BY <1>1, <1>3, <1>4, <1>5, <2>1, PairFacts DEF HeldInv, First, Second, Working
  <2>2. CASE Second(t)
    BY <1>1, <1>3, <1>4, <1>5, <2>2, PairFacts DEF HeldInv, First, Second, Working
  <2>3. QED
    BY <1>3, <2>1, <2>2
<1>7. RowsInv(q, tags, links)
  BY <1>1, <1>3, <1>4, <1>5 DEF RowsInv
<1>8. \A o \in TagRequests \ {r} : q.new_tags \cap tagging[o].new_tags = {}
  BY <1>1, <1>4
<1>9. QED
  BY <1>1, <1>2, <1>4, <1>6, <1>7, <1>8, OwnStep

LEMMA NextNameFacts ==
    ASSUME NEW q \in TagRequest, HeldInv(q), q.pc \in Working
    PROVE  /\ NextName(q) \in TagRequest
           /\ NextName(q).event = q.event /\ NextName(q).asked = q.asked
           /\ NextName(q).new_tags = q.new_tags /\ NextName(q).new_links = q.new_links
           /\ NextName(q).lost = q.lost
           /\ First(q) => /\ NextName(q).pc = "tag" /\ Second(NextName(q))
                          /\ NextName(q).left = <<q.asked[2]>> /\ ~First(NextName(q))
           /\ Second(q) => NextName(q).pc = "commit"
<1>1. q.asked \in Slugs \X Slugs /\ (First(q) \/ Second(q))
  BY DEF HeldInv
<1> DEFINE pc == IF Len(q.left) = 1 THEN "commit" ELSE "tag"
           left == Tail(q.left)
<1>2. /\ First(q) => pc = "tag" /\ left = <<q.asked[2]>>
      /\ Second(q) => pc = "commit" /\ left = <<>>
  <2>1. CASE First(q)
    <3>1. q.left = q.asked /\ Len(q.left) = 2 /\ q.left # <<q.asked[2]>>
          /\ Tail(q.left) = <<q.asked[2]>>
      BY <1>1, <2>1, PairFacts DEF First
    <3>2. QED
      BY <3>1 DEF Second
  <2>2. CASE Second(q)
    <3>1. q.left = <<q.asked[2]>> /\ Len(q.left) = 1 /\ q.left # q.asked
          /\ Tail(q.left) = <<>>
      BY <1>1, <2>2, PairFacts DEF Second
    <3>2. QED
      BY <3>1 DEF First
  <2>3. QED
    BY <1>1, <2>1, <2>2
<1>3. NextName(q) = [q EXCEPT !.left = left, !.pc = pc]
  BY DEF NextName
<1>4. pc \in {"tag", "commit"} /\ left \in Names
  BY <1>1, <1>2, PairFacts
<1> HIDE DEF pc, left
<1>5. /\ NextName(q) \in TagRequest
      /\ NextName(q).event = q.event /\ NextName(q).asked = q.asked
      /\ NextName(q).new_tags = q.new_tags /\ NextName(q).new_links = q.new_links
      /\ NextName(q).lost = q.lost /\ NextName(q).pc = pc /\ NextName(q).left = left
  BY <1>3, <1>4 DEF TagRequest, Working
<1>6. QED
  BY <1>1, <1>2, <1>5, PairFacts DEF First, Second, Working

\* The name is dealt with, its link being there or inserted by q itself.
LEMMA NextNameInv ==
    ASSUME NEW t \in TagRequest, HeldInv(t), RowsInv(t, tags, links),
           t.pc \in {"link", "insert_link"}, NEW q \in TagRequest,
           q.pc = NextName(t).pc, q.left = NextName(t).left,
           q.event = t.event, q.asked = t.asked, q.lost = t.lost,
           q.new_tags = t.new_tags,
           \/ q.new_links = t.new_links
           \/ q.new_links = t.new_links \cup {Head(t.left)},
           \/ Head(t.left) \in q.new_links
           \/ <<t.event, Head(t.left)>> \in links
    PROVE  HeldInv(q) /\ RowsInv(q, tags, links)
<1>1. t.asked \in Slugs \X Slugs /\ (First(t) \/ Second(t)) /\ t.pc \in Working
  BY DEF HeldInv, Working
<1>2. CASE First(t)
  <2>1. /\ q.pc = "tag" /\ q.left = <<t.asked[2]>> /\ Head(t.left) = t.asked[1]
        /\ Second(q) /\ ~First(q)
    BY <1>1, <1>2, NextNameFacts, PairFacts DEF First, Second, Working
  <2>2. HeldInv(q)
    BY <1>1, <1>2, <2>1, PairFacts DEF HeldInv, Working
  <2>3. RowsInv(q, tags, links)
    BY <1>1, <1>2, <2>1 DEF RowsInv
  <2>4. QED
    BY <2>2, <2>3
<1>3. CASE Second(t)
  <2>1. q.pc = "commit" /\ Head(t.left) = t.asked[2] /\ ~First(q) /\ ~Second(q)
    BY <1>1, <1>3, NextNameFacts, PairFacts DEF First, Second, Working
  <2>2. HeldInv(q)
    BY <1>1, <1>3, <2>1, PairFacts DEF HeldInv, Working
  <2>3. RowsInv(q, tags, links)
    BY <1>1, <1>3, <2>1 DEF RowsInv
  <2>4. QED
    BY <2>2, <2>3
<1>4. QED
  BY <1>1, <1>2, <1>3

LEMMA SelectLinkKeeps ==
    ASSUME TagsInv, NEW r \in TagRequests, SelectLink(r)
    PROVE  TagsInv'
<1> DEFINE t == tagging[r]
<1>1. /\ t \in TagRequest /\ t.pc = "link" /\ HeldInv(t) /\ RowsInv(t, tags, links)
      /\ \A o \in TagRequests \ {r} : t.new_tags \cap tagging[o].new_tags = {}
      /\ Slug(r) = Head(t.left)
      /\ UNCHANGED <<tags, links, granted>>
  BY DEF TagsInv, SelectLink, Slug
<1>2. CASE Slug(r) \in t.new_links \/ <<t.event, Slug(r)>> \in links
  <2>1. Become(r, NextName(t))
    BY <1>2 DEF SelectLink
  <2>2. /\ NextName(t) \in TagRequest
        /\ NextName(t).new_tags = t.new_tags
        /\ NextName(t).event = t.event /\ NextName(t).asked = t.asked
        /\ NextName(t).new_links = t.new_links /\ NextName(t).lost = t.lost
    BY <1>1, NextNameFacts DEF Working
  <2>3. HeldInv(NextName(t)) /\ RowsInv(NextName(t), tags, links)
    BY <1>1, <1>2, <2>2, NextNameInv
  <2>4. QED
    BY <1>1, <2>1, <2>2, <2>3, OwnStep
<1>3. CASE ~(Slug(r) \in t.new_links \/ <<t.event, Slug(r)>> \in links)
  <2> DEFINE q == [t EXCEPT !.pc = "insert_link"]
  <2>1. Become(r, q)
    BY <1>3 DEF SelectLink, TagGoto
  <2>2. /\ q \in TagRequest /\ q.pc = "insert_link" /\ q.event = t.event
        /\ q.asked = t.asked /\ q.left = t.left /\ q.new_tags = t.new_tags
        /\ q.new_links = t.new_links /\ q.lost = t.lost
    BY <1>1 DEF TagRequest, Working
  <2> HIDE DEF q
  <2>3. HeldInv(q) /\ RowsInv(q, tags, links)
    BY <1>1, <1>3, <2>2 DEF HeldInv, RowsInv, First, Second, Working
  <2>4. QED
    BY <1>1, <2>1, <2>2, <2>3, OwnStep
<1>4. QED
  BY <1>2, <1>3

LEMMA InsertLinkKeeps ==
    ASSUME TagsInv, NEW r \in TagRequests, InsertLink(r)
    PROVE  TagsInv'
<1> DEFINE t == tagging[r]
           s == Slug(r)
           n == NextName(t)
           q == [n EXCEPT !.new_links = n.new_links \cup {s}]
<1>1. /\ t \in TagRequest /\ t.pc = "insert_link" /\ HeldInv(t) /\ RowsInv(t, tags, links)
      /\ \A o \in TagRequests \ {r} : t.new_tags \cap tagging[o].new_tags = {}
      /\ s = Head(t.left)
      /\ UNCHANGED <<tags, links, granted>>
  BY DEF TagsInv, InsertLink, Slug
<1>2. Become(r, q)
  BY DEF InsertLink
<1>3. /\ n \in TagRequest
      /\ n.event = t.event /\ n.asked = t.asked /\ n.new_tags = t.new_tags
      /\ n.new_links = t.new_links /\ n.lost = t.lost
  BY <1>1, NextNameFacts DEF Working
<1>4. s \in Slugs
  BY <1>1, PairFacts DEF HeldInv, First, Second, Working
<1> HIDE DEF n, s
<1>5. /\ q \in TagRequest
      /\ q.event = t.event /\ q.asked = t.asked /\ q.new_tags = t.new_tags
      /\ q.new_links = t.new_links \cup {s} /\ q.lost = t.lost
      /\ q.pc = n.pc /\ q.left = n.left
  BY <1>3, <1>4 DEF TagRequest
<1> HIDE DEF q
<1>6. HeldInv(q) /\ RowsInv(q, tags, links)
  BY <1>1, <1>5, NextNameInv DEF n
<1>7. QED
  BY <1>1, <1>2, <1>5, <1>6, OwnStep

LEMMA DoneFacts ==
    LET q == [Ready EXCEPT !.pc = "done"] IN
    /\ q \in TagRequest /\ q.pc = "done" /\ q.new_tags = {} /\ q.new_links = {}
    /\ HeldInv(q)
    /\ \A T, L : RowsInv(q, T, L)
<1> DEFINE q == [Ready EXCEPT !.pc = "done"]
<1>1. q \in TagRequest /\ q.pc = "done" /\ q.new_tags = {} /\ q.new_links = {}
  BY ReadyFacts DEF TagRequest
<1> HIDE DEF q
<1>2. HeldInv(q) /\ \A T, L : RowsInv(q, T, L)
  BY <1>1 DEF HeldInv, RowsInv, First, Second, Working
<1>3. QED
  BY <1>1, <1>2 DEF q

\* The names of a request that commits.
LEMMA AskedPair ==
    ASSUME NEW q \in TagRequest, q.asked \in Slugs \X Slugs
    PROVE  Asked(q) = {<<q.event, q.asked[1]>>, <<q.event, q.asked[2]>>}
<1>1. DOMAIN q.asked = {1, 2}
  BY PairFacts
<1>2. QED
  BY <1>1 DEF Asked

\* COMMIT: others neither insert these tags nor lose what they have linked.
LEMMA CommitTagsKeeps ==
    ASSUME TagsInv, NEW r \in TagRequests, CommitTags(r)
    PROVE  TagsInv'
<1> DEFINE q == tagging[r]
           d == [Ready EXCEPT !.pc = "done"]
<1>1. /\ q \in TagRequest /\ q.pc = "commit" /\ HeldInv(q) /\ RowsInv(q, tags, links)
      /\ tags' = tags \cup q.new_tags
      /\ links' = links \cup {<<q.event, s>> : s \in q.new_links}
      /\ granted' = granted \cup Asked(q)
      /\ Become(r, d)
  BY DEF TagsInv, CommitTags
<1>2. /\ d \in TagRequest /\ d.new_tags = {}
      /\ HeldInv(d) /\ \A T, L : RowsInv(d, T, L)
  BY DoneFacts
<1> HIDE DEF d
<1>3. /\ tagging' \in [TagRequests -> TagRequest]
      /\ tagging'[r] = d
      /\ \A o \in TagRequests \ {r} : tagging'[o] = tagging[o]
  BY <1>1, <1>2 DEF TagsInv, Become
<1>4. /\ q.asked \in Slugs \X Slugs /\ q.event \in Events
      /\ q.asked[1] \in Slugs /\ q.asked[2] \in Slugs
      /\ q.new_links \cup q.new_tags \subseteq {q.asked[1], q.asked[2]}
      /\ q.new_links \subseteq tags \cup q.new_tags
      /\ Asked(q) = {<<q.event, q.asked[1]>>, <<q.event, q.asked[2]>>}
  BY <1>1, PairFacts, AskedPair DEF HeldInv, RowsInv
<1> HIDE DEF q
<1>5. tags' \subseteq Slugs /\ links' \subseteq Links /\ granted' \subseteq Links
  BY <1>1, <1>4 DEF TagsInv, Links, TagRequest
<1>6. \A l \in links' : l[2] \in tags'
  BY <1>1, <1>4 DEF TagsInv
<1>7. \A o \in TagRequests : HeldInv(tagging'[o]) /\ RowsInv(tagging'[o], tags', links')
  <2>1. ASSUME NEW o \in TagRequests \ {r}
        PROVE  RowsInv(tagging[o], tags', links')
    <3>1. tagging[o] \in TagRequest /\ RowsInv(tagging[o], tags, links)
          /\ tagging[o].new_tags \cap q.new_tags = {}
      BY DEF TagsInv, q
    <3>2. tags \subseteq tags' /\ links \subseteq links'
          /\ tagging[o].new_tags \cap tags' = {}
      BY <1>1, <3>1 DEF RowsInv
    <3>3. QED
      BY <3>1, <3>2, RowsKept
  <2>2. QED
    BY <1>2, <1>3, <2>1 DEF TagsInv
<1>8. \A o, p \in TagRequests :
        o # p => tagging'[o].new_tags \cap tagging'[p].new_tags = {}
  BY <1>2, <1>3 DEF TagsInv
<1>9. AllOrNothing'
  <2>1. links' \subseteq granted'
    BY <1>1, <1>4 DEF TagsInv, AllOrNothing
  <2>2. \A t \in q.new_tags : \E l \in granted' : l[2] = t
    BY <1>1, <1>4
  <2>3. tags' \subseteq {l[2] : l \in granted'}
    BY <1>1, <2>2 DEF TagsInv, AllOrNothing
  <2>4. QED
    BY <2>1, <2>3 DEF AllOrNothing
<1>10. QED
  BY <1>3, <1>5, <1>6, <1>7, <1>8, <1>9 DEF TagsInv

\* The other requests for the event are told of the link that is gone.
LEMMA LostKept ==
    ASSUME NEW q \in TagRequest, NEW s \in Slugs, NEW x,
           x = [q EXCEPT !.lost = q.lost \cup {s}],
           HeldInv(q), RowsInv(q, tags, links)
    PROVE  /\ x \in TagRequest /\ HeldInv(x) /\ x.new_tags = q.new_tags
           /\ RowsInv(x, tags, links \ {<<q.event, s>>})
<1>1. /\ x \in TagRequest /\ x.pc = q.pc /\ x.event = q.event
      /\ x.asked = q.asked /\ x.left = q.left /\ x.new_tags = q.new_tags
      /\ x.new_links = q.new_links /\ x.lost = q.lost \cup {s}
  BY DEF TagRequest
<1>2. (First(x) <=> First(q)) /\ (Second(x) <=> Second(q))
  BY <1>1 DEF First, Second
<1>3. HeldInv(x)
  BY <1>1, <1>2 DEF HeldInv
<1>4. RowsInv(x, tags, links \ {<<q.event, s>>})
  <2>1. \A a : <<q.event, a>> \in links => a = s \/ <<q.event, a>> \in links \ {<<q.event, s>>}
    OBVIOUS
  <2>2. QED
    BY <1>1, <1>2, <2>1 DEF RowsInv
<1>5. QED
  BY <1>1, <1>3, <1>4

LEMMA RemoveTagKeeps ==
    ASSUME TagsInv, NEW r \in TagRequests, RemoveTag(r)
    PROVE  TagsInv'
<1> DEFINE q == tagging[r]
           d == [Ready EXCEPT !.pc = "done"]
           e == q.event
<1>1. /\ q \in TagRequest /\ q.pc = "remove" /\ HeldInv(q)
      /\ links' = links \ Asked(q)
      /\ tagging' = [o \in TagRequests |->
                       CASE o = r -> d
                         [] o # r /\ tagging[o].event = e ->
                              [tagging[o] EXCEPT !.lost = @ \cup {q.asked[1]}]
                         [] OTHER -> tagging[o]]
      /\ UNCHANGED <<tags, granted>>
  BY DEF TagsInv, RemoveTag
<1>2. /\ d \in TagRequest /\ d.new_tags = {}
      /\ HeldInv(d) /\ \A T, L : RowsInv(d, T, L)
  BY DoneFacts
<1> HIDE DEF d
<1>3. PICK s \in Slugs : q.asked = <<s>>
  BY <1>1 DEF HeldInv
<1>4. q.asked[1] = s /\ Asked(q) = {<<e, s>>}
  <2>1. DOMAIN q.asked = {1} /\ q.asked[1] = s
    BY <1>3
  <2>2. QED
    BY <2>1 DEF Asked
<1> HIDE DEF e
<1>5. links' = links \ {<<e, s>>}
  BY <1>1, <1>4
<1>6. ASSUME NEW o \in TagRequests \ {r}, tagging[o].event = e
      PROVE  /\ tagging'[o] \in TagRequest /\ HeldInv(tagging'[o])
             /\ tagging'[o].new_tags = tagging[o].new_tags
             /\ RowsInv(tagging'[o], tags, links')
  <2>1. tagging'[o] = [tagging[o] EXCEPT !.lost = tagging[o].lost \cup {s}]
    BY <1>1, <1>4, <1>6
  <2>2. tagging[o] \in TagRequest /\ HeldInv(tagging[o]) /\ RowsInv(tagging[o], tags, links)
    BY DEF TagsInv
  <2>3. links' = links \ {<<tagging[o].event, s>>}
    BY <1>5, <1>6
  <2>4. /\ tagging'[o] \in TagRequest /\ HeldInv(tagging'[o])
        /\ tagging'[o].new_tags = tagging[o].new_tags
        /\ RowsInv(tagging'[o], tags, links \ {<<tagging[o].event, s>>})
    BY <2>1, <2>2, LostKept
  <2>5. QED
    BY <2>3, <2>4
<1>7. ASSUME NEW o \in TagRequests \ {r}, tagging[o].event # e
      PROVE  /\ tagging'[o] = tagging[o] /\ tagging[o] \in TagRequest
             /\ HeldInv(tagging[o]) /\ RowsInv(tagging[o], tags, links')
  <2>1. tagging'[o] = tagging[o]
    BY <1>1, <1>7
  <2>2. tagging[o] \in TagRequest /\ HeldInv(tagging[o]) /\ RowsInv(tagging[o], tags, links)
    BY DEF TagsInv
  <2>3. \A a : <<tagging[o].event, a>> \in links => <<tagging[o].event, a>> \in links'
    BY <1>5, <1>7
  <2>4. RowsInv(tagging[o], tags, links')
    BY <2>2, <2>3 DEF RowsInv
  <2>5. QED
    BY <2>1, <2>2, <2>4
<1>8. tagging'[r] = d
  BY <1>1
<1>9. \A o \in TagRequests : /\ tagging'[o] \in TagRequest /\ HeldInv(tagging'[o])
                             /\ RowsInv(tagging'[o], tags, links')
                             /\ tagging'[o].new_tags \subseteq tagging[o].new_tags
  BY <1>2, <1>6, <1>7, <1>8
<1>10. tagging' \in [TagRequests -> TagRequest]
  <2>1. DOMAIN tagging' = TagRequests /\ tagging' = [o \in TagRequests |-> tagging'[o]]
    BY <1>1
  <2>2. QED
    BY <1>9, <2>1
<1>11. \A o, p \in TagRequests :
         o # p => tagging'[o].new_tags \cap tagging'[p].new_tags = {}
  BY <1>9 DEF TagsInv
<1>12. AllOrNothing'
  BY <1>1, <1>5 DEF TagsInv, AllOrNothing
<1>13. tags' = tags /\ granted' = granted /\ links' \subseteq links
  BY <1>1, <1>5
<1>14. tags' \subseteq Slugs /\ links' \subseteq Links /\ granted' \subseteq Links
       /\ \A l \in links' : l[2] \in tags'
  BY <1>13 DEF TagsInv
<1>15. \A o \in TagRequests : RowsInv(tagging'[o], tags', links')
  BY <1>9, <1>13
<1>16. QED
  BY <1>9, <1>10, <1>11, <1>12, <1>14, <1>15 DEF TagsInv

LEMMA TagsInvInit == TagsInit => TagsInv
<1> SUFFICES ASSUME TagsInit PROVE TagsInv
  OBVIOUS
<1>1. /\ tags = {l[2] : l \in links} /\ granted = links
      /\ links \subseteq Links /\ \A r \in TagRequests : tagging[r] = Ready
  BY TagsAssumption DEF TagsInit, Links
<1>2. tagging \in [TagRequests -> TagRequest]
  BY ReadyFacts DEF TagsInit
<1>3. tags \subseteq Slugs
  <2>1. \A l \in Links : l[2] \in Slugs
    BY DEF Links
  <2>2. QED
    BY <1>1, <2>1
<1>4. HeldInv(Ready) /\ RowsInv(Ready, tags, links)
  BY ReadyFacts DEF HeldInv, RowsInv, First, Second, Working
<1>5. AllOrNothing
  BY <1>1 DEF AllOrNothing
<1>6. QED
  BY <1>1, <1>2, <1>3, <1>4, <1>5, ReadyFacts DEF TagsInv

LEMMA TagStepKeeps ==
    ASSUME TagsInv, NEW r \in TagRequests, TagStep(r)
    PROVE  TagsInv'
<1>1. CASE \E e \in Events :
             \/ \E names \in Slugs \X Slugs : BeginAdd(r, e, names)
             \/ \E s \in Slugs : BeginRemoveTag(r, e, s)
  BY <1>1, BeginAddKeeps, BeginRemoveKeeps
<1>2. CASE InsertConflictsWithOther(r) \/ TagDeadlock(r) \/ TagRequestDies(r)
  BY <1>2, FailsKeeps DEF InsertConflictsWithOther, TagDeadlock, TagRequestDies
<1>3. QED
  BY <1>1, <1>2, SelectTagKeeps, InsertTagKeeps, SelectLinkKeeps, InsertLinkKeeps,
     CommitTagsKeeps, RemoveTagKeeps DEF TagStep

-----------------------------------------------------------------------------
(* Circles of requests. *)

\* Who waits, and is waited for, waits at its second name with a lock on its
\* first: what it is about to insert itself is nobody's.
LEMMA WaitersHoldFirst ==
    ASSUME TagsInv, NEW r \in TagRequests, NEW o \in TagRequests, NEW p \in TagRequests,
           o \in WaitsFor(r), p \in WaitsFor(o)
    PROVE  /\ Slug(r) = tagging[o].asked[1]
           /\ Slug(o) = tagging[o].asked[2]
           /\ tagging[o].asked \in Slugs \X Slugs
           /\ tagging[o].asked[1] # tagging[o].asked[2]
<1> DEFINE q == tagging[o]
<1>1. /\ q \in TagRequest /\ HeldInv(q) /\ RowsInv(q, tags, links)
      /\ HeldInv(tagging[p]) /\ RowsInv(tagging[p], tags, links)
      /\ q.new_tags \cap tagging[p].new_tags = {}
  BY DEF TagsInv, WaitsFor
<1>2. Slug(r) \in q.new_tags \cup q.new_links
  BY DEF WaitsFor
<1>3. q.pc \in {"insert_tag", "insert_link"} /\ Slug(o) = Head(q.left)
  BY DEF WaitsFor, Slug
<1>4. q.pc = "insert_link" => Slug(o) \in tagging[p].new_links
  BY <1>3 DEF WaitsFor
<1>5. Slug(o) \notin q.new_tags
  BY <1>1, <1>3, <1>4 DEF HeldInv, RowsInv
<1>6. Slug(o) \notin q.new_links
  <2>1. CASE q.pc = "insert_link"
    BY <1>1, <1>3, <2>1 DEF HeldInv
  <2>2. CASE q.pc = "insert_tag"
    BY <1>1, <1>3, <2>2, PairFacts DEF HeldInv, First, Second, Working
  <2>3. QED
    BY <1>3, <2>1, <2>2
<1>7. q.asked \in Slugs \X Slugs /\ (First(q) \/ Second(q))
  BY <1>1, <1>3 DEF HeldInv, Working
<1>8. CASE First(q)
  <2>1. Slug(o) = q.asked[1] /\ q.new_links = {} /\ q.new_tags \subseteq {q.asked[1]}
    BY <1>1, <1>3, <1>7, <1>8, PairFacts DEF HeldInv, First
  <2>2. QED
    BY <1>2, <1>5, <2>1
<1>9. CASE Second(q)
  <2>1. Slug(o) = q.asked[2] /\ q.new_links \subseteq {q.asked[1]}
        /\ q.new_tags \subseteq {q.asked[1], q.asked[2]}
    BY <1>1, <1>3, <1>7, <1>9, PairFacts DEF HeldInv, Second
  <2>2. QED
    BY <1>2, <1>5, <1>6, <1>7, <2>1
<1>10. QED
  BY <1>7, <1>8, <1>9

\* The least of a set of numbers.
LEMMA Smallest ==
    ASSUME NEW T, T \subseteq Nat, T # {}
    PROVE  \E m \in T : \A n \in T : m <= n
<1>1. IsWellFoundedOn(OpToRel(<, Nat), Nat)
  BY NatLessThanWellFounded
<1>2. PICK m \in T : \A n \in T : ~ (<<n, m>> \in OpToRel(<, Nat))
  BY <1>1, WFMin
<1>3. ASSUME NEW n \in T, n < m PROVE <<n, m>> \in OpToRel(<, Nat)
  BY <1>3 DEF OpToRel
<1>4. \A n \in T : ~ (n < m)
  BY <1>2, <1>3
<1>5. m \in Nat /\ \A n \in T : n \in Nat
  OBVIOUS
<1>6. QED
  BY <1>4, <1>5

\* The first tag of the least rank would be waited for by a request that holds
\* one of a still smaller rank.
LEMMA CirclesContradict == TagsInv => DeadlockNeedsOppositeOrders
<1> SUFFICES ASSUME TagsInv, NEW S \in SUBSET TagRequests, S # {}, Circle(S),
                    NEW rank \in [Slugs -> 1 .. Cardinality(Slugs)],
                    \A r \in S : Follows(r, rank)
             PROVE  FALSE
  BY DEF DeadlockNeedsOppositeOrders
<1>1. Cardinality(Slugs) \in Nat
  BY TagsAssumption, FS_CardinalityType
<1>2. \A s \in Slugs : rank[s] \in Nat
  BY <1>1
<1>3. \A o \in S : \E r \in S : /\ Slug(r) = tagging[o].asked[1]
                               /\ Slug(o) = tagging[o].asked[2]
                               /\ tagging[o].asked \in Slugs \X Slugs
                               /\ tagging[o].asked[1] # tagging[o].asked[2]
  <2> SUFFICES ASSUME NEW o \in S
               PROVE  \E r \in S : /\ Slug(r) = tagging[o].asked[1]
                                   /\ Slug(o) = tagging[o].asked[2]
                                   /\ tagging[o].asked \in Slugs \X Slugs
                                   /\ tagging[o].asked[1] # tagging[o].asked[2]
    OBVIOUS
  <2>1. PICK p \in S : p \in WaitsFor(o)
    BY DEF Circle
  <2>2. PICK r \in S : o \in WaitsFor(r)
    BY DEF Circle
  <2>3. QED
    BY <2>1, <2>2, WaitersHoldFirst
<1> DEFINE N == {rank[tagging[o].asked[1]] : o \in S}
<1>4. N \in SUBSET Nat /\ N # {}
  BY <1>2, <1>3, PairFacts
<1>5. PICK n \in N : \A m \in N : n <= m
  BY <1>4, Smallest
<1>6. PICK o \in S : n = rank[tagging[o].asked[1]]
  BY <1>5
<1>7. PICK r \in S : Slug(r) = tagging[o].asked[1]
  BY <1>3
<1>8. /\ tagging[r].asked[2] = tagging[o].asked[1]
      /\ tagging[r].asked[1] # tagging[r].asked[2]
      /\ tagging[r].asked \in Slugs \X Slugs
  BY <1>3, <1>7
<1>9. rank[tagging[r].asked[1]] < n
  BY <1>6, <1>8 DEF Follows
<1>10. rank[tagging[r].asked[1]] \in N
  OBVIOUS
<1>11. n \in Nat /\ rank[tagging[r].asked[1]] \in Nat
  BY <1>4, <1>10
<1>12. n <= rank[tagging[r].asked[1]]
  BY <1>5, <1>10
<1> HIDE DEF N
<1>13. \A i, j \in Nat : i <= j => ~(j < i)
  OBVIOUS
<1>14. QED
  BY <1>9, <1>11, <1>12, <1>13

-----------------------------------------------------------------------------
(* The size of a page: the number of later events numbers those of a list  *)
(* from 0, and a page takes those whose numbers are in its range.          *)

LEMMA Divided ==
    ASSUME NEW c \in Nat, NEW p \in Nat \ {0}
    PROVE  c \div PageSize = p - 1 <=> (p - 1) * PageSize <= c /\ c < p * PageSize
<1> DEFINE q == p - 1
<1>1. PageSize \in Nat /\ PageSize > 0 /\ q \in Nat /\ p = q + 1
  BY PagesAssumption
<1> HIDE DEF q
<1>2. c \div PageSize = q <=> q * PageSize <= c /\ c < (q + 1) * PageSize
  BY <1>1
<1>3. QED
  BY <1>1, <1>2 DEF q

Later(S, e) == Cardinality({x \in S : x > e})

LEMMA LaterFacts ==
    ASSUME NEW S \in SUBSET Events
    PROVE  /\ IsFiniteSet(S) /\ Cardinality(S) \in Nat
           /\ \A e \in S : Later(S, e) \in 0 .. (Cardinality(S) - 1)
           /\ \A e, f \in S : e < f => Later(S, f) < Later(S, e)
<1>1. IsFiniteSet(S) /\ Cardinality(S) \in Nat
  BY TagsAssumption, FS_Subset, FS_CardinalityType
<1>2. \A e \in S : e \in Nat
  BY TagsAssumption
<1>3. ASSUME NEW e \in S
      PROVE  /\ IsFiniteSet({x \in S : x > e}) /\ Later(S, e) \in Nat
             /\ Later(S, e) <= Cardinality(S) - 1
  <2>1. IsFiniteSet(S \ {e}) /\ Cardinality(S \ {e}) = Cardinality(S) - 1
    BY <1>1, FS_RemoveElement
  <2>2. {x \in S : x > e} \subseteq S \ {e}
    <3>1. \A x \in S : x > e => x # e
      BY <1>2
    <3>2. QED
      BY <3>1
  <2>3. /\ IsFiniteSet({x \in S : x > e})
        /\ Cardinality({x \in S : x > e}) <= Cardinality(S) - 1
    BY <2>1, <2>2, FS_Subset
  <2>4. QED
    BY <2>3, FS_CardinalityType DEF Later
<1>4. ASSUME NEW e \in S, NEW f \in S, e < f
      PROVE  Later(S, f) < Later(S, e)
  <2> DEFINE E == {x \in S : x > e}
             G == {x \in S : x > f}
  <2>1. IsFiniteSet(E) /\ Cardinality(E) \in Nat /\ Cardinality(G) \in Nat
    BY <1>3 DEF Later
  <2>2. f \in E /\ G \subseteq E \ {f}
    <3>1. \A x \in S : x > f => x > e /\ x # f
      BY <1>2, <1>4
    <3>2. f > e
      BY <1>2, <1>4
    <3>3. QED
      BY <3>1, <3>2
  <2> HIDE DEF E, G
  <2>3. IsFiniteSet(E \ {f}) /\ Cardinality(E \ {f}) = Cardinality(E) - 1
    BY <2>1, <2>2, FS_RemoveElement
  <2>4. Cardinality(G) <= Cardinality(E) - 1
    BY <2>2, <2>3, FS_Subset
  <2>5. QED
    BY <2>1, <2>4 DEF Later, E, G
<1>5. ASSUME NEW e \in S PROVE Later(S, e) \in 0 .. (Cardinality(S) - 1)
  <2>1. Later(S, e) \in Nat /\ Later(S, e) <= Cardinality(S) - 1
    BY <1>3
  <2>2. QED
    BY <1>1, <2>1
<1>6. \A e, f \in S : e < f => Later(S, f) < Later(S, e)
  BY <1>4
<1>7. QED
  BY <1>1, <1>5, <1>6

\* Some of a list are as many as their numbers.
LEMMA LaterCounts ==
    ASSUME NEW S \in SUBSET Events, NEW T \in SUBSET S
    PROVE  /\ IsFiniteSet({Later(S, e) : e \in T})
           /\ Cardinality({Later(S, e) : e \in T}) = Cardinality(T)
<1> DEFINE N == {Later(S, e) : e \in T}
           f == [e \in T |-> Later(S, e)]
<1>1. IsFiniteSet(T)
  BY LaterFacts, FS_Subset
<1>2. \A e, g \in T : Later(S, e) = Later(S, g) => e = g
  <2> SUFFICES ASSUME NEW e \in T, NEW g \in T, Later(S, e) = Later(S, g)
               PROVE  e = g
    OBVIOUS
  <2>1. e \in Nat /\ g \in Nat /\ e \in S /\ g \in S
    BY TagsAssumption
  <2>2. Later(S, e) \in Nat
    BY <2>1, LaterFacts
  <2>3. ~(e < g) /\ ~(g < e)
    BY <2>1, <2>2, LaterFacts
  <2>4. QED
    BY <2>1, <2>3
<1>3. f \in [T -> N] /\ \A e \in T : f[e] = Later(S, e)
  OBVIOUS
<1>4. \A i \in N : \E e \in T : f[e] = i
  OBVIOUS
<1> HIDE DEF f
<1>5. f \in Injection(T, N)
  BY <1>2, <1>3 DEF Injection, IsInjective
<1>6. f \in Surjection(T, N)
  BY <1>3, <1>4 DEF Surjection
<1>7. QED
  BY <1>1, <1>5, <1>6, FS_Surjection

AddsUp(total, S, p) ==
    LET rest == total - (p - 1) * PageSize IN
    Cardinality(S) = IF rest <= 0 THEN 0 ELSE IF rest < PageSize THEN rest ELSE PageSize

LEMMA PageFits ==
    ASSUME NEW S \in SUBSET Events, NEW p \in Nat \ {0}
    PROVE  /\ PageOf(S, p) \subseteq S
           /\ Cardinality(PageOf(S, p)) <= PageSize
           /\ AddsUp(Cardinality(S), PageOf(S, p), p)
<1> DEFINE n == Cardinality(S)
           a == (p - 1) * PageSize
           b == p * PageSize
           T == PageOf(S, p)
           last == IF n <= b THEN n - 1 ELSE b - 1
<1>1. n \in Nat /\ a \in Nat /\ b \in Nat /\ b = a + PageSize /\ PageSize \in Nat \ {0}
  BY LaterFacts, PagesAssumption
<1>2. T = {e \in S : a <= Later(S, e) /\ Later(S, e) < b}
  <2>1. T = {e \in S : Later(S, e) \div PageSize = p - 1}
    BY DEF PageOf, Later
  <2>2. \A e \in S : Later(S, e) \in Nat
    BY LaterFacts
  <2>3. QED
    BY <2>1, <2>2, Divided
<1>3. {Later(S, e) : e \in S} = 0 .. (n - 1)
  <2>1. {Later(S, e) : e \in S} \subseteq 0 .. (n - 1)
    BY LaterFacts
  <2>2. Cardinality({Later(S, e) : e \in S}) = n
    BY LaterCounts
  <2>3. 0 \in Int /\ n - 1 \in Int
    BY <1>1
  <2>4. IsFiniteSet(0 .. (n - 1))
    BY <2>3, FS_Interval
  <2>5. Cardinality(0 .. (n - 1)) = n
    BY <1>1, <2>3, FS_Interval
  <2>6. QED
    BY <2>1, <2>2, <2>4, <2>5, FS_Subset
<1> HIDE DEF n, a, b
<1>4. {Later(S, e) : e \in T} = a .. last
  <2>1. \A i : i \in a .. last <=> i \in 0 .. (n - 1) /\ a <= i /\ i < b
    BY <1>1
  <2>2. \A e \in T : Later(S, e) \in a .. last
    BY <1>2, <1>3, <2>1
  <2>3. ASSUME NEW i \in a .. last PROVE \E e \in T : i = Later(S, e)
    <3>1. PICK e \in S : i = Later(S, e)
      BY <1>3, <2>1
    <3>2. e \in T
      BY <1>2, <2>1, <3>1
    <3>3. QED
      BY <3>1, <3>2
  <2>4. QED
    BY <2>2, <2>3
<1>5. T \subseteq S
  BY <1>2
<1>6. Cardinality(T) = Cardinality(a .. last)
  BY <1>4, <1>5, LaterCounts
<1>7. Cardinality(a .. last) = IF a > last THEN 0 ELSE last - a + 1
  <2>1. a \in Int /\ last \in Int
    BY <1>1
  <2> HIDE DEF last
  <2>2. QED
    BY <2>1, FS_Interval
<1>8. Cardinality(T) <= PageSize
  BY <1>1, <1>6, <1>7
<1>9. Cardinality(T) = IF n - a <= 0 THEN 0 ELSE IF n - a < PageSize THEN n - a ELSE PageSize
  BY <1>1, <1>6, <1>7
<1>10. QED
  BY <1>5, <1>8, <1>9 DEF AddsUp, n, a

-----------------------------------------------------------------------------
(* The lists and the copies of their pages. *)

Lists == {"list", "category", "mine", "organized"}
KeyOf(q) == <<q.viewer, q.page, q.archived>>
ReadRecord ==
    [pc : {"idle", "lookup", "count", "page", "set", "view", "answered", "failed"},
     op : Lists \cup {"none", "slug"}, viewer : Viewers, page : Nat \ {0},
     archived : BOOLEAN, event : Events \cup {0}, total : Nat, items : SUBSET Events,
     mixed : BOOLEAN, at : Nat]
Copy == [items : SUBSET Events, total : Nat, mixed : BOOLEAN, expires : Int]

\* The page under the key k shows S, or did at t or later.
Since(S, k, t, rows, w) ==
    S = PageAt(rows, k) \/ w[k][S] >= t

\* The drafts in S are known to v.
Private(S, v, rows, mem) ==
    \A e \in S : rows[e].status = "draft" => v \in Admins \cup mem[e]

ReadInv(q, rows, mem, w, clk) ==
    /\ q.pc \in {"lookup", "set"} => q.op = "list"
    /\ q.pc \in {"count", "page"} => q.op \in Lists
    /\ q.pc \in {"lookup", "count", "page", "set"} => q.page \in PageNumbers
    /\ q.pc = "view" => q.op = "slug" /\ q.event \in Events
    /\ q.at <= clk
    /\ Cardinality(q.items) <= PageSize
    /\ q.pc = "page" /\ ~q.mixed => q.total = Cardinality(Found(rows, q))
    /\ q.pc \in {"set", "answered"} /\ q.op # "slug" =>
         /\ Private(q.items, q.viewer, rows, mem)
         /\ ~q.mixed => AddsUp(q.total, q.items, q.page)
    /\ q.pc = "set" => Since(q.items, KeyOf(q), q.at, rows, w)

\* What the counters have counted.
ViewsInv ==
    \A e \in Events : IsFiniteSet(Opened(e)) /\ views[e] = Cardinality(Opened(e))

Uncounted(q) == q.op # "slug" \/ q.pc # "answered"

\* A copy shows what was there when it was read, which the slowest reader and
\* the TTL separate from its end.
CopyInv(c, k, rows, mem, w, sl, clk) ==
    /\ Cardinality(c.items) <= PageSize
    /\ Private(c.items, k[1], rows, mem)
    /\ ~c.mixed => AddsUp(c.total, c.items, k[2])
    /\ c.expires <= clk + TTL
    /\ c.expires = Never \/ Since(c.items, k, c.expires - TTL - sl, rows, w)

PagesInv ==
    /\ event \in [Events -> Row]
    /\ members \in [Events -> SUBSET Users]
    /\ \A e \in Events : event[e].organizers \cup {Creator[e]} \subseteq members[e]
    /\ views \in [Events -> Nat] /\ ViewsInv
    /\ clock \in 0 .. MaxTime /\ slow \in 0 .. MaxTime
    /\ was \in [Keys -> [SUBSET Events -> Int]]
    /\ cache \in [Keys -> Copy]
    /\ \A k \in Keys : CopyInv(cache[k], k, event, members, was, slow, clock)
    /\ read \in [Reads -> ReadRecord]
    /\ \A r \in Reads : ReadInv(read[r], event, members, was, clock)

\* All of it.
EventsInv == TagsInv /\ PagesInv /\ work \in 0 .. MaxWork

LEMMA PagesConstants ==
    /\ TTL \in Nat \ {0} /\ PageSize \in Nat \ {0} /\ MaxTime \in Nat /\ Never \in Int
    /\ Never < 0
    /\ \A p \in PageNumbers : p \in Nat \ {0}
    /\ \A k \in Keys : /\ k[1] \in Viewers /\ k[2] \in PageNumbers /\ k[3] \in BOOLEAN
                       /\ k[2] \in Nat \ {0} /\ k = <<k[1], k[2], k[3]>>
    /\ Guest \in Viewers
<1>1. TTL \in Nat \ {0} /\ PageSize \in Nat \ {0} /\ MaxTime \in Nat
  BY PagesAssumption
<1>2. Never \in Int /\ Never < 0
  BY <1>1 DEF Never
<1>3. \A p \in PageNumbers : p \in Nat \ {0}
  BY DEF PageNumbers
<1>4. \A k \in Keys : /\ k[1] \in Viewers /\ k[2] \in PageNumbers /\ k[3] \in BOOLEAN
                      /\ k = <<k[1], k[2], k[3]>>
  BY DEF Keys
<1>5. QED
  BY <1>1, <1>2, <1>3, <1>4 DEF Viewers

LEMMA ListedFacts ==
    ASSUME NEW rows, NEW op, NEW v, NEW ar, NEW p \in Nat \ {0}
    PROVE  LET S == Listed(rows, op, v, ar) IN
           /\ S \in SUBSET Events /\ Cardinality(S) \in Nat
           /\ PageOf(S, p) \in SUBSET Events /\ PageOf(S, p) \subseteq S
           /\ Cardinality(PageOf(S, p)) <= PageSize
           /\ AddsUp(Cardinality(S), PageOf(S, p), p)
<1>1. Listed(rows, op, v, ar) \in SUBSET Events
  BY DEF Listed
<1>2. QED
  BY <1>1, LaterFacts, PageFits

\* The drafts in a list are the viewer's own, or the viewer is an admin.
LEMMA ListedPrivate ==
    ASSUME NEW rows \in [Events -> Row], NEW op \in Lists, NEW v, NEW ar, NEW mem,
           \A e \in Events : rows[e].organizers \cup {Creator[e]} \subseteq mem[e]
    PROVE  Private(Listed(rows, op, v, ar), v, rows, mem)
<1> SUFFICES ASSUME NEW e \in Listed(rows, op, v, ar), rows[e].status = "draft"
             PROVE  v \in Admins \cup mem[e]
  BY DEF Private
<1>1. e \in Events
  BY DEF Listed
<1>2. CASE op \in {"list", "category"}
  <2>1. Visible(rows[e], Creator[e], v, ar)
    BY <1>2 DEF Listed
  <2>2. QED
    BY <1>1, <2>1 DEF Visible
<1>3. CASE op = "mine"
  <2>1. Mine(rows[e], Creator[e], v, ar)
    BY <1>3 DEF Listed
  <2>2. QED
    BY <1>1, <2>1 DEF Mine
<1>4. CASE op = "organized"
  <2>1. Organized(rows[e], v)
    BY <1>4 DEF Listed
  <2>2. QED
    BY <2>1 DEF Organized
<1>5. QED
  BY <1>2, <1>3, <1>4 DEF Lists

-----------------------------------------------------------------------------
(* The steps of those who read. *)

LEMMA NoReadFacts ==
    /\ NoRead \in ReadRecord
    /\ NoRead.pc = "idle" /\ NoRead.op = "none" /\ NoRead.viewer = Guest
    /\ NoRead.page = 1 /\ NoRead.event = 0 /\ NoRead.total = 0 /\ NoRead.items = {}
    /\ NoRead.archived = FALSE /\ NoRead.mixed = FALSE /\ NoRead.at = 0
  BY PagesConstants DEF NoRead, ReadRecord

\* A step of one request that leaves the copies alone.
LEMMA OwnRead ==
    ASSUME PagesInv, NEW r \in Reads, NEW q \in ReadRecord,
           read' = [read EXCEPT ![r] = q],
           UNCHANGED <<event, cache, clock, was, slow, members>>,
           \/ views' = views /\ Uncounted(read[r]) /\ Uncounted(q)
           \/ views' \in [Events -> Nat] /\ ViewsInv',
           ReadInv(q, event, members, was, clock)
    PROVE  PagesInv'
<1>1. /\ read' \in [Reads -> ReadRecord]
      /\ read'[r] = q
      /\ \A o \in Reads \ {r} : read'[o] = read[o]
  BY DEF PagesInv
<1>2. \A o \in Reads : ReadInv(read'[o], event, members, was, clock)
  BY <1>1 DEF PagesInv
<1>3. CASE views' = views /\ Uncounted(read[r]) /\ Uncounted(q)
  <2>1. \A e \in Events : Opened(e)' = Opened(e)
    BY <1>1, <1>3 DEF Opened, Uncounted
  <2>2. ViewsInv' /\ views' \in [Events -> Nat]
    BY <1>3, <2>1 DEF PagesInv, ViewsInv
  <2>3. QED
    BY <1>1, <1>2, <2>2 DEF PagesInv
<1>4. CASE views' \in [Events -> Nat] /\ ViewsInv'
  BY <1>1, <1>2, <1>4 DEF PagesInv
<1>5. QED
  BY <1>3, <1>4

LEMMA AskListKeeps ==
    ASSUME PagesInv, NEW r \in Reads, AskList(r)
    PROVE  PagesInv'
<1>0. PICK v \in Viewers, p \in PageNumbers, archived \in BOOLEAN,
           op \in {"list", "category", "mine", "organized"} :
        /\ archived => op \in {"list", "mine"}
        /\ op \in {"mine", "organized"} => v # Guest
        /\ read' = [read EXCEPT ![r] = [NoRead EXCEPT
                  !.op = op, !.viewer = v, !.page = p, !.archived = archived,
                  !.pc = IF op = "list" THEN "lookup" ELSE "count"]]
  BY DEF AskList
<1>1. op \in Lists
  BY DEF Lists
<1> DEFINE pc == IF op = "list" THEN "lookup" ELSE "count"
           q == [NoRead EXCEPT !.op = op, !.viewer = v, !.page = p,
                             !.archived = archived, !.pc = pc]
<1>2. pc \in {"lookup", "count"} /\ (pc = "lookup" => op = "list") /\ p \in Nat \ {0}
  BY PagesConstants
<1>3. read' = [read EXCEPT ![r] = q]
  BY <1>0
<1> HIDE DEF pc
<1>4. /\ q \in ReadRecord /\ q.pc = pc /\ q.op = op /\ q.page = p
      /\ q.items = {} /\ q.at = 0
  BY <1>1, <1>2, NoReadFacts DEF ReadRecord
<1> HIDE DEF q
<1>5. ReadInv(q, event, members, was, clock)
  BY <1>1, <1>2, <1>4, FS_EmptySet, PagesConstants DEF ReadInv, PagesInv
<1>6. Uncounted(read[r]) /\ Uncounted(q)
  BY <1>2, <1>4, NoReadFacts DEF AskList, Uncounted
<1>7. QED
  BY <1>3, <1>4, <1>5, <1>6, OwnRead DEF AskList

LEMMA GotoFacts ==
    ASSUME NEW t \in ReadRecord, NEW pc \in {"count", "answered"}
    PROVE  LET q == [t EXCEPT !.pc = pc] IN
           /\ q \in ReadRecord /\ q.pc = pc /\ q.op = t.op /\ q.viewer = t.viewer
           /\ q.page = t.page /\ q.archived = t.archived /\ q.event = t.event
           /\ q.total = t.total /\ q.items = t.items /\ q.mixed = t.mixed /\ q.at = t.at
  BY DEF ReadRecord

\* The request goes on, or is answered for a slug.
LEMMA GotoKeeps ==
    ASSUME PagesInv, NEW r \in Reads, NEW pc \in {"count", "answered"},
           ReadGoto(r, pc), UNCHANGED <<event, cache, clock, was, slow, members>>,
           \/ pc = "count" /\ read[r].pc = "lookup" /\ views' = views
           \/ /\ pc = "answered" /\ read[r].pc = "view"
              /\ views' \in [Events -> Nat] /\ ViewsInv'
    PROVE  PagesInv'
<1> DEFINE t == read[r]
           q == [t EXCEPT !.pc = pc]
<1>1. t \in ReadRecord /\ ReadInv(t, event, members, was, clock)
  BY DEF PagesInv
<1>2. read' = [read EXCEPT ![r] = q]
  BY DEF ReadGoto
<1>3. /\ q \in ReadRecord /\ q.pc = pc /\ q.op = t.op /\ q.viewer = t.viewer
      /\ q.page = t.page /\ q.archived = t.archived /\ q.event = t.event
      /\ q.total = t.total /\ q.items = t.items /\ q.mixed = t.mixed /\ q.at = t.at
  BY <1>1, GotoFacts
<1> HIDE DEF q
<1>4. ReadInv(q, event, members, was, clock)
  BY <1>1, <1>3 DEF ReadInv, Lists, Found
<1>5. pc = "count" => Uncounted(t) /\ Uncounted(q)
  BY <1>3 DEF Uncounted
<1>6. QED
  BY <1>2, <1>3, <1>4, <1>5, OwnRead

LEMMA CacheHitKeeps ==
    ASSUME PagesInv, NEW r \in Reads, CacheHit(r)
    PROVE  PagesInv'
<1> DEFINE t == read[r]
           k == KeyOf(t)
           c == cache[k]
           q == [t EXCEPT !.pc = "answered", !.items = c.items, !.total = c.total,
                          !.mixed = c.mixed, !.at = 0]
<1>1. /\ t \in ReadRecord /\ ReadInv(t, event, members, was, clock) /\ t.pc = "lookup"
      /\ clock \in Nat
  BY DEF PagesInv, CacheHit
<1>2. k \in Keys
  BY <1>1 DEF ReadInv, ReadRecord, Keys, KeyOf
<1>3. c \in Copy /\ CopyInv(c, k, event, members, was, slow, clock)
  BY <1>2 DEF PagesInv
<1>4. read' = [read EXCEPT ![r] = q]
  BY DEF CacheHit, Answer, Key, KeyOf
<1> HIDE DEF c
<1>5. /\ q \in ReadRecord /\ q.pc = "answered" /\ q.op = t.op /\ q.viewer = t.viewer
      /\ q.page = t.page /\ q.total = c.total /\ q.items = c.items
      /\ q.mixed = c.mixed /\ q.at = 0
  BY <1>1, <1>3 DEF ReadRecord, Copy
<1> HIDE DEF q
<1>6. k[1] = t.viewer /\ k[2] = t.page
  BY DEF KeyOf
<1> HIDE DEF k
<1>7. ReadInv(q, event, members, was, clock)
  BY <1>1, <1>3, <1>5, <1>6 DEF ReadInv, CopyInv
<1>8. Uncounted(t) /\ Uncounted(q)
  BY <1>1, <1>5 DEF Uncounted, ReadInv
<1>9. QED
  BY <1>4, <1>5, <1>7, <1>8, OwnRead DEF CacheHit

LEMMA CountRowsKeeps ==
    ASSUME PagesInv, NEW r \in Reads, CountRows(r)
    PROVE  PagesInv'
<1> DEFINE t == read[r]
           n == Cardinality(Found(event, t))
           q == [t EXCEPT !.pc = "page", !.total = n]
<1>1. t \in ReadRecord /\ ReadInv(t, event, members, was, clock) /\ t.pc = "count"
  BY DEF PagesInv, CountRows
<1>2. n \in Nat
  BY ListedFacts, PagesConstants DEF Found
<1>3. read' = [read EXCEPT ![r] = q]
  BY DEF CountRows
<1> HIDE DEF n
<1>4. /\ q \in ReadRecord /\ q.pc = "page" /\ q.op = t.op /\ q.viewer = t.viewer
      /\ q.page = t.page /\ q.archived = t.archived /\ q.event = t.event /\ q.total = n
      /\ q.items = t.items /\ q.mixed = t.mixed /\ q.at = t.at
  BY <1>1, <1>2 DEF ReadRecord
<1> HIDE DEF q
<1>5. ReadInv(q, event, members, was, clock)
  BY <1>1, <1>4 DEF ReadInv, Found, n
<1>6. Uncounted(t) /\ Uncounted(q)
  BY <1>1, <1>4 DEF Uncounted
<1>7. QED
  BY <1>3, <1>4, <1>5, <1>6, OwnRead DEF CountRows

\* The page fits the total, unless the list has changed since it was counted.
LEMMA ReadPageKeeps ==
    ASSUME PagesInv, NEW r \in Reads, ReadPage(r)
    PROVE  PagesInv'
<1> DEFINE t == read[r]
           L == Found(event, t)
           S == PageOf(L, t.page)
           s == [[t EXCEPT !.items = S] EXCEPT !.pc = "set", !.at = clock]
           a == [t EXCEPT !.pc = "answered", !.items = S, !.total = t.total,
                          !.mixed = t.mixed, !.at = 0]
<1>1. /\ t \in ReadRecord /\ ReadInv(t, event, members, was, clock) /\ t.pc = "page"
      /\ t.op \in Lists /\ t.page \in PageNumbers /\ t.page \in Nat \ {0}
      /\ clock \in Nat
  <2>1. t \in ReadRecord /\ ReadInv(t, event, members, was, clock) /\ clock \in Nat
    BY DEF PagesInv
  <2>2. t.pc = "page"
    BY DEF ReadPage
  <2> HIDE DEF t
  <2>3. QED
    BY <2>1, <2>2 DEF ReadInv, ReadRecord
<1>2. /\ S \in SUBSET Events /\ Cardinality(S) <= PageSize
      /\ AddsUp(Cardinality(L), S, t.page) /\ S \subseteq L
  BY <1>1, ListedFacts DEF Found
<1>3. Private(S, t.viewer, event, members)
  <2>1. Private(L, t.viewer, event, members)
    BY <1>1, ListedPrivate DEF PagesInv, Found
  <2>2. QED
    BY <1>2, <2>1 DEF Private
<1>4. ~t.mixed => AddsUp(t.total, S, t.page)
  BY <1>1, <1>2 DEF ReadInv
<1>5. t.op = "list" => Since(S, KeyOf(t), clock, event, was)
  BY DEF Since, KeyOf, PageAt, Found
<1>6. \/ t.op = "list" /\ read' = [read EXCEPT ![r] = s]
      \/ read' = [read EXCEPT ![r] = a]
  <2> DEFINE p == [t EXCEPT !.items = S]
  <2>1. p.op = t.op /\ p.items = S /\ p.total = t.total /\ p.mixed = t.mixed
    BY <1>1 DEF ReadRecord
  <2>2. IF p.op = "list" THEN read' = [read EXCEPT ![r] = s] ELSE Answer(r, p)
    BY DEF ReadPage
  <2> HIDE DEF p, S
  <2>3. QED
    BY <2>1, <2>2 DEF Answer
<1> HIDE DEF S
<1>10. t.op # "slug"
  BY <1>1 DEF Lists
<1>7. CASE t.op = "list" /\ read' = [read EXCEPT ![r] = s]
  <2>1. /\ s \in ReadRecord /\ s.pc = "set" /\ s.op = t.op /\ s.viewer = t.viewer
        /\ s.page = t.page /\ s.archived = t.archived /\ s.event = t.event /\ s.total = t.total
        /\ s.items = S /\ s.mixed = t.mixed /\ s.at = clock
    BY <1>1, <1>2 DEF ReadRecord
  <2> HIDE DEF s
  <2>2. ReadInv(s, event, members, was, clock)
    BY <1>1, <1>2, <1>3, <1>4, <1>5, <1>7, <2>1 DEF ReadInv, KeyOf
  <2>3. QED
    BY <1>1, <1>7, <2>1, <2>2, OwnRead DEF ReadPage, Uncounted
<1>8. CASE read' = [read EXCEPT ![r] = a]
  <2>1. /\ a \in ReadRecord /\ a.pc = "answered" /\ a.op = t.op /\ a.viewer = t.viewer
        /\ a.page = t.page /\ a.event = t.event /\ a.total = t.total
        /\ a.items = S /\ a.mixed = t.mixed /\ a.at = 0
    BY <1>1, <1>2 DEF ReadRecord
  <2> HIDE DEF a
  <2>2. ReadInv(a, event, members, was, clock)
    BY <1>1, <1>2, <1>3, <1>4, <2>1 DEF ReadInv
  <2>3. QED
    BY <1>1, <1>8, <1>10, <2>1, <2>2, OwnRead DEF ReadPage, Uncounted
<1>9. QED
  BY <1>6, <1>7, <1>8

\* SETEX: the copy is as old as the read of the page at least, and the slowest
\* reader takes that into account.
LEMMA StorePageKeeps ==
    ASSUME PagesInv, NEW r \in Reads, StorePage(r)
    PROVE  PagesInv'
<1> DEFINE t == read[r]
           k == KeyOf(t)
           c == [items |-> t.items, total |-> t.total, mixed |-> t.mixed,
                 expires |-> clock + TTL]
           q == [t EXCEPT !.pc = "answered", !.items = t.items, !.total = t.total,
                          !.mixed = t.mixed, !.at = 0]
<1>1. /\ t \in ReadRecord /\ ReadInv(t, event, members, was, clock)
      /\ clock \in 0 .. MaxTime /\ slow \in 0 .. MaxTime
  BY DEF PagesInv
<1>2. /\ t.pc = "set"
      /\ cache' = [cache EXCEPT ![k] = c]
      /\ slow' = IF clock - t.at > slow THEN clock - t.at ELSE slow
      /\ read' = [read EXCEPT ![r] = q]
      /\ UNCHANGED <<event, views, clock, was, members, work>>
  BY DEF StorePage, Answer, Key, KeyOf
<1>3. k \in Keys /\ k[1] = t.viewer /\ k[2] = t.page
  BY <1>1, <1>2 DEF ReadInv, ReadRecord, Keys, KeyOf
<1>4. /\ q \in ReadRecord /\ q.pc = "answered" /\ q.op = t.op /\ q.viewer = t.viewer
      /\ q.page = t.page /\ q.event = t.event /\ q.total = t.total
      /\ q.items = t.items /\ q.mixed = t.mixed /\ q.at = 0
  BY <1>1 DEF ReadRecord
<1>5. /\ t.total \in Nat /\ t.items \in SUBSET Events /\ t.mixed \in BOOLEAN
      /\ t.at \in Nat /\ t.at <= clock /\ t.op = "list"
  BY <1>1, <1>2 DEF ReadRecord, ReadInv
<1>6. /\ c \in Copy /\ c.items = t.items /\ c.total = t.total /\ c.mixed = t.mixed
      /\ c.expires = clock + TTL
  BY <1>1, <1>5, PagesConstants DEF Copy
<1>14. /\ Private(t.items, t.viewer, event, members)
       /\ ~t.mixed => AddsUp(t.total, t.items, t.page)
       /\ Since(t.items, k, t.at, event, was)
       /\ Cardinality(t.items) <= PageSize
  BY <1>1, <1>2, <1>5 DEF ReadInv
<1> HIDE DEF t, k, c, q
<1>7. slow' \in 0 .. MaxTime /\ slow <= slow' /\ clock - t.at <= slow'
  BY <1>1, <1>2, <1>5, PagesConstants
<1>8. ReadInv(q, event, members, was, clock)
  BY <1>1, <1>2, <1>4, <1>14 DEF ReadInv
<1>9. CopyInv(c, k, event, members, was, slow', clock)
  <2>1. c.expires - TTL - slow' <= t.at /\ c.expires - TTL - slow' \in Int
    BY <1>1, <1>5, <1>6, <1>7, PagesConstants
  <2>2. was[k][c.items] \in Int
    BY <1>3, <1>5, <1>6 DEF PagesInv
  <2>3. Since(c.items, k, t.at, event, was)
    BY <1>6, <1>14
  <2>4. Since(c.items, k, c.expires - TTL - slow', event, was)
    BY <1>5, <2>1, <2>2, <2>3 DEF Since
  <2>5. c.expires <= clock + TTL
    BY <1>1, <1>6, PagesConstants
  <2>6. QED
    BY <1>3, <1>6, <1>14, <2>4, <2>5 DEF CopyInv
<1>10. \A x \in Keys : CopyInv(cache[x], x, event, members, was, slow', clock)
  <2> SUFFICES ASSUME NEW x \in Keys
               PROVE  CopyInv(cache[x], x, event, members, was, slow', clock)
    OBVIOUS
  <2>1. /\ CopyInv(cache[x], x, event, members, was, slow, clock) /\ cache[x] \in Copy
        /\ was[x] \in [SUBSET Events -> Int]
    BY DEF PagesInv
  <2>2. was[x][cache[x].items] \in Int /\ cache[x].expires \in Int
    BY <2>1 DEF Copy
  <2>3. /\ cache[x].expires - TTL - slow' <= cache[x].expires - TTL - slow
        /\ cache[x].expires - TTL - slow' \in Int
        /\ cache[x].expires - TTL - slow \in Int
    BY <1>1, <1>7, <2>2, PagesConstants
  <2>4. Since(cache[x].items, x, cache[x].expires - TTL - slow, event, was)
          => Since(cache[x].items, x, cache[x].expires - TTL - slow', event, was)
    BY <2>2, <2>3 DEF Since
  <2>5. QED
    BY <2>1, <2>4 DEF CopyInv
<1>11. /\ cache' \in [Keys -> Copy]
       /\ \A x \in Keys : CopyInv(cache'[x], x, event, members, was, slow', clock)
  <2>1. /\ cache' \in [Keys -> Copy] /\ cache'[k] = c
        /\ \A x \in Keys \ {k} : cache'[x] = cache[x]
    BY <1>2, <1>3, <1>6 DEF PagesInv
  <2>2. QED
    BY <1>9, <1>10, <2>1
<1>12. /\ read' \in [Reads -> ReadRecord]
       /\ \A o \in Reads : ReadInv(read'[o], event, members, was, clock)
  <2>1. /\ read' \in [Reads -> ReadRecord] /\ read'[r] = q
        /\ \A o \in Reads \ {r} : read'[o] = read[o]
    BY <1>2, <1>4 DEF PagesInv
  <2>2. QED
    BY <1>8, <2>1 DEF PagesInv
<1>13. ViewsInv'
  <2>1. \A e \in Events : Opened(e)' = Opened(e)
    <3>1. Uncounted(read[r]) /\ Uncounted(q)
      BY <1>2, <1>4, <1>5 DEF Uncounted, t
    <3>2. read'[r] = q /\ \A o \in Reads \ {r} : read'[o] = read[o]
      BY <1>2 DEF PagesInv
    <3>3. QED
      BY <3>1, <3>2 DEF Uncounted, Opened
  <2>2. QED
    BY <1>2, <2>1 DEF PagesInv, ViewsInv
<1>15. QED
  BY <1>2, <1>7, <1>11, <1>12, <1>13 DEF PagesInv

LEMMA OpenSlugKeeps ==
    ASSUME PagesInv, NEW r \in Reads, OpenSlug(r)
    PROVE  PagesInv'
<1>1. PICK e \in Events :
        /\ ~event[e].is_deleted
        /\ read' = [read EXCEPT ![r] = [NoRead EXCEPT
                      !.op = "slug", !.pc = "view", !.event = e, !.total = views[e]]]
  BY DEF OpenSlug
<1> DEFINE n == views[e]
           q == [NoRead EXCEPT !.op = "slug", !.pc = "view", !.event = e, !.total = n]
<1>2. n \in Nat /\ clock \in Nat
  BY DEF PagesInv
<1>3. read' = [read EXCEPT ![r] = q]
  BY <1>1
<1> HIDE DEF n
<1>4. /\ q \in ReadRecord /\ q.pc = "view" /\ q.op = "slug" /\ q.event = e
      /\ q.items = {} /\ q.at = 0
  BY <1>2, NoReadFacts DEF ReadRecord
<1> HIDE DEF q
<1>5. ReadInv(q, event, members, was, clock)
  BY <1>2, <1>4, FS_EmptySet, PagesConstants DEF ReadInv
<1>6. Uncounted(read[r]) /\ Uncounted(q)
  BY <1>4, NoReadFacts DEF OpenSlug, Uncounted
<1>7. QED
  BY <1>3, <1>4, <1>5, <1>6, OwnRead DEF OpenSlug

\* The look-up that commits is a new one.
LEMMA CountViewKeeps ==
    ASSUME PagesInv, NEW r \in Reads, CountView(r)
    PROVE  PagesInv'
<1>0. PICK e \in Events : e = read[r].event
  BY DEF CountView, PagesInv, ReadInv
<1> DEFINE q == [read[r] EXCEPT !.pc = "answered"]
<1>1. /\ read[r].pc = "view" /\ read[r].op = "slug"
      /\ views \in [Events -> Nat] /\ read[r] \in ReadRecord
  BY DEF CountView, PagesInv, ReadInv
<1>2. /\ views' = [views EXCEPT ![e] = views[e] + 1]
      /\ read' = [read EXCEPT ![r] = q]
  BY <1>0 DEF CountView, ReadGoto
<1>3. q.pc = "answered" /\ q.op = "slug" /\ q.event = e
  BY <1>0, <1>1 DEF ReadRecord
<1>4. read'[r] = q /\ \A o \in Reads \ {r} : read'[o] = read[o]
  BY <1>2 DEF PagesInv
<1> HIDE DEF q
<1>5. views' \in [Events -> Nat] /\ views'[e] = views[e] + 1
      /\ \A x \in Events \ {e} : views'[x] = views[x]
  <2>1. views[e] + 1 \in Nat
    BY <1>1
  <2>2. QED
    BY <1>1, <1>2, <2>1
<1>6. /\ Opened(e)' = Opened(e) \cup {r} /\ r \notin Opened(e)
      /\ \A x \in Events \ {e} : Opened(x)' = Opened(x)
  BY <1>1, <1>3, <1>4 DEF Opened
<1>7. ViewsInv'
  <2>1. IsFiniteSet(Opened(e)') /\ Cardinality(Opened(e)') = Cardinality(Opened(e)) + 1
    BY <1>1, <1>6, FS_AddElement DEF PagesInv, ViewsInv
  <2>2. QED
    BY <1>5, <1>6, <2>1 DEF PagesInv, ViewsInv
<1>8. QED
  BY <1>1, <1>5, <1>7, GotoKeeps DEF CountView

LEMMA ReadFailsKeeps ==
    ASSUME PagesInv, NEW r \in Reads, ReadFails(r)
    PROVE  PagesInv'
<1> DEFINE q == [NoRead EXCEPT !.pc = "failed"]
<1>1. /\ q \in ReadRecord /\ q.pc = "failed" /\ q.op = "none" /\ q.items = {}
      /\ q.at = 0
  BY NoReadFacts DEF ReadRecord
<1>2. read' = [read EXCEPT ![r] = q] /\ read[r].pc # "answered"
  BY DEF ReadFails
<1> HIDE DEF q
<1>3. ReadInv(q, event, members, was, clock)
  BY <1>1, FS_EmptySet, PagesConstants DEF ReadInv, PagesInv
<1>4. QED
  BY <1>1, <1>2, <1>3, OwnRead DEF ReadFails, Uncounted

LEMMA ReadStepKeeps ==
    ASSUME PagesInv, NEW r \in Reads, ReadStep(r)
    PROVE  PagesInv'
<1>1. CASE CacheMiss(r)
  BY <1>1, GotoKeeps DEF CacheMiss
<1>2. QED
  BY <1>1, AskListKeeps, CacheHitKeeps, CountRowsKeeps, ReadPageKeeps, StorePageKeeps,
     OpenSlugKeeps, CountViewKeeps, ReadFailsKeeps DEF ReadStep

-----------------------------------------------------------------------------
(* Edits and the clock. *)

\* Nothing becomes a draft again.
LEMMA EditedFacts ==
    ASSUME event \in [Events -> Row], NEW e \in Events, NEW new \in Edited(e)
    PROVE  new \in Row /\ (new.status = "draft" => event[e].status = "draft")
<1> DEFINE row == event[e]
<1>1. row \in Row /\ row.status \in {"draft", "upcoming", "completed", "cancelled"}
  BY DEF Row, STATUS_TRANSITIONS
<1>2. \/ \E s \in STATUS_TRANSITIONS[row.status] : new = [row EXCEPT !.status = s]
      \/ new = [row EXCEPT !.is_archived = ~row.is_archived]
      \/ new = [row EXCEPT !.is_deleted = TRUE]
      \/ \E O \in SUBSET Users : new = [row EXCEPT !.organizers = O]
  BY DEF Edited
<1> HIDE DEF row
<1>3. ASSUME NEW s \in STATUS_TRANSITIONS[row.status], new = [row EXCEPT !.status = s]
      PROVE  new \in Row /\ new.status # "draft"
  <2>1. s \in {"upcoming", "completed", "cancelled"}
    BY <1>1 DEF STATUS_TRANSITIONS
  <2>2. QED
    BY <1>1, <1>3, <2>1 DEF Row, STATUS_TRANSITIONS
<1>4. CASE new = [row EXCEPT !.is_archived = ~row.is_archived]
  BY <1>1, <1>4 DEF Row, row
<1>5. CASE new = [row EXCEPT !.is_deleted = TRUE]
  BY <1>1, <1>5 DEF Row, row
<1>6. CASE \E O \in SUBSET Users : new = [row EXCEPT !.organizers = O]
  BY <1>1, <1>6 DEF Row, row
<1>7. QED
  BY <1>2, <1>3, <1>4, <1>5, <1>6

\* The page a viewer loses by an edit was there until now.
LEMMA EditEventKeeps ==
    ASSUME PagesInv, NEW e \in Events, EditEvent(e)
    PROVE  PagesInv'
<1>1. PICK new \in Edited(e) :
        /\ event' = [event EXCEPT ![e] = new]
        /\ members' = [members EXCEPT ![e] = members[e] \cup new.organizers]
  BY DEF EditEvent
<1>2. new \in Row /\ (new.status = "draft" => event[e].status = "draft")
  BY EditedFacts DEF PagesInv
<1>3. event' \in [Events -> Row] /\ event'[e] = new
      /\ \A x \in Events \ {e} : event'[x] = event[x]
  BY <1>1, <1>2 DEF PagesInv
<1>4. members' \in [Events -> SUBSET Users]
      /\ members'[e] = members[e] \cup new.organizers
      /\ \A x \in Events \ {e} : members'[x] = members[x]
  BY <1>1, <1>2 DEF PagesInv, Row
<1>5. \A x \in Events : /\ event'[x].organizers \cup {Creator[x]} \subseteq members'[x]
                        /\ members[x] \subseteq members'[x]
                        /\ event'[x].status = "draft" => event[x].status = "draft"
  BY <1>2, <1>3, <1>4 DEF PagesInv
<1>6. \A v : \A S \in SUBSET Events :
        Private(S, v, event, members) => Private(S, v, event', members')
  BY <1>5 DEF Private
<1> DEFINE Shown(k) == PageAt(event, k)
<1>7. /\ was' \in [Keys -> [SUBSET Events -> Int]]
      /\ \A k \in Keys, S \in SUBSET Events :
           was'[k][S] = IF S = Shown(k) THEN clock ELSE was[k][S]
  <2>1. was' = [k \in Keys |-> [was[k] EXCEPT ![Shown(k)] = clock]]
    BY DEF EditEvent, PagesInv
  <2>2. \A k \in Keys : Shown(k) \in SUBSET Events
    BY ListedFacts, PagesConstants DEF PageAt
  <2>3. clock \in Int /\ \A k \in Keys : was[k] \in [SUBSET Events -> Int]
    <3>1. clock \in Int
      BY PagesConstants DEF PagesInv
    <3>2. \A k \in Keys : was[k] \in [SUBSET Events -> Int]
      BY DEF PagesInv
    <3>3. QED
      BY <3>1, <3>2
  <2> HIDE DEF Shown
  <2>4. \A k \in Keys : /\ was'[k] = [was[k] EXCEPT ![Shown(k)] = clock]
                        /\ was'[k] \in [SUBSET Events -> Int]
    BY <2>1, <2>2, <2>3
  <2>5. \A k \in Keys, S \in SUBSET Events :
          was'[k][S] = IF S = Shown(k) THEN clock ELSE was[k][S]
    BY <2>3, <2>4
  <2>6. QED
    BY <2>1, <2>4, <2>5
<1>8. ASSUME NEW k \in Keys, NEW S \in SUBSET Events, NEW i \in Int, i <= clock,
             Since(S, k, i, event, was)
      PROVE  Since(S, k, i, event', was')
  <2>1. clock \in Int /\ was[k][S] \in Int
    BY DEF PagesInv
  <2>2. was'[k][S] >= i
    BY <1>7, <1>8, <2>1 DEF Since
  <2>3. QED
    BY <2>2 DEF Since
<1>9. \A k \in Keys : CopyInv(cache[k], k, event', members', was', slow, clock)
  <2> SUFFICES ASSUME NEW k \in Keys
               PROVE  CopyInv(cache[k], k, event', members', was', slow, clock)
    OBVIOUS
  <2>1. /\ CopyInv(cache[k], k, event, members, was, slow, clock) /\ cache[k] \in Copy
        /\ clock \in Int /\ slow \in Nat
    BY DEF PagesInv
  <2>2. cache[k].items \in SUBSET Events /\ cache[k].expires \in Int
    BY <2>1 DEF Copy
  <2>3. cache[k].expires <= clock + TTL
    BY <2>1 DEF CopyInv
  <2>4. /\ cache[k].expires - TTL - slow \in Int
        /\ cache[k].expires - TTL - slow <= clock
    BY <2>1, <2>2, <2>3, PagesConstants
  <2>5. Since(cache[k].items, k, cache[k].expires - TTL - slow, event, was)
          => Since(cache[k].items, k, cache[k].expires - TTL - slow, event', was')
    BY <1>8, <2>2, <2>4
  <2>6. Private(cache[k].items, k[1], event, members)
          => Private(cache[k].items, k[1], event', members')
    BY <1>6, <2>2
  <2>7. QED
    BY <2>1, <2>5, <2>6 DEF CopyInv
<1> DEFINE m(r) == read[r].mixed \/ /\ read[r].pc = "page"
                                    /\ Found(event, read[r]) # Found(event', read[r])
<1>10. read' = [r \in Reads |-> [read[r] EXCEPT !.mixed = m(r)]]
  BY DEF EditEvent
<1>11. ASSUME NEW r \in Reads
       PROVE  read'[r] \in ReadRecord /\ ReadInv(read'[r], event', members', was', clock)
  <2> DEFINE t == read[r]
             q == read'[r]
             b == m(r)
  <2>1. t \in ReadRecord /\ ReadInv(t, event, members, was, clock) /\ clock \in Nat
    BY DEF PagesInv
  <2>2. q = [t EXCEPT !.mixed = b]
    BY <1>10
  <2>3. b \in BOOLEAN
    BY <2>1 DEF ReadRecord
  <2>4. ~b => ~t.mixed
    OBVIOUS
  <2>5. ~b /\ t.pc = "page" => Found(event', t) = Found(event, t)
    OBVIOUS
  <2> HIDE DEF q, b, m
  <2>6. /\ q \in ReadRecord /\ q.pc = t.pc /\ q.op = t.op /\ q.viewer = t.viewer
        /\ q.page = t.page /\ q.archived = t.archived /\ q.event = t.event /\ q.total = t.total
        /\ q.items = t.items /\ q.mixed = b /\ q.at = t.at
    BY <2>1, <2>2, <2>3 DEF ReadRecord
  <2>7. t.items \in SUBSET Events /\ t.viewer \in Viewers /\ t.at \in Nat
    BY <2>1 DEF ReadRecord
  <2>8. Private(t.items, t.viewer, event, members)
          => Private(t.items, t.viewer, event', members')
    BY <1>6, <2>7
  <2>9. t.pc = "set" => Since(t.items, KeyOf(t), t.at, event', was')
    <3> SUFFICES ASSUME t.pc = "set"
                 PROVE  Since(t.items, KeyOf(t), t.at, event', was')
      OBVIOUS
    <3>1. /\ t.page \in PageNumbers /\ t.at <= clock
          /\ Since(t.items, KeyOf(t), t.at, event, was)
      BY <2>1 DEF ReadInv
    <3>2. KeyOf(t) \in Keys /\ t.at \in Int
      BY <2>1, <2>7, <3>1 DEF Keys, KeyOf, ReadRecord
    <3>3. QED
      BY <1>8, <2>7, <3>1, <3>2
  <2> HIDE DEF t
  <2>10. ReadInv(q, event', members', was', clock)
    BY <2>1, <2>4, <2>5, <2>6, <2>8, <2>9 DEF ReadInv, Found, KeyOf
  <2>11. QED
    BY <2>6, <2>10 DEF q
<1>12. read' \in [Reads -> ReadRecord]
  BY <1>10, <1>11
<1>13. UNCHANGED <<views, cache, clock, slow>>
  BY DEF EditEvent
<1>14. ViewsInv'
  <2>1. ASSUME NEW r \in Reads
        PROVE  /\ read'[r].op = read[r].op /\ read'[r].event = read[r].event
               /\ read'[r].pc = read[r].pc
    BY <1>10 DEF PagesInv, ReadRecord
  <2>2. \A x \in Events : Opened(x)' = Opened(x)
    BY <2>1 DEF Opened
  <2>3. QED
    BY <1>13, <2>2 DEF PagesInv, ViewsInv
<1>15. QED
  BY <1>3, <1>4, <1>5, <1>7, <1>9, <1>11, <1>12, <1>13, <1>14 DEF PagesInv

LEMMA TickKeeps ==
    ASSUME PagesInv, Tick
    PROVE  PagesInv'
<1>1. /\ clock \in 0 .. MaxTime /\ clock' = clock + 1 /\ clock < MaxTime
      /\ UNCHANGED <<event, views, cache, read, was, slow, members>>
  BY DEF PagesInv, Tick
<1>2. clock' \in 0 .. MaxTime
  BY <1>1, PagesConstants
<1>3. \A k \in Keys : CopyInv(cache[k], k, event, members, was, slow, clock')
  <2> SUFFICES ASSUME NEW k \in Keys
               PROVE  CopyInv(cache[k], k, event, members, was, slow, clock')
    OBVIOUS
  <2>1. CopyInv(cache[k], k, event, members, was, slow, clock) /\ cache[k].expires \in Int
    BY DEF PagesInv, Copy
  <2>2. cache[k].expires <= clock + TTL => cache[k].expires <= clock' + TTL
    BY <1>1, <2>1, PagesConstants
  <2>3. QED
    BY <2>1, <2>2 DEF CopyInv
<1>4. \A r \in Reads : ReadInv(read[r], event, members, was, clock')
  <2> SUFFICES ASSUME NEW r \in Reads
               PROVE  ReadInv(read[r], event, members, was, clock')
    OBVIOUS
  <2>1. ReadInv(read[r], event, members, was, clock) /\ read[r].at \in Nat
    BY DEF PagesInv, ReadRecord
  <2>2. read[r].at <= clock => read[r].at <= clock'
    BY <1>1, <2>1
  <2>3. QED
    BY <2>1, <2>2 DEF ReadInv
<1>5. ViewsInv'
  BY <1>1 DEF PagesInv, ViewsInv, Opened
<1>6. QED
  BY <1>1, <1>2, <1>3, <1>4, <1>5 DEF PagesInv

-----------------------------------------------------------------------------
(* The whole. *)

LEMMA PagesInvInit == Init => PagesInv
<1> SUFFICES ASSUME Init PROVE PagesInv
  OBVIOUS
<1> DEFINE row(e) == [status |-> IF e \in Published THEN "upcoming" ELSE "draft",
                      is_archived |-> FALSE, is_deleted |-> FALSE,
                      organizers |-> {Creator[e]}]
<1>1. \A e \in Events : row(e) \in Row /\ row(e).organizers = {Creator[e]}
  <2>1. \A e \in Events : Creator[e] \in Users
    BY PagesAssumption
  <2>2. QED
    BY <2>1 DEF Row, STATUS_TRANSITIONS
<1>2. event = [e \in Events |-> row(e)]
  BY DEF Init
<1> HIDE DEF row
<1>3. /\ event \in [Events -> Row] /\ members \in [Events -> SUBSET Users]
      /\ \A e \in Events : event[e].organizers \cup {Creator[e]} \subseteq members[e]
  <2>1. members = [e \in Events |-> event[e].organizers]
    BY DEF Init
  <2>2. \A e \in Events : event[e] \in Row /\ members[e] = {Creator[e]}
    BY <1>1, <1>2, <2>1
  <2>3. \A e \in Events : Creator[e] \in Users
    BY PagesAssumption
  <2>4. QED
    BY <1>1, <1>2, <2>1, <2>2, <2>3
<1>4. /\ views \in [Events -> Nat] /\ \A e \in Events : views[e] = 0
      /\ clock \in 0 .. MaxTime /\ slow \in 0 .. MaxTime /\ clock = 0 /\ slow = 0
  BY PagesConstants DEF Init
<1>5. was \in [Keys -> [SUBSET Events -> Int]]
  BY PagesConstants DEF Init, Keys
<1>6. /\ NoPage \in Copy /\ NoPage.items = {} /\ NoPage.total = 0
      /\ NoPage.mixed = FALSE /\ NoPage.expires = Never
  BY PagesConstants DEF NoPage, Copy
<1>7. cache \in [Keys -> Copy] /\ \A k \in Keys : cache[k] = NoPage
  BY <1>6 DEF Init, Keys
<1>8. \A k \in Keys : CopyInv(NoPage, k, event, members, was, slow, clock)
  <2>1. ASSUME NEW p \in Nat \ {0} PROVE AddsUp(0, {}, p)
    <3>1. 0 - (p - 1) * PageSize <= 0
      BY PagesConstants
    <3>2. QED
      BY <3>1, FS_EmptySet DEF AddsUp
  <2>2. Never <= clock + TTL
    BY <1>4, PagesConstants
  <2>3. QED
    BY <1>6, <2>1, <2>2, FS_EmptySet, PagesConstants DEF CopyInv, Private
<1>9. read \in [Reads -> ReadRecord] /\ \A r \in Reads : read[r] = NoRead
  BY NoReadFacts DEF Init
<1>10. ReadInv(NoRead, event, members, was, clock)
  BY <1>4, NoReadFacts, FS_EmptySet, PagesConstants DEF ReadInv
<1>11. ViewsInv
  <2>1. \A e \in Events : Opened(e) = {}
    BY <1>9, NoReadFacts DEF Opened
  <2>2. QED
    BY <1>4, <2>1, FS_EmptySet DEF ViewsInv
<1>12. QED
  BY <1>3, <1>4, <1>5, <1>7, <1>8, <1>9, <1>10, <1>11 DEF PagesInv

LEMMA EventsInvInit == Init => EventsInv
<1>1. Init => work \in 0 .. MaxWork
  BY TagsAssumption DEF Init, TagsInit
<1>2. QED
  BY <1>1, TagsInvInit, PagesInvInit DEF EventsInv, Init

\* Every step counts for MaxWork or leaves it.
LEMMA WorkKept ==
    ASSUME work \in 0 .. MaxWork, [Next]_vars
    PROVE  work' \in 0 .. MaxWork
<1>1. ASSUME Work PROVE work' \in 0 .. MaxWork
  BY <1>1, TagsAssumption DEF Work
<1>2. ASSUME NEW r \in TagRequests, TagStep(r) PROVE Work \/ work' = work
  BY <1>2 DEF TagStep, BeginAdd, BeginRemoveTag, SelectTag, InsertTag, SelectLink,
     InsertLink, InsertConflictsWithOther, CommitTags, TagDeadlock, RemoveTag, TagRequestDies
<1>3. ASSUME NEW r \in Reads, ReadStep(r) PROVE Work \/ work' = work
  BY <1>3 DEF ReadStep, AskList, CacheHit, CacheMiss, CountRows, ReadPage, StorePage,
     OpenSlug, CountView, ReadFails
<1>4. QED
  BY <1>1, <1>2, <1>3 DEF Next, EditEvent, Tick, vars

LEMMA EventsStep == EventsInv /\ [Next]_vars => EventsInv'
<1> SUFFICES ASSUME EventsInv, [Next]_vars PROVE EventsInv'
  OBVIOUS
<1>1. ASSUME UNCHANGED tagVars PROVE TagsInv'
  BY <1>1 DEF EventsInv, TagsInv, AllOrNothing, tagVars
<1>2. ASSUME UNCHANGED pageVars PROVE PagesInv'
  BY <1>2 DEF EventsInv, PagesInv, ViewsInv, Opened, pageVars
<1>3. work' \in 0 .. MaxWork
  BY WorkKept DEF EventsInv
<1>4. CASE (\E r \in Reads : ReadStep(r)) /\ UNCHANGED tagVars
  BY <1>1, <1>3, <1>4, ReadStepKeeps DEF EventsInv
<1>5. CASE (\E e \in Events : EditEvent(e)) /\ UNCHANGED tagVars
  BY <1>1, <1>3, <1>5, EditEventKeeps DEF EventsInv
<1>6. CASE Tick /\ UNCHANGED tagVars
  BY <1>1, <1>3, <1>6, TickKeeps DEF EventsInv
<1>7. CASE (\E r \in TagRequests : TagStep(r)) /\ UNCHANGED pageVars
  BY <1>2, <1>3, <1>7, TagStepKeeps DEF EventsInv
<1>8. CASE UNCHANGED vars
  <2>1. UNCHANGED tagVars /\ UNCHANGED pageVars
    BY <1>8 DEF vars, tagVars, pageVars
  <2>2. QED
    BY <1>1, <1>2, <1>3, <2>1 DEF EventsInv
<1>9. QED
  BY <1>4, <1>5, <1>6, <1>7, <1>8 DEF Next

\* Who has inserted what, who waits for whom, and what the copies of pages and
\* the readers hold agree with the rows, as the parts of EventsInv say.
THEOREM EventsInvariant == Spec => []EventsInv
  BY EventsInvInit, EventsStep, PTL DEF Spec

-----------------------------------------------------------------------------
(* Tags. *)

\* No request for tags leaves a part of its work behind, for any number of
\* overlapping requests (tags.py:64).
THEOREM TagsAllOrNothing == Spec => []AllOrNothing
<1>1. EventsInv => AllOrNothing
  BY DEF EventsInv, TagsInv
<1>2. QED
  BY <1>1, EventsInvariant, PTL

\* Requests that agree on an order of the tags never deadlock, however many
\* they are (tags.py:49).
THEOREM DeadlocksContradict == Spec => []DeadlockNeedsOppositeOrders
<1>1. EventsInv => DeadlockNeedsOppositeOrders
  BY CirclesContradict DEF EventsInv
<1>2. QED
  BY <1>1, EventsInvariant, PTL

\* Only its own commit ends a request as done.
LEMMA DoneByCommit ==
    ASSUME TagsInv, NEW o \in TagRequests, TagStep(o), NEW r \in TagRequests,
           tagging[r].pc = "commit", tagging'[r].pc = "done"
    PROVE  r = o /\ CommitTags(r)
<1>1. \A q : Become(o, q) => /\ tagging'[o] = q
                             /\ r # o => tagging'[r] = tagging[r]
  BY DEF TagsInv, Become
<1>2. CASE RemoveTag(o)
  <2>1. o # r
    BY <1>2 DEF RemoveTag
  <2>2. \/ tagging'[r] = tagging[r]
        \/ tagging'[r] = [tagging[r] EXCEPT !.lost = @ \cup {tagging[o].asked[1]}]
    BY <1>2, <2>1 DEF RemoveTag
  <2>3. tagging[r] \in TagRequest
    BY DEF TagsInv
  <2>4. QED
    BY <2>2, <2>3 DEF TagRequest
<1>3. ASSUME NEW q, Become(o, q)
      PROVE  r = o /\ q.pc = "done"
  BY <1>1, <1>3
<1>4. Ready.pc = "idle" /\ tagging[o] \in TagRequest
  BY ReadyFacts DEF TagsInv
<1>5. CASE tagging[o].pc # "commit"
  <2>1. r # o
    BY <1>5
  <2>2. RemoveTag(o) \/ \E q : Become(o, q)
    BY <1>5 DEF TagStep, BeginAdd, BeginRemoveTag, SelectTag, InsertTag, SelectLink,
       InsertLink, InsertConflictsWithOther, CommitTags, TagDeadlock, TagRequestDies,
       TagFails, TagGoto
  <2>3. QED
    BY <1>2, <1>3, <2>1, <2>2
<1>6. CASE tagging[o].pc = "commit"
  <2>1. CommitTags(o) \/ TagFails(o)
    BY <1>4, <1>6 DEF TagStep, BeginAdd, BeginRemoveTag, SelectTag, InsertTag, SelectLink,
       InsertLink, InsertConflictsWithOther, TagDeadlock, RemoveTag, TagRequestDies
  <2>2. ~TagFails(o)
    <3>1. [Ready EXCEPT !.pc = "failed"].pc # "done"
      BY DEF Ready
    <3>2. QED
      BY <1>3, <3>1 DEF TagFails
  <2>3. r = o
    BY <1>3, <2>1, <2>2 DEF CommitTags
  <2>4. QED
    BY <2>1, <2>2, <2>3
<1>7. QED
  BY <1>5, <1>6

\* An answer to a request for tags tells the truth: the event has them, or has
\* lost them meanwhile (tags.py:72).
THEOREM TagsAskedAreLinked == Spec => AskedTagsLinked
<1>1. ASSUME EventsInv, [Next]_vars
      PROVE  [\A r \in TagRequests :
                tagging[r].pc = "commit" /\ tagging'[r].pc = "done"
                  => \A l \in Asked(tagging[r]) :
                       l \in links' \/ l[2] \in tagging[r].lost]_tagVars
  <2> SUFFICES ASSUME ~UNCHANGED tagVars, NEW r \in TagRequests,
                      tagging[r].pc = "commit", tagging'[r].pc = "done",
                      NEW l \in Asked(tagging[r])
               PROVE  l \in links' \/ l[2] \in tagging[r].lost
    OBVIOUS
  <2>1. PICK o \in TagRequests : TagStep(o)
    BY <1>1 DEF Next, vars, tagVars
  <2>2. CommitTags(r)
    BY <1>1, <2>1, DoneByCommit DEF EventsInv
  <2> DEFINE q == tagging[r]
  <2>3. /\ q \in TagRequest /\ HeldInv(q) /\ RowsInv(q, tags, links)
        /\ links' = links \cup {<<q.event, s>> : s \in q.new_links}
    BY <1>1, <2>2 DEF EventsInv, TagsInv, CommitTags
  <2>4. /\ q.asked \in Slugs \X Slugs
        /\ \A i \in {1, 2} :
             q.asked[i] \in q.new_links \cup q.lost \/ <<q.event, q.asked[i]>> \in links
    BY <2>3 DEF HeldInv, RowsInv
  <2>5. PICK i \in {1, 2} : l = <<q.event, q.asked[i]>>
    BY <2>3, <2>4, AskedPair
  <2>6. l[2] = q.asked[i]
    BY <2>5
  <2> HIDE DEF q
  <2>7. QED
    BY <2>3, <2>4, <2>5, <2>6 DEF q
<1>2. QED
  BY <1>1, EventsInvariant, PTL DEF Spec, AskedTagsLinked

-----------------------------------------------------------------------------
(* Lists. *)

\* No list, copied or not, shows a draft but to admins and those who have been
\* on its team, totals fit their pages and every look-up by slug is counted, for
\* any numbers of events, viewers and readers and any size of a page
\* (events/selectors.py:45-172).
THEOREM AnswersStaySound == Spec => []AnswersSound
<1>1. EventsInv => TypeOK
  <2> SUFFICES ASSUME EventsInv PROVE TypeOK
    OBVIOUS
  <2>1. TagsTypeOK
    <3>1. DOMAIN tagging = TagRequests /\ \A r \in TagRequests : tagging[r] \in TagRequest
      BY DEF EventsInv, TagsInv
    <3>2. QED
      BY <3>1 DEF EventsInv, TagsInv, TagsTypeOK, TagRequest, Working
  <2>2. DOMAIN cache = Keys /\ \A k \in Keys : /\ cache[k].items \subseteq Events
                                              /\ cache[k].expires <= clock + TTL
    BY DEF EventsInv, PagesInv, Copy, CopyInv
  <2>3. \A r \in Reads :
          /\ read[r].pc \in {"idle", "lookup", "count", "page", "set", "view",
                             "answered", "failed"}
          /\ read[r].total \in Nat /\ read[r].at <= clock
          /\ read[r].items \subseteq Events /\ Cardinality(read[r].items) <= PageSize
          /\ read[r].pc = "view" => read[r].event \in Events
    BY DEF EventsInv, PagesInv, ReadRecord, ReadInv
  <2>4. QED
    BY <2>1, <2>2, <2>3 DEF EventsInv, PagesInv, TypeOK
<1>2. EventsInv => DraftsStayUnlisted
  <2> SUFFICES ASSUME EventsInv, NEW r \in Reads, NEW e \in Events,
                      read[r].pc = "answered", read[r].op # "slug",
                      e \in read[r].items, event[e].status = "draft"
               PROVE  read[r].viewer \in Admins \cup members[e]
    BY DEF DraftsStayUnlisted
  <2>1. ReadInv(read[r], event, members, was, clock)
    BY DEF EventsInv, PagesInv
  <2>2. QED
    BY <2>1 DEF ReadInv, Private
<1>3. EventsInv => PagesAddUp
  <2> SUFFICES ASSUME EventsInv, NEW r \in Reads,
                      read[r].pc = "answered", read[r].op # "slug", ~read[r].mixed
               PROVE  AddsUp(read[r].total, read[r].items, read[r].page)
    BY DEF PagesAddUp, AddsUp
  <2>1. ReadInv(read[r], event, members, was, clock)
    BY DEF EventsInv, PagesInv
  <2>2. QED
    BY <2>1 DEF ReadInv
<1>4. EventsInv => ViewsCounted
  BY DEF EventsInv, PagesInv, ViewsInv, ViewsCounted
<1>5. EventsInv => AnswersSound
  BY <1>1, <1>2, <1>3, <1>4 DEF AnswersSound
<1>6. QED
  BY <1>5, EventsInvariant, PTL

\* A list is answered from a copy or by its own SELECTs.
LEMMA AnsweredLists ==
    ASSUME PagesInv, NEW o \in Reads, ReadStep(o), NEW r \in Reads,
           read[r].pc # "answered", read'[r].pc = "answered", read[r].op = "list"
    PROVE  r = o /\ (CacheHit(r) \/ StorePage(r))
<1>1. \A q : read' = [read EXCEPT ![o] = q] =>
        read'[o] = q /\ (r # o => read'[r] = read[r])
  BY DEF PagesInv
<1>2. \E q : read' = [read EXCEPT ![o] = q]
  BY DEF ReadStep, AskList, CacheHit, CacheMiss, CountRows, ReadPage, StorePage,
     OpenSlug, CountView, ReadFails, Answer, ReadGoto
<1>3. r = o
  BY <1>1, <1>2
<1> DEFINE t == read[r]
<1>4. t \in ReadRecord /\ ReadInv(t, event, members, was, clock)
  BY DEF PagesInv
<1>5. ~AskList(r) /\ ~OpenSlug(r)
  BY NoReadFacts DEF AskList, OpenSlug
<1>6. \A pc : ReadGoto(r, pc) => pc = "answered"
  <2> SUFFICES ASSUME NEW pc, ReadGoto(r, pc) PROVE pc = "answered"
    OBVIOUS
  <2>1. read'[r] = [t EXCEPT !.pc = pc]
    BY <1>1, <1>3 DEF ReadGoto
  <2>2. read'[r].pc = pc
    BY <1>4, <2>1 DEF ReadRecord
  <2>3. QED
    BY <2>2
<1>7. ~CacheMiss(r) /\ ~ReadFails(r)
  <2>1. [NoRead EXCEPT !.pc = "failed"].pc = "failed"
    BY DEF NoRead
  <2>2. QED
    BY <1>1, <1>3, <1>6, <2>1 DEF CacheMiss, ReadFails
<1>8. ~CountView(r)
  BY <1>4 DEF CountView, ReadInv
<1>9. ~CountRows(r)
  <2> SUFFICES ASSUME CountRows(r) PROVE FALSE
    OBVIOUS
  <2>1. PICK n : read' = [read EXCEPT ![r] = [t EXCEPT !.pc = "page", !.total = n]]
    BY DEF CountRows
  <2>2. read'[r] = [t EXCEPT !.pc = "page", !.total = n]
    BY <1>1, <1>3, <2>1
  <2>3. QED
    BY <1>4, <2>2 DEF ReadRecord
<1>10. ~ReadPage(r)
  <2> SUFFICES ASSUME ReadPage(r) PROVE FALSE
    OBVIOUS
  <2> DEFINE p(S) == [t EXCEPT !.items = S]
  <2>1. PICK S : IF p(S).op = "list"
                 THEN read' = [read EXCEPT ![r] = [p(S) EXCEPT !.pc = "set", !.at = clock]]
                 ELSE Answer(r, p(S))
    BY DEF ReadPage
  <2>2. p(S).op = "list"
    BY <1>4 DEF ReadRecord
  <2>3. read'[r] = [p(S) EXCEPT !.pc = "set", !.at = clock]
    BY <1>1, <1>3, <2>1, <2>2
  <2>4. QED
    BY <1>4, <2>3 DEF ReadRecord
<1>11. QED
  BY <1>3, <1>5, <1>7, <1>8, <1>9, <1>10 DEF ReadStep

\* A list is at most the TTL and the time of the slowest reader old
\* (events/routes/base.py:112).
THEOREM AnswersStayRecent == Spec => AnswersRecent
<1>1. ASSUME EventsInv, [Next]_vars
      PROVE  [\A r \in Reads :
                read[r].pc # "answered" /\ read'[r].pc = "answered" /\ read[r].op = "list"
                  => LET S == read'[r].items IN
                     \/ S = PageAt(event, Key(r))
                     \/ clock - was[Key(r)][S] < TTL + slow']_vars
  <2> SUFFICES ASSUME NEW r \in Reads, read[r].pc # "answered",
                      read'[r].pc = "answered", read[r].op = "list", Next
               PROVE  LET S == read'[r].items IN
                      \/ S = PageAt(event, Key(r))
                      \/ clock - was[Key(r)][S] < TTL + slow'
    BY <1>1
  <2> DEFINE t == read[r]
             k == Key(r)
  <2>1. /\ t \in ReadRecord /\ ReadInv(t, event, members, was, clock)
        /\ clock \in 0 .. MaxTime /\ slow \in 0 .. MaxTime
    BY <1>1 DEF EventsInv, PagesInv
  <2>2. read' # read
    OBVIOUS
  <2>3. ~\E e \in Events : EditEvent(e)
    <3> SUFFICES ASSUME NEW e \in Events, EditEvent(e) PROVE FALSE
      OBVIOUS
    <3>1. PICK m : read'[r] = [t EXCEPT !.mixed = m]
      BY DEF EditEvent
    <3>2. QED
      BY <2>1, <3>1 DEF ReadRecord
  <2>4. PICK o \in Reads : ReadStep(o)
    BY <2>2, <2>3 DEF Next, Tick, pageVars
  <2>5. CacheHit(r) \/ StorePage(r)
    BY <1>1, <2>4, AnsweredLists DEF EventsInv
  <2>6. t.pc \in {"lookup", "set"}
    BY <2>5 DEF CacheHit, StorePage
  <2>7. k \in Keys /\ k = KeyOf(t)
    BY <2>1, <2>6 DEF ReadInv, ReadRecord, Keys, Key, KeyOf
  <2>8. CASE CacheHit(r)
    <3> DEFINE c == cache[k]
    <3>1. c \in Copy /\ CopyInv(c, k, event, members, was, slow, clock)
          /\ was[k] \in [SUBSET Events -> Int]
      BY <1>1, <2>7 DEF EventsInv, PagesInv
    <3>2. clock < c.expires /\ slow' = slow /\ Answer(r, c)
      BY <2>8 DEF CacheHit, Fresh
    <3> HIDE DEF c
    <3>3. read'[r].items = c.items
      BY <1>1, <2>1, <3>2 DEF Answer, EventsInv, PagesInv, ReadRecord
    <3>4. c.items \in SUBSET Events /\ c.expires \in Int
      BY <3>1 DEF Copy
    <3>5. was[k][c.items] \in Int
      BY <3>1, <3>4
    <3>6. c.expires # Never
      BY <2>1, <3>2, <3>4, PagesConstants
    <3>7. \/ c.items = PageAt(event, k)
          \/ was[k][c.items] >= c.expires - TTL - slow
      BY <3>1, <3>6 DEF CopyInv, Since
    <3>8. was[k][c.items] >= c.expires - TTL - slow => clock - was[k][c.items] < TTL + slow'
      BY <2>1, <3>2, <3>4, <3>5, PagesConstants
    <3>9. QED
      BY <3>3, <3>7, <3>8
  <2>9. CASE StorePage(r)
    <3>1. /\ slow' = IF clock - t.at > slow THEN clock - t.at ELSE slow
          /\ t.pc = "set" /\ Answer(r, t)
      BY <2>9 DEF StorePage
    <3>2. Since(t.items, k, t.at, event, was)
      BY <2>1, <2>7, <3>1 DEF ReadInv
    <3>3. read'[r].items = t.items
      BY <1>1, <2>1, <3>1 DEF Answer, EventsInv, PagesInv, ReadRecord
    <3>4. t.items \in SUBSET Events /\ t.at \in Nat
      BY <2>1 DEF ReadRecord
    <3>5. was[k][t.items] \in Int
      BY <1>1, <2>7, <3>4 DEF EventsInv, PagesInv
    <3> HIDE DEF t, k
    <3>6. was[k][t.items] >= t.at => clock - was[k][t.items] < TTL + slow'
      BY <2>1, <3>1, <3>4, <3>5, PagesConstants
    <3>7. \/ t.items = PageAt(event, k)
          \/ clock - was[k][t.items] < TTL + slow'
      BY <3>2, <3>6 DEF Since
    <3>8. QED
      BY <3>3, <3>7 DEF t, k
  <2>10. QED
    BY <2>5, <2>8, <2>9
<1>2. QED
  BY <1>1, EventsInvariant, PTL DEF Spec, AnswersRecent

=============================================================================
