------------------------------ MODULE EventTags ------------------------------
(***************************************************************************)
(* The tags of events: add_tags_to_event looks up or inserts a row of tags *)
(* for each name of the request, and its link to the event, and commits    *)
(* once at the end; remove_tag_from_event deletes one link.                *)
(*                                                                         *)
(* A name stands for its slug: names with the same slug share a row.  What *)
(* a transaction has inserted is not seen by the others, but they wait for *)
(* its end before they insert the same key.                                *)
(***************************************************************************)
EXTENDS Naturals, Sequences, FiniteSets

CONSTANTS
    Events,       \* 1 .. n, in the order of their start_date
    Slugs,        \* the tags that are asked for
    Linked,       \* the links there are at first
    TagRequests,  \* requests of the owners of the events, each made once
    MaxWork       \* bound: requests, failures and edits

ASSUME TagsAssumption ==
    /\ MaxWork \in Nat
    /\ Events \subseteq Nat /\ IsFiniteSet(Events)
    /\ IsFiniteSet(Slugs)
    /\ Linked \subseteq Events \X Slugs

VARIABLES
    tags,       \* the committed rows of tags
    links,      \* the committed rows of event_tags
    tagging,    \* how far each request is
    granted,    \* history: the links that answered requests have asked for
    work        \* how much of MaxWork is done

tagVars == <<tags, links, tagging, granted>>

Links == Events \X Slugs

\* asked, left: the names of the request and those it has not dealt with;
\* new_tags, new_links: what it has inserted; lost: slugs whose link to the
\* event was removed while it ran.
Ready == [pc |-> "idle", event |-> 0, asked |-> <<>>, left |-> <<>>,
          new_tags |-> {}, new_links |-> {}, lost |-> {}]

TagsTypeOK ==
    /\ tags \subseteq Slugs
    /\ links \subseteq Links
    /\ \A l \in links : l[2] \in tags
    /\ granted \subseteq Links
    /\ work \in 0 .. MaxWork
    /\ DOMAIN tagging = TagRequests
    /\ \A r \in TagRequests :
         /\ tagging[r].pc \in {"idle", "tag", "insert_tag", "link", "insert_link",
                               "commit", "remove", "done", "failed"}
         /\ tagging[r].new_tags \subseteq Slugs
         /\ tagging[r].new_links \subseteq Slugs
         /\ tagging[r].lost \subseteq Slugs

TagsInit ==
    /\ links = Linked
    /\ tags = {l[2] : l \in links}
    /\ tagging = [r \in TagRequests |-> Ready]
    /\ granted = links
    /\ work = 0

Work == work < MaxWork /\ work' = work + 1

Become(r, q) == tagging' = [tagging EXCEPT ![r] = q]
TagGoto(r, pc) == Become(r, [tagging[r] EXCEPT !.pc = pc])

\* ROLLBACK: what the transaction has inserted is gone.
TagFails(r) ==
    /\ Become(r, [Ready EXCEPT !.pc = "failed"])
    /\ UNCHANGED <<tags, links, granted>>

-----------------------------------------------------------------------------

\* Mutant: the names are made a set before the loop.
BeginAddAsSet(r, e, names) ==
    /\ Work
    /\ tagging[r] = Ready
    /\ \E s \in {names, [i \in DOMAIN names |-> names[Len(names) + 1 - i]]} :
         Become(r, [Ready EXCEPT !.pc = "tag", !.event = e, !.asked = names, !.left = s])
    /\ UNCHANGED <<tags, links, granted>>

BeginAdd(r, e, names) ==
    /\ Work
    /\ tagging[r] = Ready
    /\ Become(r, [Ready EXCEPT !.pc = "tag", !.event = e, !.asked = names,
                               !.left = names])
    /\ UNCHANGED <<tags, links, granted>>

Slug(r) == Head(tagging[r].left)

\* The next name, or the commit.
NextName(q) ==
    [q EXCEPT !.left = Tail(@), !.pc = IF Len(q.left) = 1 THEN "commit" ELSE "tag"]

SelectTag(r) ==
    /\ tagging[r].pc = "tag"
    /\ TagGoto(r, IF Slug(r) \in tags \cup tagging[r].new_tags
                  THEN "link" ELSE "insert_tag")
    /\ UNCHANGED <<tags, links, granted, work>>

\* Those whose end r has to wait for before its INSERT.
WaitsFor(r) ==
    {o \in TagRequests \ {r} :
        \/ tagging[r].pc = "insert_tag" /\ Slug(r) \in tagging[o].new_tags
        \/ /\ tagging[r].pc = "insert_link"
           /\ tagging[o].event = tagging[r].event
           /\ Slug(r) \in tagging[o].new_links}

\* Mutant: a new tag is committed at once.
InsertTagCommits(r) ==
    /\ tagging[r].pc = "insert_tag"
    /\ WaitsFor(r) = {}
    /\ Slug(r) \notin tags
    /\ tags' = tags \cup {Slug(r)}
    /\ TagGoto(r, "link")
    /\ UNCHANGED <<links, granted, work>>

InsertTag(r) ==
    /\ tagging[r].pc = "insert_tag"
    /\ WaitsFor(r) = {}
    /\ Slug(r) \notin tags
    /\ Become(r, [tagging[r] EXCEPT !.pc = "link", !.new_tags = @ \cup {Slug(r)}])
    /\ UNCHANGED <<tags, links, granted, work>>

\* Mutant: the look-up forgets to ask for the event.
SelectLinkAnyEvent(r) ==
    /\ tagging[r].pc = "link"
    /\ IF Slug(r) \in tagging[r].new_links \cup {l[2] : l \in links}
       THEN Become(r, NextName(tagging[r]))
       ELSE TagGoto(r, "insert_link")
    /\ UNCHANGED <<tags, links, granted, work>>

SelectLink(r) ==
    /\ tagging[r].pc = "link"
    /\ IF \/ Slug(r) \in tagging[r].new_links
          \/ <<tagging[r].event, Slug(r)>> \in links
       THEN Become(r, NextName(tagging[r]))
       ELSE TagGoto(r, "insert_link")
    /\ UNCHANGED <<tags, links, granted, work>>

InsertLink(r) ==
    /\ tagging[r].pc = "insert_link"
    /\ WaitsFor(r) = {}
    /\ <<tagging[r].event, Slug(r)>> \notin links
    /\ Become(r, [NextName(tagging[r]) EXCEPT !.new_links = @ \cup {Slug(r)}])
    /\ UNCHANGED <<tags, links, granted, work>>

\* Somebody else has inserted the key since the look-up: 409, rolled back.
InsertConflictsWithOther(r) ==
    /\ WaitsFor(r) = {}
    /\ \/ tagging[r].pc = "insert_tag" /\ Slug(r) \in tags
       \/ tagging[r].pc = "insert_link" /\ <<tagging[r].event, Slug(r)>> \in links
    /\ TagFails(r)
    /\ UNCHANGED work

\* The links of the event that a request asks for.
Asked(q) == {<<q.event, q.asked[i]>> : i \in DOMAIN q.asked}

CommitTags(r) ==
    LET q == tagging[r] IN
    /\ q.pc = "commit"
    /\ tags' = tags \cup q.new_tags
    /\ links' = links \cup {<<q.event, s>> : s \in q.new_links}
    /\ granted' = granted \cup Asked(q)
    /\ Become(r, [Ready EXCEPT !.pc = "done"])
    /\ UNCHANGED work

\* Requests of which each waits for another, and is waited for.
Circle(S) ==
    \A o \in S : WaitsFor(o) \cap S # {} /\ \E q \in S : o \in WaitsFor(q)

\* PostgreSQL aborts a transaction of a cycle, 500.
InTagCycle(r) == \E S \in SUBSET TagRequests : r \in S /\ Circle(S)
TagDeadlock(r) == InTagCycle(r) /\ TagFails(r) /\ UNCHANGED work

-----------------------------------------------------------------------------

\* remove_tag_from_event: "Tag not found on this event" otherwise.
BeginRemoveTag(r, e, s) ==
    /\ Work
    /\ tagging[r] = Ready
    /\ <<e, s>> \in links
    /\ Become(r, [Ready EXCEPT !.pc = "remove", !.event = e, !.asked = <<s>>])
    /\ UNCHANGED <<tags, links, granted>>

\* The DELETE may find the link gone.
RemoveTag(r) ==
    LET q == tagging[r] IN
    /\ q.pc = "remove"
    /\ links' = links \ Asked(q)
    /\ tagging' = [o \in TagRequests |->
                     CASE o = r -> [Ready EXCEPT !.pc = "done"]
                       [] o # r /\ tagging[o].event = q.event ->
                            [tagging[o] EXCEPT !.lost = @ \cup {q.asked[1]}]
                       [] OTHER -> tagging[o]]
    /\ UNCHANGED <<tags, granted, work>>

\* The process dies, or the client is gone.
TagRequestDies(r) ==
    /\ tagging[r].pc \notin {"idle", "done", "failed"}
    /\ Work
    /\ TagFails(r)

\* Requests of two names, which may be one tag, have all that longer ones have.
TagStep(r) ==
    \/ \E e \in Events :
         \/ \E names \in Slugs \X Slugs : BeginAdd(r, e, names)
         \/ \E s \in Slugs : BeginRemoveTag(r, e, s)
    \/ SelectTag(r) \/ InsertTag(r) \/ SelectLink(r) \/ InsertLink(r)
    \/ InsertConflictsWithOther(r) \/ CommitTags(r) \/ TagDeadlock(r)
    \/ RemoveTag(r) \/ TagRequestDies(r)

-----------------------------------------------------------------------------

\* A request that is refused, is aborted or dies leaves neither a tag nor a
\* link behind, however far it had come (tags.py:64).
AllOrNothing ==
    /\ links \subseteq granted
    /\ tags \subseteq {l[2] : l \in granted}

\* When tags are answered for, the event has them all, those that others have
\* created or linked meanwhile included, unless one was removed meanwhile.
AskedTagsLinked ==
    [][\A r \in TagRequests :
         tagging[r].pc = "commit" /\ tagging'[r].pc = "done"
            => \A l \in Asked(tagging[r]) : l \in links' \/ l[2] \in tagging[r].lost]_tagVars

\* Whether r asks for its tags in an order of all tags, or for one tag only.
Follows(r, rank) ==
    LET names == tagging[r].asked
    IN names[1] = names[2] \/ rank[names[1]] < rank[names[2]]

\* Requests wait for each other in a cycle only if their orders contradict each
\* other: the loop keeps the order of the request (tags.py:49), and requests
\* that agree on any one order of the tags never deadlock.
DeadlockNeedsOppositeOrders ==
    \A S \in SUBSET TagRequests : S # {} /\ Circle(S) =>
        ~\E rank \in [Slugs -> 1 .. Cardinality(Slugs)] : \A r \in S : Follows(r, rank)

=============================================================================
