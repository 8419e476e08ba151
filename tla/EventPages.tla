----------------------------- MODULE EventPages -----------------------------
(***************************************************************************)
(* What the events look like to those who list and open them: pages read   *)
(* by two SELECTs, the copies of pages that Redis keeps for a while, and   *)
(* the view counter; beside them the tags of EventTags.                    *)
(*                                                                         *)
(* A page shows the events of a list by their start_date, latest first.    *)
(* Of the filters only is_archived lets other rows in, and it is modelled; *)
(* the others, and the search, take rows away, and are left out with the   *)
(* other orders.                                                           *)
(*                                                                         *)
(* Only lists look at a viewer: the look-ups by slug and by id give any    *)
(* event that is not deleted, drafts included, to anybody.                 *)
(*                                                                         *)
(* An edit of an event is one committed step here, see Registration and    *)
(* EventTeam for the edits themselves.                                     *)
(***************************************************************************)
EXTENDS EventTags, Integers

CONSTANTS
    Users,      \* the accounts
    Admins,     \* those with the role admin
    Guest,      \* a visitor without an account
    Creator,    \* who has created each event
    Published,  \* the events that are no drafts at first
    Reads,      \* requests that read, each made once
    PageSize,   \* pagination.size
    TTL,        \* how many ticks Redis keeps a page, 60 seconds
    MaxTime     \* bound: ticks of the clock

ASSUME PagesAssumption ==
    /\ Admins \subseteq Users /\ Guest \notin Users
    /\ Creator \in [Events -> Users] /\ Published \subseteq Events
    /\ PageSize \in Nat \ {0} /\ TTL \in Nat \ {0} /\ MaxTime \in Nat

VARIABLES
    event,      \* the rows of events
    views,      \* events.views_count
    cache,      \* what Redis holds under each key
    clock,      \* the time
    read,       \* how far each request is
    was,        \* history: when each page was last as it no longer is
    slow,       \* history: the longest time from reading a page to storing it
    members     \* history: all who have created or organized each event

pageVars == <<event, views, cache, clock, read, was, slow, members>>
vars == <<event, views, cache, clock, read, was, slow, members,
          tags, links, tagging, granted, work>>

Viewers == Users \cup {Guest}
PageNumbers == 1 .. ((Cardinality(Events) + PageSize - 1) \div PageSize)
Keys == Viewers \X PageNumbers \X BOOLEAN
Never == 0 - MaxTime - TTL - 1

\* upcoming stands for ongoing, too.
STATUS_TRANSITIONS ==
    [draft |-> {"upcoming", "cancelled"}, upcoming |-> {"completed", "cancelled"},
     completed |-> {}, cancelled |-> {}]

Row == [status : DOMAIN STATUS_TRANSITIONS, is_archived : BOOLEAN,
        is_deleted : BOOLEAN, organizers : SUBSET Users]

NoPage == [items |-> {}, total |-> 0, mixed |-> FALSE, expires |-> Never]

\* total: the rows counted, or the views_count read; mixed: the list was
\* changed between the two SELECTs; at: when the page was read. Once "answered"
\* a look-up has committed, whether or not its answer arrives.
NoRead == [pc |-> "idle", op |-> "none", viewer |-> Guest, page |-> 1,
           archived |-> FALSE, event |-> 0, total |-> 0, items |-> {}, mixed |-> FALSE, at |-> 0]

TypeOK ==
    /\ TagsTypeOK
    /\ event \in [Events -> Row]
    /\ views \in [Events -> Nat]
    /\ members \in [Events -> SUBSET Users]
    /\ clock \in 0 .. MaxTime /\ slow \in 0 .. MaxTime
    /\ \A k \in DOMAIN cache : /\ cache[k].items \subseteq Events
                              /\ cache[k].expires <= clock + TTL
    /\ DOMAIN read = Reads
    /\ \A r \in Reads :
         /\ read[r].pc \in {"idle", "lookup", "count", "page", "set", "view",
                            "answered", "failed"}
         /\ read[r].total \in Nat /\ read[r].at <= clock
         /\ read[r].items \subseteq Events /\ Cardinality(read[r].items) <= PageSize
         /\ read[r].pc = "view" => read[r].event \in Events

Init ==
    /\ TagsInit
    /\ event = [e \in Events |->
                 [status |-> IF e \in Published THEN "upcoming" ELSE "draft",
                  is_archived |-> FALSE, is_deleted |-> FALSE,
                  organizers |-> {Creator[e]}]]
    /\ members = [e \in Events |-> event[e].organizers]
    /\ views = [e \in Events |-> 0]
    /\ cache = [k \in Keys |-> NoPage]
    /\ clock = 0
    /\ read = [r \in Reads |-> NoRead]
    /\ was = [k \in Keys |-> [S \in SUBSET Events |-> Never]]
    /\ slow = 0

-----------------------------------------------------------------------------
(* The lists. *)

\* Mutant: whoever is logged in sees everything.
VisibleToUsers(row, by, v, archived) ==
    /\ ~row.is_deleted /\ row.is_archived = archived
    /\ row.status = "upcoming" \/ v # Guest

\* get_events: is_archived replaces the condition that an event is not.
Visible(row, by, v, archived) ==
    /\ ~row.is_deleted /\ row.is_archived = archived
    /\ \/ row.status = "upcoming"
       \/ v \in Admins \cup row.organizers \cup {by}

\* get_user_events asks neither for the status nor for is_deleted.
Mine(row, by, v, archived) ==
    row.is_archived = archived /\ v \in row.organizers \cup {by}

\* get_user_public_events: neither for is_archived nor for is_deleted.
Organized(row, u) == row.status \in {"upcoming", "completed"} /\ u \in row.organizers

Listed(rows, op, v, archived) ==
    {e \in Events :
       CASE op \in {"list", "category"} -> Visible(rows[e], Creator[e], v, archived)
         [] op = "mine" -> Mine(rows[e], Creator[e], v, archived)
         [] op = "organized" -> Organized(rows[e], v)}

\* OFFSET (page - 1) * size LIMIT size
PageOf(S, p) == {e \in S : Cardinality({x \in S : x > e}) \div PageSize = p - 1}

\* generate_cache_key: the page, the order, the filters and the user_context.
Key(r) == <<read[r].viewer, read[r].page, read[r].archived>>

\* The page of the list that is kept under a key.
PageAt(rows, k) == PageOf(Listed(rows, "list", k[1], k[3]), k[2])

\* What the query of a request finds.
Found(rows, q) == Listed(rows, q.op, q.viewer, q.archived)

\* Mutant: SET instead of SETEX.
FreshForever(k) == cache[k].expires # Never

Fresh(k) == clock < cache[k].expires

ReadGoto(r, pc) == read' = [read EXCEPT ![r] = [@ EXCEPT !.pc = pc]]

\* The answer is the page in q.
Answer(r, q) ==
    read' = [read EXCEPT ![r] = [@ EXCEPT !.pc = "answered", !.items = q.items,
                                          !.total = q.total, !.mixed = q.mixed,
                                          !.at = 0]]

-----------------------------------------------------------------------------
(* The requests that read. *)

AskList(r) ==
    /\ Work
    /\ read[r] = NoRead
    /\ \E v \in Viewers, p \in PageNumbers, archived \in BOOLEAN,
          op \in {"list", "category", "mine", "organized"} :
         /\ archived => op \in {"list", "mine"}
         /\ op \in {"mine", "organized"} => v # Guest
         /\ read' = [read EXCEPT ![r] = [NoRead EXCEPT
               !.op = op, !.viewer = v, !.page = p, !.archived = archived,
               !.pc = IF op = "list" THEN "lookup" ELSE "count"]]
    /\ UNCHANGED <<event, views, cache, clock, was, slow, members>>

CacheHit(r) ==
    /\ read[r].pc = "lookup"
    /\ Fresh(Key(r))
    /\ Answer(r, cache[Key(r)])
    /\ UNCHANGED <<event, views, cache, clock, was, slow, members, work>>

CacheMiss(r) ==
    /\ read[r].pc = "lookup"
    /\ ~Fresh(Key(r))
    /\ ReadGoto(r, "count")
    /\ UNCHANGED <<event, views, cache, clock, was, slow, members, work>>

CountRows(r) ==
    /\ read[r].pc = "count"
    /\ read' = [read EXCEPT ![r] =
                  [@ EXCEPT !.pc = "page",
                            !.total = Cardinality(Found(event, read[r]))]]
    /\ UNCHANGED <<event, views, cache, clock, was, slow, members, work>>

ReadPage(r) ==
    /\ read[r].pc = "page"
    /\ LET q == [read[r] EXCEPT !.items = PageOf(Found(event, read[r]),
                                                 read[r].page)] IN
       IF q.op = "list"
       THEN read' = [read EXCEPT ![r] = [q EXCEPT !.pc = "set", !.at = clock]]
       ELSE Answer(r, q)
    /\ UNCHANGED <<event, views, cache, clock, was, slow, members, work>>

\* SETEX, then the answer.
StorePage(r) ==
    LET q == read[r] IN
    /\ q.pc = "set"
    /\ cache' = [cache EXCEPT ![Key(r)] =
                   [items |-> q.items, total |-> q.total, mixed |-> q.mixed,
                    expires |-> clock + TTL]]
    /\ slow' = IF clock - q.at > slow THEN clock - q.at ELSE slow
    /\ Answer(r, q)
    /\ UNCHANGED <<event, views, clock, was, members, work>>

\* get_event_by_slug finds the event ...
OpenSlug(r) ==
    /\ Work
    /\ read[r] = NoRead
    /\ \E e \in Events :
         /\ ~event[e].is_deleted
         /\ read' = [read EXCEPT ![r] = [NoRead EXCEPT
                       !.op = "slug", !.pc = "view", !.event = e, !.total = views[e]]]
    /\ UNCHANGED <<event, views, cache, clock, was, slow, members>>

\* ... and the UPDATE increments the counter of the row.
CountView(r) ==
    LET e == read[r].event IN
    /\ read[r].pc = "view"
    /\ views' = [views EXCEPT ![e] = @ + 1]
    /\ ReadGoto(r, "answered")
    /\ UNCHANGED <<event, cache, clock, was, slow, members, work>>

\* Redis, PostgreSQL or the client is gone: 500, or nobody to answer.
ReadFails(r) ==
    /\ Work
    /\ read[r].pc \notin {"idle", "answered", "failed"}
    /\ read' = [read EXCEPT ![r] = [NoRead EXCEPT !.pc = "failed"]]
    /\ UNCHANGED <<event, views, cache, clock, was, slow, members>>

-----------------------------------------------------------------------------

\* What one request makes of the row e: a status, the archive, the bin, or the
\* team.
Edited(e) ==
    {[event[e] EXCEPT !.status = s] : s \in STATUS_TRANSITIONS[event[e].status]}
        \cup (IF event[e].status \in {"draft", "upcoming"}
              THEN {[event[e] EXCEPT !.is_archived = ~@]} ELSE {})
        \cup {[event[e] EXCEPT !.is_deleted = TRUE]}
        \cup {[event[e] EXCEPT !.organizers = O] : O \in
                {O \in SUBSET Users \ {{}} :
                   Cardinality((O \ event[e].organizers)
                                 \cup (event[e].organizers \ O)) = 1}}

EditEvent(e) ==
    /\ Work
    /\ \E new \in Edited(e) :
         /\ event' = [event EXCEPT ![e] = new]
         /\ members' = [members EXCEPT ![e] = @ \cup new.organizers]
    /\ was' = [k \in DOMAIN was |->
                 [was[k] EXCEPT ![PageAt(event, k)] = clock]]
    /\ read' = [r \in Reads |->
                  [read[r] EXCEPT !.mixed = @ \/
                     /\ read[r].pc = "page"
                     /\ Found(event, read[r]) # Found(event', read[r])]]
    /\ UNCHANGED <<views, cache, clock, slow>>

Tick ==
    /\ clock < MaxTime
    /\ clock' = clock + 1
    /\ UNCHANGED <<event, views, cache, read, was, slow, members, work>>

ReadStep(r) ==
    \/ AskList(r) \/ CacheHit(r) \/ CacheMiss(r) \/ CountRows(r) \/ ReadPage(r)
    \/ StorePage(r) \/ OpenSlug(r) \/ CountView(r) \/ ReadFails(r)

Next ==
    \/ (\E r \in Reads : ReadStep(r)) /\ UNCHANGED tagVars
    \/ (\E e \in Events : EditEvent(e)) /\ UNCHANGED tagVars
    \/ Tick /\ UNCHANGED tagVars
    \/ (\E r \in TagRequests : TagStep(r)) /\ UNCHANGED pageVars

Spec == Init /\ [][Next]_vars

-----------------------------------------------------------------------------

\* A list shows a viewer the page as it is, or as it was less than the TTL and
\* the time of the slowest reader ago: no write removes a copy, and a slow
\* reader stores what it has read before the write (events/routes/base.py:112).
AnswersRecent ==
    [][\A r \in Reads :
         read[r].pc # "answered" /\ read'[r].pc = "answered" /\ read[r].op = "list"
            => LET S == read'[r].items IN
               \/ S = PageAt(event, Key(r))
               \/ clock - was[Key(r)][S] < TTL + slow']_vars

\* No list shows an event that has always been a draft but to admins and to
\* those who have been on its team, copies of their lists included
\* (events/selectors.py:84). Look-ups by slug and by id are no lists: they ask
\* nobody who he is, and give a draft to anybody (events/selectors.py:22-49).
DraftsStayUnlisted ==
    \A r \in Reads, e \in Events :
        /\ read[r].pc = "answered" /\ read[r].op # "slug"
        /\ e \in read[r].items /\ event[e].status = "draft"
        => read[r].viewer \in Admins \cup members[e]

\* The total of an answer fits its page, unless the list has changed between
\* the two SELECTs of the request that read them (events/selectors.py:150).
PagesAddUp ==
    \A r \in Reads :
        read[r].pc = "answered" /\ read[r].op # "slug" /\ ~read[r].mixed
        => LET rest == read[r].total - (read[r].page - 1) * PageSize IN
           Cardinality(read[r].items) =
             IF rest <= 0 THEN 0 ELSE IF rest < PageSize THEN rest ELSE PageSize

\* The look-ups by the slug of e that have committed.
Opened(e) == {r \in Reads : /\ read[r].op = "slug" /\ read[r].event = e
                            /\ read[r].pc = "answered"}

\* The counter of an event is the number of the look-ups by its slug that have
\* committed: none is lost to another that has read the event at the same time
\* (events/selectors.py:45).
ViewsCounted == \A e \in Events : views[e] = Cardinality(Opened(e))

\* Lists show what their viewers may see and add up, and no look-up is lost.
AnswersSound == TypeOK /\ DraftsStayUnlisted /\ PagesAddUp /\ ViewsCounted

=============================================================================
