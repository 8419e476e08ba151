--------------------------- MODULE RegistrationTx ---------------------------
(***************************************************************************)
(* The requests of Registration as the code runs them: each request is one *)
(* database transaction (one AsyncSession per request) whose statements    *)
(* interleave with those of the others under READ COMMITTED.               *)
(*                                                                         *)
(*  - The event row is read once, at the start; the ORM keeps that copy    *)
(*    and every later decision of the request uses it.                     *)
(*  - An UPDATE takes the lock of its row until the transaction ends.  The *)
(*    ORM writes the columns it changed, with values computed from the     *)
(*    copy, whatever the row holds by then.                                *)
(*  - Two INSERTs of the same (event_id, user_id) exclude each other, and  *)
(*    the loser fails on uq_event_user.                                    *)
(*  - Nobody sees the writes of a transaction before its COMMIT, so they   *)
(*    are applied there.  A COMMIT that needs no further lock is one step  *)
(*    with the statement before it.                                        *)
(***************************************************************************)
EXTENDS Integers, FiniteSets

CONSTANTS
    Users,        \* the accounts that have or may get a row
    Clients,      \* those of them that send requests
    Workers,      \* the requests the server handles at the same time
    Kinds,        \* the kinds of requests that arrive
    MaxCapacity,  \* bound on the capacity an organizer asks for
    MaxRequests,  \* bound on the requests of a behaviour
    Nobody        \* no user, no worker

ASSUME UsersAssumption == IsFiniteSet(Users) /\ Clients \subseteq Users
ASSUME WorkersAssumption == IsFiniteSet(Workers) /\ Workers # {}
ASSUME NobodyAssumption == Nobody \notin Users \cup Workers \cup {"event"}
ASSUME RowsAssumption == "event" \notin Users
ASSUME KindsAssumption ==
    Kinds \subseteq {"register", "unregister", "update", "publish", "delete"}
ASSUME BoundsAssumption == MaxCapacity \in Nat \ {0} /\ MaxRequests \in Nat

VARIABLES
    event,          \* the committed row of events
    row,            \* attendees.status of each user's committed row
    registered_at,  \* attendees.registered_at, 0: no row
    clock,          \* the last timestamp handed out
    lock,           \* the transaction that holds each row's lock
    tx,             \* what each worker is doing
    submitted,      \* requests so far
    raced           \* history: what overlaps of requests may have broken

vars == <<event, row, registered_at, clock, lock, tx, submitted, raced>>

EventStatus == {"draft", "upcoming", "ongoing", "completed", "cancelled"}
RowStatus == {"none", "registered", "waitlisted", "cancelled"}
Active == {"registered", "waitlisted"}
Terminal == {"completed", "cancelled"}

STATUS_TRANSITIONS ==
    [draft     |-> {"upcoming", "cancelled"},
     upcoming  |-> {"ongoing", "cancelled"},
     ongoing   |-> {"completed", "cancelled"},
     completed |-> {},
     cancelled |-> {}]

Event == [status : EventStatus, capacity : 1 .. MaxCapacity,
          current_attendees : Int, is_deleted : BOOLEAN]

InStatus(s) == {u \in Users : row[u] = s}
Open(e) == ~e.is_deleted /\ e.status = "upcoming"

\* The statement each worker issues next:
\*   "select"   the attendee row                  (register, unregister)
\*   "seat"     UPDATE events, then "write"       (register)
\*   "write"    INSERT or UPDATE attendees, COMMIT (register)
\*   "cancel"   UPDATE attendees                  (unregister)
\*   "release"  UPDATE events, SELECT the waitlist (unregister)
\*   "promote"  UPDATE events, UPDATE attendees, COMMIT (unregister)
\*   "apply"    UPDATE events, COMMIT             (update, publish, delete)
Steps == {"idle", "select", "seat", "write", "cancel", "release",
          "promote", "apply"}

\* seen: the copy of the event row; edit: that copy as the request changed it;
\* had: the attendee status read; stamp: registered_at of a reused row.
Idle(e) ==
    [pc |-> "idle", kind |-> "none", user |-> Nobody, seen |-> e, edit |-> e,
     had |-> "none", stamp |-> 0, next |-> Nobody]

NoEvent == [status |-> "draft", capacity |-> 1, current_attendees |-> 0,
            is_deleted |-> FALSE]

\* The copy of the event row shows a free seat.
Seated(t) == t.seen.current_attendees < t.seen.capacity

Races == {"seats", "capacity", "closing", "status", "leaving"}

Attends(t) == t.kind \in {"register", "unregister"}
Edits(t) == t.kind \in {"update", "publish", "delete"}

\* What the overlap of the requests t and o may break.  Copies of one
\* registration that have read the same event are harmless to each other; if
\* the capacity was raised in between, the one that waitlists may come last.
Harms(t, o) ==
    {h \in Races :
        CASE h = "seats" ->
               /\ Attends(t) /\ Attends(o)
               /\ ~(/\ t.kind = "register" /\ o.kind = "register"
                    /\ t.user = o.user /\ t.seen = o.seen)
          [] h = "capacity" ->
               \/ t.kind = "register" /\ o.edit.capacity < o.seen.capacity
               \/ /\ t.edit.capacity # t.seen.capacity
                  /\ o.edit.capacity # o.seen.capacity
          [] h = "closing" -> Attends(t) /\ Edits(o) /\ ~Open(o.edit)
          [] h = "status" ->
               /\ t.edit.status # t.seen.status
               /\ o.edit.status # o.seen.status
          [] h = "leaving" ->
               t.kind = "unregister" /\ o.kind = "unregister" /\ t.user # o.user}

TransactionRecord ==
    [pc : Steps, kind : Kinds \cup {"none"}, user : Users \cup {Nobody},
     seen : Event, edit : Event, had : RowStatus, stamp : Nat,
     next : Users \cup {Nobody}]

Transaction ==
    {t \in TransactionRecord :
        /\ t.pc \notin {"idle", "apply"} => t.user \in Users
        /\ t.pc = "promote" => t.next \in Users
        /\ t.pc = "seat" => Seated(t)}

TypeOK ==
    /\ event \in Event
    /\ row \in [Users -> RowStatus]
    /\ registered_at \in [Users -> Nat]
    /\ clock \in Nat
    /\ lock \in [Users \cup {"event"} -> Workers \cup {Nobody}]
    /\ tx \in [Workers -> Transaction]
    /\ submitted \in 0 .. MaxRequests
    /\ raced \subseteq Races

-----------------------------------------------------------------------------

NothingRuns ==
    /\ lock = [r \in Users \cup {"event"} |-> Nobody]
    /\ tx = [w \in Workers |-> Idle(NoEvent)]
    /\ submitted = 0
    /\ raced = {}

\* A new event, as create_event leaves it.
FreshInit ==
    /\ event \in [status : {"draft", "upcoming"}, capacity : 1 .. MaxCapacity,
                  current_attendees : {0}, is_deleted : {FALSE}]
    /\ row = [u \in Users |-> "none"]
    /\ registered_at = [u \in Users |-> 0]
    /\ clock = 0
    /\ NothingRuns

\* An event with a history: any state before its end that requests served one
\* at a time lead to (CountMatches, NotOverbooked, DraftIsEmpty of Registration).
Init ==
    /\ row \in [Users -> RowStatus]
    /\ event \in [status : EventStatus \ Terminal, capacity : 1 .. MaxCapacity,
                  current_attendees : {Cardinality(InStatus("registered"))},
                  is_deleted : {FALSE}]
    /\ event.current_attendees <= event.capacity
    /\ event.status = "draft" => \A u \in Users : row[u] = "none"
    /\ clock = Cardinality({u \in Users : row[u] # "none"})
    /\ registered_at \in [Users -> 0 .. clock]
    /\ \A u \in Users : row[u] = "none" <=> registered_at[u] = 0
    /\ \A u, v \in Users :
         u # v /\ registered_at[u] # 0 => registered_at[u] # registered_at[v]
    /\ NothingRuns

-----------------------------------------------------------------------------

Free(r, w) == lock[r] \in {Nobody, w}

\* Mutant: the session of a request that ends is not closed.
FinishHoldsLocks(w) ==
    /\ UNCHANGED lock
    /\ tx' = [tx EXCEPT ![w] = Idle(NoEvent)]

\* COMMIT or ROLLBACK: the locks of w go, the worker takes the next request.
Finish(w) ==
    /\ lock' = [r \in DOMAIN lock |-> IF lock[r] = w THEN Nobody ELSE lock[r]]
    /\ tx' = [tx EXCEPT ![w] = Idle(NoEvent)]

Rollback(w) ==
    Finish(w) /\ UNCHANGED <<event, row, registered_at, clock, submitted, raced>>

\* Worker w begins the request t; it overlaps all that are running.
Submit(w, t) ==
    /\ tx[w].pc = "idle"
    /\ t.kind \in Kinds
    /\ submitted < MaxRequests
    /\ submitted' = submitted + 1
    /\ tx' = [tx EXCEPT ![w] = t]
    /\ raced' = raced \cup UNION
         {Harms(t, tx[x]) \cup Harms(tx[x], t) :
            x \in {x \in Workers : tx[x].pc # "idle"}}
    /\ UNCHANGED <<event, row, registered_at, clock, lock>>

\* register_for_event and unregister_from_event: the endpoint's SELECT of the
\* event and the checks made of that copy.
BeginAttendance(w, kind, u) ==
    /\ kind \in {"register", "unregister"}
    /\ Open(event)
    /\ Submit(w, [Idle(event) EXCEPT !.pc = "select", !.kind = kind, !.user = u])

\* register_for_event: the SELECT of the user's row, which must not be active,
\* and the choice between a seat and the waitlist.  The timestamp of a reused
\* row is taken here, that of a new row when it is inserted.
SelectForRegister(w) ==
    LET t == tx[w]  u == t.user IN
    /\ t.pc = "select" /\ t.kind = "register"
    /\ row[u] \notin Active
    /\ clock' = IF row[u] = "none" THEN clock ELSE clock + 1
    /\ tx' = [tx EXCEPT ![w] =
                [@ EXCEPT !.had = row[u], !.stamp = clock',
                          !.pc = IF Seated(t) THEN "seat" ELSE "write"]]
    /\ UNCHANGED <<event, row, registered_at, lock, submitted, raced>>

\* unregister_from_event: the SELECT of the user's active row.
SelectForUnregister(w) ==
    LET t == tx[w]  u == t.user IN
    /\ t.pc = "select" /\ t.kind = "unregister"
    /\ row[u] \in Active
    /\ tx' = [tx EXCEPT ![w] = [@ EXCEPT !.had = row[u], !.pc = "cancel"]]
    /\ UNCHANGED <<event, row, registered_at, clock, lock, submitted, raced>>

\* Mutant: a rejected request reads the row again instead of answering.
SelectRejectsRetries(w) ==
    LET t == tx[w] IN
    /\ t.pc = "select"
    /\ t.kind = "register" <=> row[t.user] \in Active
    /\ UNCHANGED vars

\* "Already registered for this event", "Not registered for this event".
SelectRejects(w) ==
    LET t == tx[w] IN
    /\ t.pc = "select"
    /\ t.kind = "register" <=> row[t.user] \in Active
    /\ Rollback(w)

TakeSeat(w) ==
    /\ tx[w].pc = "seat"
    /\ Free("event", w)
    /\ lock' = [lock EXCEPT !["event"] = w]
    /\ tx' = [tx EXCEPT ![w] = [@ EXCEPT !.pc = "write"]]
    /\ UNCHANGED <<event, row, registered_at, clock, submitted, raced>>

\* What the COMMIT of w's registration leaves, ts being its timestamp.  The
\* counter is the copy's plus one; an event row the request did not change
\* is not written.
CommitRegistration(w, ts) ==
    LET t == tx[w] IN
    /\ row' = [row EXCEPT ![t.user] =
                 IF Seated(t) THEN "registered" ELSE "waitlisted"]
    /\ registered_at' = [registered_at EXCEPT ![t.user] = ts]
    /\ event' = IF Seated(t)
                THEN [event EXCEPT !.current_attendees =
                        t.seen.current_attendees + 1]
                ELSE event
    /\ Finish(w)
    /\ UNCHANGED <<submitted, raced>>

ReuseRow(w) ==
    LET t == tx[w] IN
    /\ t.pc = "write" /\ t.had = "cancelled"
    /\ Free(t.user, w)
    /\ CommitRegistration(w, t.stamp)
    /\ UNCHANGED clock

InsertRow(w) ==
    LET t == tx[w] IN
    /\ t.pc = "write" /\ t.had = "none"
    /\ Free(t.user, w)
    /\ row[t.user] = "none"
    /\ clock' = clock + 1
    /\ CommitRegistration(w, clock')

\* Mutant: the counter was committed on its own before the INSERT.
InsertConflictsAfterCount(w) ==
    LET t == tx[w] IN
    /\ t.pc = "write" /\ t.had = "none"
    /\ Free(t.user, w)
    /\ row[t.user] # "none"
    /\ event' = [event EXCEPT !.current_attendees =
                   t.seen.current_attendees + 1]
    /\ Finish(w)
    /\ UNCHANGED <<row, registered_at, clock, submitted, raced>>

\* uq_event_user: the handler of IntegrityError answers 409, the session
\* closes and the counter's UPDATE is rolled back with it.
InsertConflicts(w) ==
    LET t == tx[w] IN
    /\ t.pc = "write" /\ t.had = "none"
    /\ Free(t.user, w)
    /\ row[t.user] # "none"
    /\ Rollback(w)

\* unregister_from_event of a waitlisted row: one UPDATE and the COMMIT.
CancelWaitlisted(w) ==
    LET t == tx[w] IN
    /\ t.pc = "cancel" /\ t.had = "waitlisted"
    /\ Free(t.user, w)
    /\ row' = [row EXCEPT ![t.user] = "cancelled"]
    /\ Finish(w)
    /\ UNCHANGED <<event, registered_at, clock, submitted, raced>>

\* ... of a registered row: the flush keeps the row locked.
CancelRegistered(w) ==
    LET t == tx[w] IN
    /\ t.pc = "cancel" /\ t.had = "registered"
    /\ Free(t.user, w)
    /\ lock' = [lock EXCEPT ![t.user] = w]
    /\ tx' = [tx EXCEPT ![w] = [@ EXCEPT !.pc = "release"]]
    /\ UNCHANGED <<event, row, registered_at, clock, submitted, raced>>

\* Mutant: the query for the next in line does not ask for WAITLISTED.
WaitingOrSeated(w) ==
    (InStatus("waitlisted") \cup InStatus("registered")) \ {tx[w].user}

\* Mutant: it asks for rows that are not REGISTERED.
WaitingOrLeft(w) ==
    (InStatus("waitlisted") \cup InStatus("cancelled")) \ {tx[w].user}

Waiting(w) == InStatus("waitlisted") \ {tx[w].user}

Earliest(S) ==
    {v \in S : \A x \in S : registered_at[v] <= registered_at[x]}

\* The autoflush before the SELECT of the next in line writes the decremented
\* counter, so it waits for the lock of the event row.
ReleaseSeat(w) ==
    LET t == tx[w] IN
    /\ t.pc = "release"
    /\ Free("event", w)
    /\ Waiting(w) = {}
    /\ row' = [row EXCEPT ![t.user] = "cancelled"]
    /\ event' = [event EXCEPT !.current_attendees =
                   t.seen.current_attendees - 1]
    /\ Finish(w)
    /\ UNCHANGED <<registered_at, clock, submitted, raced>>

\* Mutant: autoflush is off, the counter is written at the COMMIT.
ChooseNextUnlocked(w) ==
    /\ tx[w].pc = "release"
    /\ \E v \in Earliest(Waiting(w)) :
         tx' = [tx EXCEPT ![w] = [@ EXCEPT !.next = v, !.pc = "promote"]]
    /\ UNCHANGED <<event, row, registered_at, clock, lock, submitted, raced>>

ChooseNext(w) ==
    /\ tx[w].pc = "release"
    /\ Free("event", w)
    /\ \E v \in Earliest(Waiting(w)) :
         tx' = [tx EXCEPT ![w] = [@ EXCEPT !.next = v, !.pc = "promote"]]
    /\ lock' = [lock EXCEPT !["event"] = w]
    /\ UNCHANGED <<event, row, registered_at, clock, submitted, raced>>

\* The promoted row is updated by its primary key, whatever its status is now.
Promote(w) ==
    LET t == tx[w] IN
    /\ t.pc = "promote"
    /\ Free(t.next, w)
    /\ row' = [row EXCEPT ![t.user] = "cancelled", ![t.next] = "registered"]
    /\ event' = [event EXCEPT !.current_attendees = t.seen.current_attendees]
    /\ Finish(w)
    /\ UNCHANGED <<registered_at, clock, submitted, raced>>

-----------------------------------------------------------------------------

\* An organizer's request: e is the copy of the event row as it changed it.
BeginEdit(w, kind, e) ==
    Submit(w, [Idle(event) EXCEPT !.pc = "apply", !.kind = kind, !.edit = e])

\* Mutant: any status may follow any other.
BeginUpdateAnyStatus(w, s, c) ==
    /\ ~event.is_deleted
    /\ c = event.capacity \/ c >= event.current_attendees
    /\ BeginEdit(w, "update", [event EXCEPT !.status = s, !.capacity = c])

\* update_event: the checks are made of the copy, and so is the test whether
\* the capacity still covers the attendees.
BeginUpdate(w, s, c) ==
    /\ ~event.is_deleted
    /\ event.status \notin Terminal
    /\ s = event.status \/ s \in STATUS_TRANSITIONS[event.status]
    /\ c = event.capacity \/ c >= event.current_attendees
    /\ BeginEdit(w, "update", [event EXCEPT !.status = s, !.capacity = c])

BeginPublish(w) ==
    /\ ~event.is_deleted
    /\ event.status = "draft"
    /\ BeginEdit(w, "publish", [event EXCEPT !.status = "upcoming"])

BeginDelete(w) == BeginEdit(w, "delete", [event EXCEPT !.is_deleted = TRUE])

\* Mutant: the counter is written with every edit.
ColumnOrCounter(t, f) ==
    IF t.edit[f] # t.seen[f] \/ f = "current_attendees" THEN t.edit[f] ELSE event[f]

\* The UPDATE sets the columns whose value differs from the copy, no others.
Column(t, f) == IF t.edit[f] # t.seen[f] THEN t.edit[f] ELSE event[f]

ApplyEdit(w) ==
    LET t == tx[w] IN
    /\ t.pc = "apply"
    /\ Free("event", w)
    /\ event' = [status |-> Column(t, "status"),
                 capacity |-> Column(t, "capacity"),
                 current_attendees |-> Column(t, "current_attendees"),
                 is_deleted |-> Column(t, "is_deleted")]
    /\ Finish(w)
    /\ UNCHANGED <<row, registered_at, clock, submitted, raced>>

-----------------------------------------------------------------------------

\* The row whose lock w's next statement needs, Nobody if it needs none.
Needs(w) ==
    LET t == tx[w] IN
    CASE t.pc \in {"seat", "release", "apply"} -> "event"
      [] t.pc \in {"write", "cancel"} -> t.user
      [] t.pc = "promote" -> t.next
      [] OTHER -> Nobody

Blocked(w) == Needs(w) # Nobody /\ ~Free(Needs(w), w)
Blocker(w) == lock[Needs(w)]

\* w is on a cycle of transactions that wait for each other.
InCycle(w) ==
    \E S \in SUBSET {x \in Workers : Blocked(x)} :
        w \in S /\ {Blocker(x) : x \in S} = S

\* Postgres aborts one transaction of the cycle; the request answers 500.
DeadlockAbort(w) == InCycle(w) /\ Rollback(w)

\* The process or its connection dies; the server rolls the transaction back.
Crash(w) == tx[w].pc # "idle" /\ Rollback(w)

Advance(w) ==
    \/ SelectForRegister(w) \/ SelectForUnregister(w) \/ SelectRejects(w)
    \/ TakeSeat(w) \/ ReuseRow(w) \/ InsertRow(w) \/ InsertConflicts(w)
    \/ CancelWaitlisted(w) \/ CancelRegistered(w)
    \/ ReleaseSeat(w) \/ ChooseNext(w) \/ Promote(w)
    \/ ApplyEdit(w)
    \/ DeadlockAbort(w)

Arrive(w) ==
    \/ \E kind \in Kinds, u \in Clients : BeginAttendance(w, kind, u)
    \/ \E s \in EventStatus, c \in 1 .. MaxCapacity : BeginUpdate(w, s, c)
    \/ BeginPublish(w)
    \/ BeginDelete(w)

Next == \E w \in Workers : Arrive(w) \/ Advance(w) \/ Crash(w)

\* A request that has started runs on: the event loop schedules it, the
\* database grants a free lock and breaks a deadlock.
Fairness == \A w \in Workers : WF_vars(Advance(w))

Spec == Init /\ [][Next]_vars
FairSpec == Spec /\ Fairness

-----------------------------------------------------------------------------

\* No more registered rows than the capacity (README.md:17, README.md:31).
NotOverbooked == Cardinality(InStatus("registered")) <= event.capacity

\* While somebody waits no seat is free: two users who cancel at the same time
\* never hand their two seats to one and the same waitlisted user.
SeatsStayFilled ==
    InStatus("waitlisted") # {} =>
        Cardinality(InStatus("registered")) >= event.capacity

\* The lock of the event row, which the autoflush of unregister_from_event
\* takes before it selects the next in line, makes concurrent promotions
\* choose one after the other.
OnePromotionAtATime ==
    \A w1, w2 \in Workers :
        tx[w1].pc = "promote" /\ tx[w2].pc = "promote" => w1 = w2

\* Who holds which lock: the event row from the counter's UPDATE and the
\* user's row from the cancelling UPDATE until the transaction ends, nothing
\* else, and nothing once the request is answered.
LocksMatchSteps ==
    \A w \in Workers :
        LET t == tx[w] IN
        /\ lock["event"] = w <=>
             \/ t.pc = "promote"
             \/ t.pc = "write" /\ Seated(t)
        /\ \A u \in Users :
             lock[u] = w <=> t.user = u /\ t.pc \in {"release", "promote"}

\* No transaction waits on itself through others: cancellations, promotions
\* and edits lock the rows in compatible orders.
NeverDeadlocked == \A w \in Workers : ~InCycle(w)

\* Every request that has started is answered, whatever the others lock.
RequestsFinish ==
    \A w \in Workers : tx[w].pc # "idle" ~> tx[w].pc = "idle"

\* The counter is the number of seats taken unless two requests for seats
\* overlap; edits of the event never write over it (attendees/services.py:52).
SeatsCounted ==
    "seats" \notin raced =>
        event.current_attendees = Cardinality(InStatus("registered"))

\* Nor is the event overbooked, unless a cut of the capacity overlaps a
\* registration or another change of the capacity (events/services.py:155).
SeatsFit == raced \cap {"seats", "capacity"} = {} => NotOverbooked

\* The seats are right whatever overlaps but the named requests.
SeatsRight == SeatsCounted /\ SeatsFit

\* An event that has ended stays as it ended, unless two changes of its status
\* were both validated against the same old one (events/services.py:134).
\* Nobody gets onto the list or up from the waitlist of an event that is not
\* open, unless it was closed meanwhile (attendees/services.py:116).
StatusRespected ==
    [][/\ event.status \in Terminal /\ "status" \notin raced
            => event'.status = event.status
       /\ \A u \in Users :
            row'[u] \in Active /\ row'[u] # row[u] /\ "closing" \notin raced
               => Open(event)]_vars

\* A user who has left is registered again only by an own request, unless the
\* user left while someone else gave up a seat (attendees/services.py:142).
LeftStaysOut ==
    [][\A u \in Users :
         row[u] = "cancelled" /\ row'[u] \in Active /\ "leaving" \notin raced
            => \E w \in Workers : tx[w].kind = "register" /\ tx[w].user = u
                                    /\ tx'[w].pc = "idle"]_vars

-----------------------------------------------------------------------------

\* Users that all hold a seat, in an event that is full if anybody waits.
SeatedInit ==
    Init /\ SeatsStayFilled /\ Clients \subseteq InStatus("registered")
SeatedSpec == SeatedInit /\ [][Next]_vars

\* The abstract requests: the rows and the order of their timestamps.
R == INSTANCE Registration WITH
        status <- event.status,
        capacity <- event.capacity,
        current_attendees <- event.current_attendees,
        is_deleted <- event.is_deleted,
        attendee <- row,
        before <- {p \in Users \X Users :
                     /\ registered_at[p[1]] # 0 /\ registered_at[p[2]] # 0
                     /\ registered_at[p[1]] < registered_at[p[2]]}

\* Requests that come one after the other, except that a registration may be
\* submitted several times at once.
ArriveApart(w) ==
    /\ Arrive(w)
    /\ \A x \in Workers \ {w} :
         \/ tx[x].pc = "idle"
         \/ /\ tx[x].kind = "register" /\ tx'[w].kind = "register"
            /\ tx[x].user = tx'[w].user

ApartSpec ==
    FreshInit /\ [][\E w \in Workers : ArriveApart(w) \/ Advance(w) \/ Crash(w)]_vars

\* Such requests implement the abstract ones, also when they crash: the unique
\* constraint and the row locks make the copies of a registration count once.
ImplementsRegistration == R!Spec

=============================================================================
