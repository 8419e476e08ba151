---------------------------- MODULE Registration ----------------------------
(***************************************************************************)
(* What the registration API of one event promises: every request is one   *)
(* atomic step.  RegistrationTx splits the same requests into the database *)
(* statements they are made of.                                            *)
(*                                                                         *)
(* The rows of two events share nothing, so one event is modelled.  A      *)
(* request that the code rejects changes no row and is a stuttering step.  *)
(* The notifications update_event and publish_event send after their       *)
(* commit touch none of these tables.                                      *)
(***************************************************************************)
EXTENDS Integers, FiniteSets

CONSTANTS
    Users,        \* the accounts that may register
    MaxCapacity   \* bound on the capacity an organizer asks for

ASSUME UsersAssumption == IsFiniteSet(Users)
ASSUME CapacityAssumption == MaxCapacity \in Nat \ {0}

VARIABLES
    status,             \* events.status
    capacity,           \* events.capacity
    current_attendees,  \* events.current_attendees
    is_deleted,         \* events.is_deleted
    attendee,           \* attendees.status of each user's row, "none": no row
    before              \* <<u, v>>: attendees.registered_at of u < that of v

vars == <<status, capacity, current_attendees, is_deleted, attendee, before>>

EventStatus == {"draft", "upcoming", "ongoing", "completed", "cancelled"}

\* "checked_in" is declared by the code and set by no path of it.
AttendeeStatus == {"registered", "waitlisted", "cancelled"}

STATUS_TRANSITIONS ==
    [draft     |-> {"upcoming", "cancelled"},
     upcoming  |-> {"ongoing", "cancelled"},
     ongoing   |-> {"completed", "cancelled"},
     completed |-> {},
     cancelled |-> {}]

Terminal == {"completed", "cancelled"}

InStatus(s) == {u \in Users : attendee[u] = s}

TypeOK ==
    /\ status \in EventStatus
    /\ capacity \in 1 .. MaxCapacity
    /\ current_attendees \in Nat
    /\ is_deleted \in BOOLEAN
    /\ attendee \in [Users -> AttendeeStatus \cup {"none"}]
    /\ before \in SUBSET (Users \X Users)

-----------------------------------------------------------------------------

\* create_event: the schema admits two initial statuses.
Init ==
    /\ status \in {"draft", "upcoming"}
    /\ capacity \in 1 .. MaxCapacity
    /\ current_attendees = 0
    /\ is_deleted = FALSE
    /\ attendee = [u \in Users |-> "none"]
    /\ before = {}

\* get_event_by_id finds the row and its status admits registrations.
Open == ~is_deleted /\ status = "upcoming"

\* Mutant: a re-registration keeps the old registered_at.
StampFirst(u) ==
    IF attendee[u] = "none"
    THEN before \cup {<<v, u>> : v \in {v \in Users \ {u} : attendee[v] # "none"}}
    ELSE before

\* registered_at := now, of the row of u.
StampLast(u) ==
    {p \in before : p[1] # u /\ p[2] # u}
        \cup {<<v, u>> : v \in {v \in Users \ {u} : attendee[v] # "none"}}

\* register_for_event: no active row; a seat if the counter says so, the
\* waitlist otherwise.
Register(u) ==
    /\ Open
    /\ attendee[u] \in {"none", "cancelled"}
    /\ \/ /\ current_attendees < capacity
          /\ attendee' = [attendee EXCEPT ![u] = "registered"]
          /\ current_attendees' = current_attendees + 1
       \/ /\ current_attendees >= capacity
          /\ attendee' = [attendee EXCEPT ![u] = "waitlisted"]
          /\ UNCHANGED current_attendees
    /\ before' = StampLast(u)
    /\ UNCHANGED <<status, capacity, is_deleted>>

\* Mutant: was_registered is not looked at.
LeaveWaitlistDecrements(u) ==
    /\ attendee[u] = "waitlisted"
    /\ attendee' = [attendee EXCEPT ![u] = "cancelled"]
    /\ current_attendees' = current_attendees - 1

LeaveWaitlist(u) ==
    /\ attendee[u] = "waitlisted"
    /\ attendee' = [attendee EXCEPT ![u] = "cancelled"]
    /\ UNCHANGED current_attendees

\* The earliest waitlisted row, ORDER BY registered_at LIMIT 1.
NextInLine(v) ==
    /\ attendee[v] = "waitlisted"
    /\ \A w \in InStatus("waitlisted") : <<w, v>> \notin before

\* Mutant: nobody is promoted.
LeaveSeatEmpty(u) ==
    /\ attendee[u] = "registered"
    /\ attendee' = [attendee EXCEPT ![u] = "cancelled"]
    /\ current_attendees' = current_attendees - 1

\* Mutant: the promotion forgets the counter.
LeaveSeatMiscounts(u) ==
    /\ attendee[u] = "registered"
    /\ current_attendees' = current_attendees - 1
    /\ \/ /\ InStatus("waitlisted") = {}
          /\ attendee' = [attendee EXCEPT ![u] = "cancelled"]
       \/ \E v \in Users :
            /\ NextInLine(v)
            /\ attendee' = [attendee EXCEPT ![u] = "cancelled",
                                            ![v] = "registered"]

LeaveSeat(u) ==
    /\ attendee[u] = "registered"
    /\ \/ /\ InStatus("waitlisted") = {}
          /\ attendee' = [attendee EXCEPT ![u] = "cancelled"]
          /\ current_attendees' = current_attendees - 1
       \/ \E v \in Users :
            /\ NextInLine(v)
            /\ attendee' = [attendee EXCEPT ![u] = "cancelled",
                                            ![v] = "registered"]
            /\ UNCHANGED current_attendees

\* unregister_from_event: cancelling a seat promotes the next in line.
Unregister(u) ==
    /\ Open
    /\ LeaveWaitlist(u) \/ LeaveSeat(u)
    /\ UNCHANGED <<status, capacity, is_deleted, before>>

\* Mutant: the capacity is not compared with the attendees.
UpdateEventUnchecked(s, c) ==
    /\ ~is_deleted
    /\ status \notin Terminal
    /\ s = status \/ s \in STATUS_TRANSITIONS[status]
    /\ status' = s
    /\ capacity' = c
    /\ UNCHANGED <<current_attendees, is_deleted, attendee, before>>

\* update_event with the status s and the capacity c; an unset field is the
\* current value, and a capacity that is set must cover the attendees.  A
\* terminal event admits changes of is_archived only.
UpdateEvent(s, c) ==
    /\ ~is_deleted
    /\ status \notin Terminal
    /\ s = status \/ s \in STATUS_TRANSITIONS[status]
    /\ c = capacity \/ c >= current_attendees
    /\ status' = s
    /\ capacity' = c
    /\ UNCHANGED <<current_attendees, is_deleted, attendee, before>>

PublishEvent ==
    /\ ~is_deleted
    /\ status = "draft"
    /\ status' = "upcoming"
    /\ UNCHANGED <<capacity, current_attendees, is_deleted, attendee, before>>

\* delete_event looks at no field: the dependency that loads the row finds
\* deleted events too.
DeleteEvent ==
    /\ is_deleted' = TRUE
    /\ UNCHANGED <<status, capacity, current_attendees, attendee, before>>

Next ==
    \/ \E u \in Users : Register(u) \/ Unregister(u)
    \/ \E s \in EventStatus, c \in 1 .. MaxCapacity : UpdateEvent(s, c)
    \/ PublishEvent
    \/ DeleteEvent

Spec == Init /\ [][Next]_vars

-----------------------------------------------------------------------------

\* The counter column, which register_for_event and unregister_from_event
\* adjust by hand, is the number of registered rows after any history of
\* registrations, cancellations, promotions and edits.
CountMatches == current_attendees = Cardinality(InStatus("registered"))

\* Organizers shrink the capacity and promotions refill seats, but the event
\* never has more registered rows than its capacity.
NotOverbooked == Cardinality(InStatus("registered")) <= capacity

\* An event that is not yet published has no attendee rows, and none can
\* appear before publish_event or update_event has opened it: no status change
\* leads back to draft.
DraftIsEmpty == status = "draft" => \A u \in Users : attendee[u] = "none"

\* registered_at orders all rows of the event, so the promotion query of
\* unregister_from_event has exactly one earliest waitlisted row to choose.
QueueIsTotal ==
    \A u, v \in Users :
        /\ <<u, v>> \in before => <<v, u>> \notin before
        /\ (u # v /\ attendee[u] # "none" /\ attendee[v] # "none")
               => <<u, v>> \in before \/ <<v, u>> \in before

\* The two halves of the inductive invariant that the counter needs.
SeatsInv == TypeOK /\ CountMatches /\ current_attendees <= capacity

\* While somebody waits the event is full: a cancelled seat goes to the
\* waitlist and a newcomer behind it (the promotion of unregister_from_event).
FullWhileWaiting ==
    InStatus("waitlisted") # {} => current_attendees = capacity

\* Nobody is registered ahead of a user who joined before them and still
\* waits: neither a promotion out of order nor a newcomer who finds a seat.
NoQueueJump ==
    \A u, v \in Users :
        attendee[u] = "waitlisted" /\ attendee[v] = "registered"
            => <<u, v>> \notin before

QueueFair == FullWhileWaiting /\ NoQueueJump

\* Of a fair queue, only an edit that raises the capacity can leave somebody
\* waiting next to a free seat: registrations and cancellations never do.
SeatsStayTaken ==
    [][QueueFair /\ capacity' <= capacity => FullWhileWaiting']_vars

\* Of a fair queue, only such an edit lets anybody overtake, now or later: a
\* promotion takes the earliest and a re-registration goes to the end.
NobodyOvertakes ==
    [][QueueFair /\ capacity' <= capacity => NoQueueJump']_vars

=============================================================================
