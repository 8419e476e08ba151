------------------------- MODULE RegistrationProofs -------------------------
(***************************************************************************)
(* What Registration guarantees for every set of users and every bound on  *)
(* the capacity.  Seats counts the registered rows of a table of rows, so  *)
(* that one step can be compared with the next.                            *)
(***************************************************************************)
EXTENDS Registration, FiniteSetTheorems, TLAPS

Row == AttendeeStatus \cup {"none"}

Registered(f) == {u \in Users : f[u] = "registered"}
Seats(f) == Cardinality(Registered(f))

\* The number of seats taken is a natural number: Users is finite.
LEMMA SeatsType ==
    ASSUME NEW f \in [Users -> Row]
    PROVE  IsFiniteSet(Registered(f)) /\ Seats(f) \in Nat
<1>1. Registered(f) \in SUBSET Users
  BY DEF Registered
<1>2. IsFiniteSet(Registered(f))
  BY <1>1, UsersAssumption, FS_Subset
<1>3. QED
  BY <1>2, FS_CardinalityType DEF Seats

\* Seating a user who has no seat takes one seat.
LEMMA SeatTaken ==
    ASSUME NEW f \in [Users -> Row], NEW u \in Users, f[u] # "registered"
    PROVE  Seats([f EXCEPT ![u] = "registered"]) = Seats(f) + 1
<1>1. Registered([f EXCEPT ![u] = "registered"]) = Registered(f) \cup {u}
  BY DEF Registered
<1>2. u \notin Registered(f)
  BY DEF Registered
<1>3. QED
  BY <1>1, <1>2, SeatsType, FS_AddElement DEF Seats

\* A seated user who gets another status frees one seat.
LEMMA SeatFreed ==
    ASSUME NEW f \in [Users -> Row], NEW u \in Users, f[u] = "registered",
           NEW s \in Row, s # "registered"
    PROVE  /\ Seats([f EXCEPT ![u] = s]) = Seats(f) - 1
           /\ Seats(f) > 0
<1> DEFINE g == [f EXCEPT ![u] = s]
<1>1. Registered(g) = Registered(f) \ {u}
  BY DEF Registered
<1>2. u \in Registered(f)
  BY DEF Registered
<1>3. Seats(g) = Seats(f) - 1
  BY <1>1, <1>2, SeatsType, FS_RemoveElement DEF Seats
<1>4. g \in [Users -> Row]
  OBVIOUS
<1>5. Seats(g) \in Nat /\ Seats(f) \in Nat
  BY <1>4, SeatsType
<1>6. QED
  BY <1>3, <1>5

\* A user without a seat who gets another status without one changes nothing.
LEMMA SeatsKept ==
    ASSUME NEW f \in [Users -> Row], NEW u \in Users, f[u] # "registered",
           NEW s \in Row, s # "registered"
    PROVE  Seats([f EXCEPT ![u] = s]) = Seats(f)
<1>1. Registered([f EXCEPT ![u] = s]) = Registered(f)
  BY DEF Registered
<1>2. QED
  BY <1>1 DEF Seats

\* The counter is compared with Seats of the current rows.
LEMMA CountIsSeats == CountMatches <=> current_attendees = Seats(attendee)
  BY DEF CountMatches, Seats, Registered, InStatus

LEMMA InitSeats == Init => SeatsInv
<1> SUFFICES ASSUME Init PROVE SeatsInv
  OBVIOUS
<1>1. TypeOK
  BY DEF Init, TypeOK, EventStatus, AttendeeStatus
<1>2. Registered(attendee) = {}
  BY DEF Init, Registered
<1>3. current_attendees = Seats(attendee)
  BY <1>2, FS_EmptySet DEF Init, Seats
<1>4. current_attendees <= capacity
  BY CapacityAssumption DEF Init
<1>5. QED
  BY <1>1, <1>3, <1>4, CountIsSeats DEF SeatsInv

LEMMA StampType ==
    ASSUME TypeOK, NEW u \in Users
    PROVE  StampLast(u) \in SUBSET (Users \X Users)
  BY DEF TypeOK, StampLast

-----------------------------------------------------------------------------

\* SeatsInv in the next state, in terms of Seats.
LEMMA SeatsInvNext ==
    ASSUME TypeOK', current_attendees' = Seats(attendee'),
           current_attendees' <= capacity'
    PROVE  SeatsInv'
  BY DEF SeatsInv, CountMatches, Seats, Registered, InStatus

LEMMA RegisterSeats ==
    ASSUME SeatsInv, NEW u \in Users, Register(u)
    PROVE  SeatsInv'
<1>1. /\ attendee \in [Users -> Row]
      /\ attendee[u] # "registered"
      /\ current_attendees = Seats(attendee)
      /\ current_attendees \in Nat
      /\ current_attendees <= capacity
      /\ capacity \in Nat
  BY CountIsSeats, CapacityAssumption DEF SeatsInv, TypeOK, Row, Register
<1>2. before' \in SUBSET (Users \X Users)
  BY StampType DEF SeatsInv, Register
<1>3. CASE /\ current_attendees < capacity
           /\ attendee' = [attendee EXCEPT ![u] = "registered"]
           /\ current_attendees' = current_attendees + 1
  <2>1. current_attendees' = Seats(attendee')
    BY <1>1, <1>3, SeatTaken
  <2>2. TypeOK'
    BY <1>1, <1>2, <1>3 DEF SeatsInv, TypeOK, Register, AttendeeStatus
  <2>3. current_attendees' <= capacity'
    BY <1>1, <1>3 DEF Register
  <2>4. QED
    BY <2>1, <2>2, <2>3, SeatsInvNext
<1>4. CASE /\ current_attendees >= capacity
           /\ attendee' = [attendee EXCEPT ![u] = "waitlisted"]
           /\ UNCHANGED current_attendees
  <2>1. Seats(attendee') = Seats(attendee)
    BY <1>1, <1>4, SeatsKept DEF Row, AttendeeStatus
  <2>2. TypeOK'
    BY <1>1, <1>2, <1>4 DEF SeatsInv, TypeOK, Register, AttendeeStatus
  <2>3. current_attendees' <= capacity'
    BY <1>1, <1>4 DEF Register
  <2>4. QED
    BY <1>1, <1>4, <2>1, <2>2, <2>3, SeatsInvNext
<1>5. QED
  BY <1>3, <1>4 DEF Register

LEMMA UnregisterSeats ==
    ASSUME SeatsInv, NEW u \in Users, Unregister(u)
    PROVE  SeatsInv'
<1>1. /\ attendee \in [Users -> Row]
      /\ current_attendees = Seats(attendee)
      /\ current_attendees \in Nat
      /\ current_attendees <= capacity
      /\ capacity \in Nat
  BY CountIsSeats, CapacityAssumption DEF SeatsInv, TypeOK, Row
<1>2. UNCHANGED <<status, capacity, is_deleted, before>>
  BY DEF Unregister
<1>3. "cancelled" \in Row /\ "registered" \in Row
  BY DEF Row, AttendeeStatus
<1>4. CASE LeaveWaitlist(u)
  <2>1. Seats(attendee') = Seats(attendee)
    BY <1>1, <1>3, <1>4, SeatsKept DEF LeaveWaitlist
  <2>2. TypeOK'
    BY <1>1, <1>2, <1>4 DEF SeatsInv, TypeOK, LeaveWaitlist, AttendeeStatus
  <2>3. QED
    BY <1>1, <1>2, <1>4, <2>1, <2>2, SeatsInvNext DEF LeaveWaitlist
<1>5. CASE /\ attendee[u] = "registered"
           /\ attendee' = [attendee EXCEPT ![u] = "cancelled"]
           /\ current_attendees' = current_attendees - 1
  <2>1. Seats(attendee') = Seats(attendee) - 1 /\ Seats(attendee) > 0
    BY <1>1, <1>3, <1>5, SeatFreed
  <2>2. TypeOK'
    BY <1>1, <1>2, <1>5, <2>1 DEF SeatsInv, TypeOK, AttendeeStatus
  <2>3. QED
    BY <1>1, <1>2, <1>5, <2>1, <2>2, SeatsInvNext
<1>6. ASSUME NEW v \in Users, NextInLine(v), attendee[u] = "registered",
             attendee' = [attendee EXCEPT ![u] = "cancelled",
                                          ![v] = "registered"],
             UNCHANGED current_attendees
      PROVE  SeatsInv'
  <2> DEFINE f == [attendee EXCEPT ![u] = "cancelled"]
  <2>1. f \in [Users -> Row] /\ f[v] # "registered"
    BY <1>1, <1>3, <1>6 DEF NextInLine
  <2>2. Seats(f) = Seats(attendee) - 1
    BY <1>1, <1>3, <1>6, SeatFreed
  <2>3. attendee' = [f EXCEPT ![v] = "registered"]
    BY <1>6
  <2>4. Seats(attendee') = Seats(f) + 1
    BY <2>1, <2>3, SeatTaken
  <2>5. Seats(attendee') = current_attendees'
    BY <1>1, <1>6, <2>2, <2>4
  <2>6. TypeOK'
    BY <1>1, <1>2, <1>6 DEF SeatsInv, TypeOK, AttendeeStatus
  <2>7. QED
    BY <1>1, <1>2, <1>6, <2>5, <2>6, SeatsInvNext
<1>7. QED
  BY <1>4, <1>5, <1>6 DEF Unregister, LeaveSeat

LEMMA EditSeats ==
    ASSUME SeatsInv,
           \/ \E s \in EventStatus, c \in 1 .. MaxCapacity : UpdateEvent(s, c)
           \/ PublishEvent
           \/ DeleteEvent
    PROVE  SeatsInv'
<1>1. UNCHANGED <<current_attendees, attendee, before>>
  BY DEF UpdateEvent, PublishEvent, DeleteEvent
<1>2. TypeOK'
  BY <1>1 DEF SeatsInv, TypeOK, UpdateEvent, PublishEvent, DeleteEvent,
              EventStatus
<1>3. current_attendees' <= capacity'
  BY CapacityAssumption
     DEF SeatsInv, TypeOK, UpdateEvent, PublishEvent, DeleteEvent
<1>4. current_attendees = Seats(attendee)
  BY CountIsSeats DEF SeatsInv
<1>5. QED
  BY <1>1, <1>2, <1>3, <1>4, SeatsInvNext

LEMMA NextSeats == SeatsInv /\ [Next]_vars => SeatsInv'
<1> SUFFICES ASSUME SeatsInv, [Next]_vars PROVE SeatsInv'
  OBVIOUS
<1>1. CASE UNCHANGED vars
  BY <1>1 DEF vars, SeatsInv, TypeOK, CountMatches, InStatus
<1>2. CASE \E u \in Users : Register(u) \/ Unregister(u)
  BY <1>2, RegisterSeats, UnregisterSeats
<1>3. CASE \/ \E s \in EventStatus, c \in 1 .. MaxCapacity : UpdateEvent(s, c)
           \/ PublishEvent
           \/ DeleteEvent
  BY <1>3, EditSeats
<1>4. QED
  BY <1>1, <1>2, <1>3 DEF Next

\* The inductive invariant: types, the counter and its bound.
THEOREM SeatsInvariant == Spec => []SeatsInv
  BY InitSeats, NextSeats, PTL DEF Spec

\* All variables stay in their types; in particular the counter that
\* unregister_from_event decrements never becomes negative.
THEOREM TypeCorrect == Spec => []TypeOK
<1>1. SeatsInv => TypeOK
  BY DEF SeatsInv
<1>2. QED
  BY <1>1, SeatsInvariant, PTL

\* Served one at a time, any number of requests of any users leave the column
\* current_attendees equal to the number of registered rows.
THEOREM CounterCorrect == Spec => []CountMatches
<1>1. SeatsInv => CountMatches
  BY DEF SeatsInv
<1>2. QED
  BY <1>1, SeatsInvariant, PTL

\* ... and never register more users than the capacity, whatever edits of the
\* capacity come in between.
THEOREM NeverOverbooked == Spec => []NotOverbooked
<1>1. SeatsInv => NotOverbooked
  BY DEF SeatsInv, CountMatches, NotOverbooked
<1>2. QED
  BY <1>1, SeatsInvariant, PTL

-----------------------------------------------------------------------------
(* The waitlist: the order of the rows, and what the promotion guarantees   *)
(* as long as nobody raises the capacity.                                   *)


\* No status change leads back to draft.
LEMMA NoWayBack ==
    ASSUME NEW s \in EventStatus, NEW d \in STATUS_TRANSITIONS[s]
    PROVE  d # "draft"
  BY DEF EventStatus, STATUS_TRANSITIONS

\* Rows appear only once the event has left the draft status for good.
THEOREM DraftStaysEmpty == Spec => []DraftIsEmpty
<1>1. Init => DraftIsEmpty
  BY DEF Init, DraftIsEmpty
<1>2. TypeOK /\ DraftIsEmpty /\ [Next]_vars => DraftIsEmpty'
  <2> SUFFICES ASSUME TypeOK, DraftIsEmpty, [Next]_vars, status' = "draft"
               PROVE  \A u \in Users : attendee'[u] = "none"
    BY DEF DraftIsEmpty
  <2>1. CASE UNCHANGED vars
    BY <2>1 DEF vars, DraftIsEmpty
  <2>2. CASE \E u \in Users : Register(u) \/ Unregister(u)
    BY <2>2 DEF Register, Unregister, Open
  <2>3. ASSUME NEW s \in EventStatus, NEW c \in 1 .. MaxCapacity,
               UpdateEvent(s, c)
        PROVE  \A u \in Users : attendee'[u] = "none"
    <3>1. status = "draft"
      BY <2>3, NoWayBack DEF UpdateEvent, TypeOK
    <3>2. QED
      BY <2>3, <3>1 DEF UpdateEvent, DraftIsEmpty
  <2>4. CASE PublishEvent
    BY <2>4 DEF PublishEvent
  <2>5. CASE DeleteEvent
    BY <2>5 DEF DeleteEvent, DraftIsEmpty
  <2>6. QED
    BY <2>1, <2>2, <2>3, <2>4, <2>5 DEF Next
<1>3. QED
  BY <1>1, <1>2, TypeCorrect, PTL DEF Spec

-----------------------------------------------------------------------------

\* The pairs after the row of u got the latest timestamp.
LEMMA StampLastPairs ==
    ASSUME NEW u \in Users, NEW x \in Users, NEW y \in Users
    PROVE  <<x, y>> \in StampLast(u) <=>
             \/ x # u /\ y # u /\ <<x, y>> \in before
             \/ x # u /\ y = u /\ attendee[x] # "none"
  BY DEF StampLast

\* The timestamps order the rows totally: a new registration goes last.
THEOREM QueueOrdered == Spec => []QueueIsTotal
<1>1. Init => QueueIsTotal
  BY DEF Init, QueueIsTotal
<1>2. TypeOK /\ QueueIsTotal /\ [Next]_vars => QueueIsTotal'
  <2> SUFFICES ASSUME TypeOK, QueueIsTotal, [Next]_vars PROVE QueueIsTotal'
    OBVIOUS
  <2>1. ASSUME NEW u \in Users, Register(u) PROVE QueueIsTotal'
    <3>1. before' = StampLast(u)
      BY <2>1 DEF Register
    <3>2. \A x \in Users : x # u => attendee'[x] = attendee[x]
      BY <2>1 DEF Register, TypeOK
    <3>3. SUFFICES ASSUME NEW x \in Users, NEW y \in Users
                   PROVE  /\ <<x, y>> \in before' => <<y, x>> \notin before'
                          /\ (x # y /\ attendee'[x] # "none"
                                    /\ attendee'[y] # "none")
                               => <<x, y>> \in before' \/ <<y, x>> \in before'
      BY DEF QueueIsTotal
    <3>4. <<x, y>> \in before' => <<y, x>> \notin before'
      BY <3>1, StampLastPairs DEF QueueIsTotal
    <3>5. (x # y /\ attendee'[x] # "none" /\ attendee'[y] # "none")
             => <<x, y>> \in before' \/ <<y, x>> \in before'
      BY <3>1, <3>2, StampLastPairs DEF QueueIsTotal
    <3>6. QED
      BY <3>4, <3>5
  <2>2. ASSUME UNCHANGED before,
               \A x \in Users : attendee'[x] # "none" => attendee[x] # "none"
        PROVE  QueueIsTotal'
    BY <2>2 DEF QueueIsTotal
  <2>3. ASSUME NEW u \in Users, Unregister(u) PROVE QueueIsTotal'
    <3>1. UNCHANGED before
      BY <2>3 DEF Unregister
    <3>2. \A x \in Users : attendee'[x] # "none" => attendee[x] # "none"
      BY <2>3 DEF Unregister, LeaveWaitlist, LeaveSeat, NextInLine, TypeOK
    <3>3. QED
      BY <2>2, <3>1, <3>2
  <2>4. CASE UNCHANGED <<attendee, before>>
    BY <2>4 DEF QueueIsTotal
  <2>5. QED
    BY <2>1, <2>3, <2>4
       DEF Next, vars, UpdateEvent, PublishEvent, DeleteEvent
<1>3. QED
  BY <1>1, <1>2, TypeCorrect, PTL DEF Spec

-----------------------------------------------------------------------------

\* The two promises about the waitlist depend on each other: a newcomer finds
\* no seat because the event is full, and it is full because every seat that
\* is given up goes to the earliest who waits.
WaitInv == SeatsInv /\ FullWhileWaiting /\ NoQueueJump

LEMMA WaitRegister ==
    ASSUME WaitInv, NEW u \in Users, Register(u)
    PROVE  FullWhileWaiting' /\ NoQueueJump'
<1>1. /\ before' = StampLast(u)
      /\ UNCHANGED capacity
      /\ attendee \in [Users -> Row]
      /\ current_attendees \in Nat /\ capacity \in Nat
      /\ current_attendees <= capacity
  BY CapacityAssumption DEF Register, WaitInv, SeatsInv, TypeOK, Row
<1>2. CASE /\ current_attendees < capacity
           /\ attendee' = [attendee EXCEPT ![u] = "registered"]
           /\ current_attendees' = current_attendees + 1
  <2>1. \A x \in Users : attendee[x] # "waitlisted"
    BY <1>1, <1>2 DEF WaitInv, FullWhileWaiting, InStatus
  <2>2. \A x \in Users : attendee'[x] # "waitlisted"
    BY <1>1, <1>2, <2>1
  <2>3. QED
    BY <2>2 DEF FullWhileWaiting, NoQueueJump, InStatus
<1>3. CASE /\ current_attendees >= capacity
           /\ attendee' = [attendee EXCEPT ![u] = "waitlisted"]
           /\ UNCHANGED current_attendees
  <2>1. FullWhileWaiting'
    BY <1>1, <1>3 DEF FullWhileWaiting
  <2>2. ASSUME NEW x \in Users, NEW y \in Users,
               attendee'[x] = "waitlisted", attendee'[y] = "registered",
               <<x, y>> \in before'
        PROVE  FALSE
    <3>1. y # u /\ attendee[y] = "registered"
      BY <1>1, <1>3, <2>2
    <3>2. x # u /\ <<x, y>> \in before
      BY <1>1, <2>2, <3>1, StampLastPairs
    <3>3. attendee[x] = "waitlisted"
      BY <1>1, <1>3, <2>2, <3>2
    <3>4. QED
      BY <3>1, <3>2, <3>3 DEF WaitInv, NoQueueJump
  <2>3. QED
    BY <2>1, <2>2 DEF NoQueueJump
<1>4. QED
  BY <1>2, <1>3 DEF Register

LEMMA WaitUnregister ==
    ASSUME WaitInv, NEW u \in Users, Unregister(u)
    PROVE  FullWhileWaiting' /\ NoQueueJump'
<1>1. /\ UNCHANGED <<capacity, before>>
      /\ attendee \in [Users -> Row]
  BY DEF Unregister, WaitInv, SeatsInv, TypeOK, Row
<1>2. CASE LeaveWaitlist(u)
  <2>1. \A x \in Users : attendee'[x] \in {attendee[x], "cancelled"}
    BY <1>1, <1>2 DEF LeaveWaitlist
  <2>2. QED
    BY <1>1, <1>2, <2>1
       DEF LeaveWaitlist, WaitInv, FullWhileWaiting, NoQueueJump, InStatus
<1>3. CASE /\ InStatus("waitlisted") = {}
           /\ attendee' = [attendee EXCEPT ![u] = "cancelled"]
  <2>1. \A x \in Users : attendee'[x] # "waitlisted"
    BY <1>1, <1>3 DEF InStatus
  <2>2. QED
    BY <2>1 DEF FullWhileWaiting, NoQueueJump, InStatus
<1>4. ASSUME NEW v \in Users, NextInLine(v), attendee[u] = "registered",
             attendee' = [attendee EXCEPT ![u] = "cancelled",
                                          ![v] = "registered"],
             UNCHANGED current_attendees
      PROVE  FullWhileWaiting' /\ NoQueueJump'
  <2>1. /\ u # v
        /\ \A x \in Users : attendee'[x] = "waitlisted" =>
             x # v /\ attendee[x] = "waitlisted"
        /\ \A x \in Users : attendee'[x] = "registered" =>
             x = v \/ attendee[x] = "registered"
    BY <1>1, <1>4 DEF NextInLine
  <2>2. FullWhileWaiting'
    BY <1>1, <1>4, <2>1 DEF WaitInv, FullWhileWaiting, InStatus
  <2>3. NoQueueJump'
    BY <1>1, <1>4, <2>1 DEF WaitInv, NoQueueJump, NextInLine, InStatus
  <2>4. QED
    BY <2>2, <2>3
<1>5. QED
  BY <1>2, <1>3, <1>4 DEF Unregister, LeaveSeat

LEMMA WaitEdit ==
    ASSUME WaitInv, UNCHANGED <<attendee, before, current_attendees>>,
           capacity' <= capacity, SeatsInv'
    PROVE  FullWhileWaiting' /\ NoQueueJump'
<1>1. NoQueueJump'
  BY DEF WaitInv, NoQueueJump
<1>2. current_attendees <= capacity' /\ capacity \in Nat /\ capacity' \in Nat
      /\ current_attendees \in Nat
  BY CapacityAssumption DEF WaitInv, SeatsInv, TypeOK
<1>3. FullWhileWaiting'
  BY <1>2 DEF WaitInv, FullWhileWaiting, InStatus
<1>4. QED
  BY <1>1, <1>3

LEMMA NextWait == WaitInv /\ [Next /\ capacity' <= capacity]_vars => WaitInv'
<1> SUFFICES ASSUME WaitInv, [Next /\ capacity' <= capacity]_vars
             PROVE  WaitInv'
  OBVIOUS
<1>1. SeatsInv'
  BY NextSeats DEF WaitInv
<1>2. CASE UNCHANGED vars
  BY <1>1, <1>2 DEF vars, WaitInv, FullWhileWaiting, NoQueueJump, InStatus
<1>3. CASE \E u \in Users : Register(u) \/ Unregister(u)
  BY <1>1, <1>3, WaitRegister, WaitUnregister DEF WaitInv
<1>4. CASE /\ \/ \E s \in EventStatus, c \in 1 .. MaxCapacity : UpdateEvent(s, c)
              \/ PublishEvent
              \/ DeleteEvent
           /\ capacity' <= capacity
  <2>1. UNCHANGED <<attendee, before, current_attendees>>
    BY <1>4 DEF UpdateEvent, PublishEvent, DeleteEvent
  <2>2. QED
    BY <1>1, <1>4, <2>1, WaitEdit DEF WaitInv
<1>5. QED
  BY <1>2, <1>3, <1>4 DEF Next

\* A step that does not raise the capacity keeps a fair queue fair.
LEMMA QueueStep ==
    SeatsInv /\ [Next]_vars =>
      [QueueFair /\ capacity' <= capacity => FullWhileWaiting' /\ NoQueueJump']_vars
<1> SUFFICES ASSUME SeatsInv, [Next]_vars, QueueFair, capacity' <= capacity
             PROVE  (FullWhileWaiting' /\ NoQueueJump') \/ UNCHANGED vars
  OBVIOUS
<1>1. WaitInv
  BY DEF WaitInv, QueueFair
<1>2. [Next /\ capacity' <= capacity]_vars
  OBVIOUS
<1>3. QED
  BY <1>1, <1>2, NextWait DEF WaitInv

\* Registrations, cancellations, cuts of the capacity and status changes leave
\* nobody waiting next to a free seat.
THEOREM SeatsTaken == Spec => SeatsStayTaken
<1>1. SeatsInv /\ [Next]_vars =>
        [QueueFair /\ capacity' <= capacity => FullWhileWaiting']_vars
  BY QueueStep
<1>2. QED
  BY <1>1, SeatsInvariant, PTL DEF Spec, SeatsStayTaken

\* ... and let nobody overtake.
THEOREM NoOvertaking == Spec => NobodyOvertakes
<1>1. SeatsInv /\ [Next]_vars =>
        [QueueFair /\ capacity' <= capacity => NoQueueJump']_vars
  BY QueueStep
<1>2. QED
  BY <1>1, SeatsInvariant, PTL DEF Spec, NobodyOvertakes

\* The behaviours in which no edit raises the capacity.
NoRaiseSpec == Init /\ [][Next /\ capacity' <= capacity]_vars

LEMMA InitWait == Init => WaitInv
<1>1. Init => FullWhileWaiting /\ NoQueueJump
  BY DEF Init, FullWhileWaiting, NoQueueJump, InStatus
<1>2. QED
  BY <1>1, InitSeats DEF WaitInv

THEOREM WaitInvariant == NoRaiseSpec => []WaitInv
  BY InitWait, NextWait, PTL DEF NoRaiseSpec

\* As long as no edit raises the capacity, nobody waits for a free seat.
THEOREM FullHouse == NoRaiseSpec => []FullWhileWaiting
<1>1. WaitInv => FullWhileWaiting
  BY DEF WaitInv
<1>2. QED
  BY <1>1, WaitInvariant, PTL

\* ... and nobody is seated ahead of a user who joined earlier and waits.
THEOREM FirstComeFirstServed == NoRaiseSpec => []NoQueueJump
<1>1. WaitInv => NoQueueJump
  BY DEF WaitInv
<1>2. QED
  BY <1>1, WaitInvariant, PTL

=============================================================================
