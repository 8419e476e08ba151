------------------------------ MODULE TxProofs ------------------------------
(***************************************************************************)
(* RegistrationTx for every number of users and of overlapping requests.   *)
(* The first section is about the locks: who holds which row, and that two *)
(* cancellations never choose their successors at the same time.  The      *)
(* others are about what overlapping requests leave right: each property   *)
(* that names a kind of overlap holds as long as no such overlap is        *)
(* recorded in raced.  Their invariants say what the copy of the event row *)
(* that a request works with still has to do with the committed row.  The  *)
(* last section shows that requests one by one implement Registration.     *)
(***************************************************************************)
EXTENDS RegistrationTx, FiniteSetTheorems, TLAPS

TxInv == TypeOK /\ LocksMatchSteps

Locks == Users \cup {"event"}

LEMMA IdleType ==
    ASSUME NEW e \in Event
    PROVE  Idle(e) \in Transaction
  BY DEF Idle, Transaction, TransactionRecord, Steps, RowStatus

LEMMA NoEventType == NoEvent \in Event
  BY BoundsAssumption DEF NoEvent, Event, EventStatus

\* The locks a transaction holds are those its step and its user say.
Holds(t, r) ==
    \/ /\ r = "event"
       /\ t.pc = "promote" \/ (t.pc = "write" /\ Seated(t))
    \/ r \in Users /\ r = t.user /\ t.pc \in {"release", "promote"}

LEMMA LocksAsHolds ==
    LocksMatchSteps <=>
        \A w \in Workers, r \in Locks : lock[r] = w <=> Holds(tx[w], r)
  BY RowsAssumption DEF LocksMatchSteps, Holds, Locks

LEMMA InitType == Init => TypeOK
<1> SUFFICES ASSUME Init PROVE TypeOK
  OBVIOUS
<1>1. row \in [Users -> RowStatus]
  BY DEF Init
<1>2. Cardinality(InStatus("registered")) \in Nat
  BY FS_Subset, FS_CardinalityType, UsersAssumption DEF InStatus
<1>3. Cardinality({u \in Users : row[u] # "none"}) \in Nat
  <2>1. {u \in Users : row[u] # "none"} \in SUBSET Users
    OBVIOUS
  <2>2. QED
    BY <2>1, FS_Subset, FS_CardinalityType, UsersAssumption
<1>4. event \in Event
  <2> DEFINE n == Cardinality(InStatus("registered"))
             Seeds == [status : EventStatus \ Terminal,
                       capacity : 1 .. MaxCapacity,
                       current_attendees : {n}, is_deleted : {FALSE}]
  <2>1. event \in Seeds
    BY DEF Init
  <2>2. n \in Int
    BY <1>2
  <2> HIDE DEF n
  <2>3. Seeds \subseteq Event
    BY <2>2 DEF Event
  <2>4. QED
    BY <2>1, <2>3
<1>5. clock \in Nat /\ registered_at \in [Users -> Nat]
  BY <1>3 DEF Init
<1>6. lock \in [Users \cup {"event"} -> Workers \cup {Nobody}]
  BY DEF Init, NothingRuns
<1>7. tx \in [Workers -> Transaction]
  BY IdleType, NoEventType DEF Init, NothingRuns
<1>8. submitted \in 0 .. MaxRequests /\ raced \subseteq Races
  BY BoundsAssumption DEF Init, NothingRuns
<1>9. QED
  BY <1>1, <1>4, <1>5, <1>6, <1>7, <1>8 DEF TypeOK

LEMMA InitLocks == Init => LocksMatchSteps
  BY NobodyAssumption DEF Init, NothingRuns, LocksMatchSteps, Idle

-----------------------------------------------------------------------------

\* A step of w that ends its transaction.
LEMMA FinishLocks ==
    ASSUME TxInv, NEW w \in Workers, Finish(w)
    PROVE  /\ LocksMatchSteps'
           /\ lock' \in [Locks -> Workers \cup {Nobody}]
           /\ tx' \in [Workers -> Transaction]
<1>1. /\ lock \in [Locks -> Workers \cup {Nobody}]
      /\ tx \in [Workers -> Transaction]
      /\ \A x \in Workers, r \in Locks : lock[r] = x <=> Holds(tx[x], r)
  BY LocksAsHolds DEF TxInv, TypeOK, Locks
<1>2. tx' = [tx EXCEPT ![w] = Idle(NoEvent)]
  BY DEF Finish
<1>3. lock' = [r \in Locks |-> IF lock[r] = w THEN Nobody ELSE lock[r]]
  BY <1>1 DEF Finish
<1>4. \A r \in Locks : ~Holds(Idle(NoEvent), r)
  BY DEF Holds, Idle
<1>5. ASSUME NEW x \in Workers, NEW r \in Locks
      PROVE  lock'[r] = x <=> Holds(tx'[x], r)
  <2>1. CASE x = w
    BY <1>1, <1>2, <1>3, <1>4, <2>1, NobodyAssumption
  <2>2. CASE x # w
    <3>1. tx'[x] = tx[x]
      BY <1>1, <1>2, <2>2
    <3>2. lock'[r] = x <=> lock[r] = x
      BY <1>3, <2>2, NobodyAssumption
    <3>3. QED
      BY <1>1, <3>1, <3>2
  <2>3. QED
    BY <2>1, <2>2
<1>6. LocksMatchSteps'
  BY <1>5, RowsAssumption DEF LocksMatchSteps, Holds, Locks
<1>7. tx' \in [Workers -> Transaction]
  BY <1>1, <1>2, IdleType, NoEventType
<1>8. QED
  BY <1>1, <1>3, <1>6, <1>7

\* A step of w that takes the free row q, or no row, and goes on with t.
LEMMA StepLocks ==
    ASSUME TxInv, NEW w \in Workers, NEW t \in Transaction,
           tx' = [tx EXCEPT ![w] = t],
           lock' \in [Locks -> Workers \cup {Nobody}],
           \A r \in Locks : lock'[r] = lock[r]
                            \/ (lock'[r] = w /\ Free(r, w)),
           \A r \in Locks : lock'[r] = w <=> Holds(t, r)
    PROVE  LocksMatchSteps' /\ tx' \in [Workers -> Transaction]
<1>1. /\ lock \in [Locks -> Workers \cup {Nobody}]
      /\ tx \in [Workers -> Transaction]
      /\ \A x \in Workers, r \in Locks : lock[r] = x <=> Holds(tx[x], r)
  BY LocksAsHolds DEF TxInv, TypeOK, Locks
<1>2. ASSUME NEW x \in Workers, NEW r \in Locks
      PROVE  lock'[r] = x <=> Holds(tx'[x], r)
  <2>1. CASE x = w
    BY <1>1, <2>1
  <2>2. CASE x # w
    <3>1. tx'[x] = tx[x]
      BY <1>1, <2>2
    <3>2. lock'[r] = x <=> lock[r] = x
      BY <2>2, NobodyAssumption DEF Free
    <3>3. QED
      BY <1>1, <3>1, <3>2
  <2>3. QED
    BY <2>1, <2>2
<1>3. LocksMatchSteps'
  BY <1>2, RowsAssumption DEF LocksMatchSteps, Holds, Locks
<1>4. QED
  BY <1>1, <1>3

-----------------------------------------------------------------------------

\* A COMMIT of w that leaves well-typed rows keeps the invariant.
LEMMA CommitInv ==
    ASSUME TxInv, NEW w \in Workers, Finish(w),
           event' \in Event, row' \in [Users -> RowStatus],
           registered_at' \in [Users -> Nat], clock' \in Nat,
           UNCHANGED <<submitted, raced>>
    PROVE  TxInv'
  BY FinishLocks DEF TxInv, TypeOK, Locks

LEMMA RollbackInv ==
    ASSUME TxInv, NEW w \in Workers, Rollback(w)
    PROVE  TxInv'
<1>1. Finish(w) /\ UNCHANGED <<event, row, registered_at, clock, submitted, raced>>
  BY DEF Rollback
<1>2. /\ event' \in Event /\ row' \in [Users -> RowStatus]
      /\ registered_at' \in [Users -> Nat] /\ clock' \in Nat
  BY <1>1 DEF TxInv, TypeOK
<1>3. QED
  BY <1>1, <1>2, CommitInv

\* A statement of w that writes nothing others can see.
LEMMA StatementInv ==
    ASSUME TxInv, NEW w \in Workers, NEW t \in Transaction,
           tx' = [tx EXCEPT ![w] = t],
           lock' \in [Locks -> Workers \cup {Nobody}],
           \A r \in Locks : lock'[r] = lock[r]
                            \/ (lock'[r] = w /\ Free(r, w)),
           \A r \in Locks : lock'[r] = w <=> Holds(t, r),
           UNCHANGED <<event, row, registered_at>>,
           clock' \in Nat, submitted' \in 0 .. MaxRequests, raced' \subseteq Races
    PROVE  TxInv'
<1>1. LocksMatchSteps' /\ tx' \in [Workers -> Transaction]
  BY StepLocks
<1>2. QED
  BY <1>1 DEF TxInv, TypeOK, Locks

LEMMA HeldNow ==
    ASSUME TxInv, NEW w \in Workers
    PROVE  /\ \A r \in Locks : lock[r] = w <=> Holds(tx[w], r)
           /\ lock \in [Locks -> Workers \cup {Nobody}]
           /\ tx[w] \in Transaction
  BY LocksAsHolds DEF TxInv, TypeOK, Locks

\* The requests arrive holding nothing.
LEMMA ArriveInv ==
    ASSUME TxInv, NEW w \in Workers, Arrive(w)
    PROVE  TxInv'
<1>1. event \in Event
  BY DEF TxInv, TypeOK
<1>2. ASSUME NEW t \in Transaction, Submit(w, t), t.pc \in {"select", "apply"}
      PROVE  TxInv'
  <2>1. \A r \in Locks : ~Holds(tx[w], r) /\ ~Holds(t, r)
    BY <1>2 DEF Holds, Submit
  <2>2. /\ UNCHANGED lock /\ tx' = [tx EXCEPT ![w] = t]
        /\ clock' \in Nat /\ submitted' \in 0 .. MaxRequests
    BY <1>2, BoundsAssumption DEF Submit, TxInv, TypeOK
  <2>3. /\ \A r \in Locks : lock'[r] = w <=> Holds(t, r)
        /\ lock' \in [Locks -> Workers \cup {Nobody}]
    BY <2>1, <2>2, HeldNow
  <2>4. UNCHANGED <<event, row, registered_at>>
    BY <1>2 DEF Submit
  <2>5. \A r \in Locks : lock'[r] = lock[r]
    BY <2>2
  <2>6. raced' \subseteq Races
    BY <1>2 DEF Submit, Harms, TxInv, TypeOK
  <2>7. QED
    BY <1>2, <2>2, <2>3, <2>4, <2>5, <2>6, StatementInv
<1>3. ASSUME NEW kind \in Kinds, NEW u \in Clients, BeginAttendance(w, kind, u)
      PROVE  TxInv'
  <2> DEFINE t == [Idle(event) EXCEPT !.pc = "select", !.kind = kind, !.user = u]
  <2>1. t \in Transaction /\ t.pc = "select"
    BY <1>1, IdleType, UsersAssumption DEF Idle, Transaction, TransactionRecord, Steps
  <2>2. QED
    BY <1>2, <1>3, <2>1 DEF BeginAttendance
<1>4. ASSUME NEW kind \in {"update", "publish", "delete"}, NEW e \in Event,
             BeginEdit(w, kind, e)
      PROVE  TxInv'
  <2> DEFINE t == [Idle(event) EXCEPT !.pc = "apply", !.kind = kind, !.edit = e]
  <2>1. t \in Transaction /\ t.pc = "apply"
    BY <1>1, <1>4, IdleType DEF Idle, Transaction, TransactionRecord, Steps, BeginEdit, Submit
  <2>2. QED
    BY <1>2, <1>4, <2>1 DEF BeginEdit
<1>5. ASSUME NEW s \in EventStatus, NEW c \in 1 .. MaxCapacity,
             BeginUpdate(w, s, c)
      PROVE  TxInv'
  <2>1. [event EXCEPT !.status = s, !.capacity = c] \in Event
    BY <1>1 DEF Event
  <2>2. QED
    BY <1>4, <1>5, <2>1 DEF BeginUpdate
<1>6. CASE BeginPublish(w)
  <2>1. [event EXCEPT !.status = "upcoming"] \in Event
    BY <1>1 DEF Event, EventStatus
  <2>2. QED
    BY <1>4, <1>6, <2>1 DEF BeginPublish
<1>7. CASE BeginDelete(w)
  <2>1. [event EXCEPT !.is_deleted = TRUE] \in Event
    BY <1>1 DEF Event
  <2>2. QED
    BY <1>4, <1>7, <2>1 DEF BeginDelete
<1>8. QED
  BY <1>3, <1>5, <1>6, <1>7 DEF Arrive

\* The SELECTs of the attendee row, after which the request still holds
\* nothing: a copy that shows no free seat leads past the event's lock.
LEMMA SelectInv ==
    ASSUME TxInv, NEW w \in Workers,
           SelectForRegister(w) \/ SelectForUnregister(w)
    PROVE  TxInv'
<1>1. /\ tx \in [Workers -> Transaction] /\ tx[w] \in TransactionRecord
      /\ tx[w].user \in Users
      /\ row[tx[w].user] \in RowStatus /\ clock \in Nat
      /\ submitted \in 0 .. MaxRequests /\ raced \subseteq Races
  BY DEF TxInv, TypeOK, SelectForRegister, SelectForUnregister, Transaction
<1>2. \A r \in Locks : ~Holds(tx[w], r)
  BY DEF Holds, SelectForRegister, SelectForUnregister
<1>3. CASE SelectForRegister(w)
  <2> DEFINE t == [tx[w] EXCEPT !.had = row[tx[w].user], !.stamp = clock',
                                !.pc = IF Seated(tx[w]) THEN "seat" ELSE "write"]
  <2>1. clock' \in Nat /\ tx' = [tx EXCEPT ![w] = t]
        /\ UNCHANGED <<event, row, registered_at, lock, submitted, raced>>
    BY <1>1, <1>3 DEF SelectForRegister
  <2>2. t \in Transaction
    BY <1>1, <2>1 DEF Transaction, TransactionRecord, Steps, Seated
  <2>3. t.pc = "seat" \/ (t.pc = "write" /\ ~Seated(t))
    BY <1>1 DEF TransactionRecord, Seated
  <2>4. \A r \in Locks : ~Holds(t, r)
    BY <2>3 DEF Holds
  <2> HIDE DEF t
  <2>5. /\ \A r \in Locks : lock'[r] = w <=> Holds(t, r)
        /\ \A r \in Locks : lock'[r] = lock[r]
        /\ lock' \in [Locks -> Workers \cup {Nobody}]
    BY <1>2, <2>1, <2>4, HeldNow
  <2>6. QED
    BY <1>1, <2>1, <2>2, <2>5, StatementInv
<1>4. CASE SelectForUnregister(w)
  <2> DEFINE t == [tx[w] EXCEPT !.had = row[tx[w].user], !.pc = "cancel"]
  <2>1. tx' = [tx EXCEPT ![w] = t]
        /\ UNCHANGED <<event, row, registered_at, clock, lock, submitted, raced>>
    BY <1>1, <1>4 DEF SelectForUnregister
  <2>2. t \in Transaction /\ t.pc = "cancel"
    BY <1>1 DEF Transaction, TransactionRecord, Steps
  <2>3. \A r \in Locks : ~Holds(t, r)
    BY <2>2 DEF Holds
  <2> HIDE DEF t
  <2>4. /\ \A r \in Locks : lock'[r] = w <=> Holds(t, r)
        /\ \A r \in Locks : lock'[r] = lock[r]
        /\ lock' \in [Locks -> Workers \cup {Nobody}]
    BY <1>2, <2>1, <2>3, HeldNow
  <2>5. QED
    BY <1>1, <2>1, <2>2, <2>4, StatementInv
<1>5. QED
  BY <1>3, <1>4

\* The UPDATEs that take a lock and keep it.
LEMMA AcquireInv ==
    ASSUME TxInv, NEW w \in Workers, NEW q \in Locks, NEW t \in Transaction,
           Free(q, w), lock' = [lock EXCEPT ![q] = w],
           tx' = [tx EXCEPT ![w] = t],
           \A r \in Locks : Holds(t, r) <=> (r = q \/ Holds(tx[w], r)),
           UNCHANGED <<event, row, registered_at, clock, submitted, raced>>
    PROVE  TxInv'
<1>1. /\ lock \in [Locks -> Workers \cup {Nobody}]
      /\ \A r \in Locks : lock[r] = w <=> Holds(tx[w], r)
  BY HeldNow
<1>2. /\ lock' \in [Locks -> Workers \cup {Nobody}]
      /\ \A r \in Locks : lock'[r] = lock[r] \/ (lock'[r] = w /\ Free(r, w))
      /\ \A r \in Locks : lock'[r] = w <=> Holds(t, r)
  BY <1>1
<1>3. clock' \in Nat /\ submitted' \in 0 .. MaxRequests /\ raced' \subseteq Races
  BY DEF TxInv, TypeOK
<1>4. QED
  BY <1>2, <1>3, StatementInv

LEMMA LockingInv ==
    ASSUME TxInv, NEW w \in Workers,
           TakeSeat(w) \/ CancelRegistered(w) \/ ChooseNext(w)
    PROVE  TxInv'
<1>0. /\ tx[w] \in Transaction
      /\ tx[w].pc \notin {"idle", "apply"}
  BY DEF TxInv, TypeOK, TakeSeat, CancelRegistered, ChooseNext
<1>1. /\ tx[w] \in TransactionRecord
      /\ tx[w].user \in Users
      /\ "event" \in Locks /\ tx[w].user \in Locks
      /\ tx[w].user # "event"
  BY <1>0, RowsAssumption DEF Transaction, Locks
<1>2. CASE TakeSeat(w)
  <2> DEFINE t == [tx[w] EXCEPT !.pc = "write"]
  <2>1. Seated(tx[w])
    BY <1>0, <1>2 DEF Transaction, TakeSeat
  <2>2. t \in Transaction /\ t.pc = "write" /\ t.seen = tx[w].seen
    BY <1>1 DEF Transaction, TransactionRecord, Steps
  <2> HIDE DEF t
  <2>3. \A r \in Locks : Holds(t, r) <=> (r = "event" \/ Holds(tx[w], r))
    BY <1>2, <2>1, <2>2 DEF Holds, TakeSeat, Seated
  <2>4. QED
    BY <1>1, <1>2, <2>2, <2>3, AcquireInv DEF TakeSeat, t
<1>3. CASE CancelRegistered(w)
  <2> DEFINE t == [tx[w] EXCEPT !.pc = "release"]
  <2>1. t \in Transaction /\ t.pc = "release" /\ t.user = tx[w].user
    BY <1>1 DEF Transaction, TransactionRecord, Steps
  <2> HIDE DEF t
  <2>2. \A r \in Locks : Holds(t, r) <=> (r = tx[w].user \/ Holds(tx[w], r))
    BY <1>1, <1>3, <2>1 DEF Holds, CancelRegistered
  <2>3. QED
    BY <1>1, <1>3, <2>1, <2>2, AcquireInv DEF CancelRegistered, t
<1>4. CASE ChooseNext(w)
  <2>1. PICK v \in Users :
          tx' = [tx EXCEPT ![w] = [tx[w] EXCEPT !.next = v, !.pc = "promote"]]
    BY <1>4 DEF ChooseNext, Earliest, Waiting, InStatus, TxInv, TypeOK
  <2> DEFINE t == [tx[w] EXCEPT !.next = v, !.pc = "promote"]
  <2>2. t \in Transaction /\ t.pc = "promote" /\ t.user = tx[w].user
    BY <1>1 DEF Transaction, TransactionRecord, Steps
  <2> HIDE DEF t
  <2>3. \A r \in Locks : Holds(t, r) <=> (r = "event" \/ Holds(tx[w], r))
    BY <1>1, <1>4, <2>2 DEF Holds, ChooseNext
  <2>4. /\ Free("event", w) /\ lock' = [lock EXCEPT !["event"] = w]
        /\ UNCHANGED <<event, row, registered_at, clock, submitted, raced>>
    BY <1>4 DEF ChooseNext
  <2>5. tx' = [tx EXCEPT ![w] = t]
    BY <2>1 DEF t
  <2>6. QED
    BY <1>1, <2>2, <2>3, <2>4, <2>5, AcquireInv
<1>5. QED
  BY <1>2, <1>3, <1>4

\* The statements that COMMIT.
LEMMA CommittingInv ==
    ASSUME TxInv, NEW w \in Workers,
           \/ ReuseRow(w) \/ InsertRow(w) \/ CancelWaitlisted(w)
           \/ ReleaseSeat(w) \/ Promote(w) \/ ApplyEdit(w)
    PROVE  TxInv'
<1>1. /\ event \in Event /\ row \in [Users -> RowStatus]
      /\ registered_at \in [Users -> Nat] /\ clock \in Nat
      /\ tx[w] \in Transaction
  BY DEF TxInv, TypeOK
<1>2. /\ tx[w].seen \in Event /\ tx[w].edit \in Event /\ tx[w].stamp \in Nat
      /\ tx[w].pc \notin {"idle", "apply"} => tx[w].user \in Users
      /\ tx[w].pc = "promote" => tx[w].next \in Users
  BY <1>1 DEF Transaction, TransactionRecord
<1>3. tx[w].seen.current_attendees \in Int
  BY <1>2 DEF Event
<1>4. ASSUME NEW n \in Int
      PROVE  [event EXCEPT !.current_attendees = n] \in Event
  BY <1>1, <1>4 DEF Event
<1>5. ASSUME NEW ts \in Nat, tx[w].user \in Users, CommitRegistration(w, ts),
             clock' \in Nat
      PROVE  TxInv'
  <2>1. event' \in Event
    BY <1>1, <1>3, <1>4, <1>5 DEF CommitRegistration
  <2>2. row' \in [Users -> RowStatus] /\ registered_at' \in [Users -> Nat]
    BY <1>1, <1>5 DEF CommitRegistration, RowStatus
  <2>3. QED
    BY <1>5, <2>1, <2>2, CommitInv DEF CommitRegistration
<1>6. CASE ReuseRow(w)
  BY <1>1, <1>2, <1>5, <1>6 DEF ReuseRow
<1>7. CASE InsertRow(w)
  BY <1>1, <1>2, <1>5, <1>7 DEF InsertRow
<1>8. CASE CancelWaitlisted(w)
  <2>1. row' \in [Users -> RowStatus]
    BY <1>1, <1>8 DEF CancelWaitlisted, RowStatus
  <2>2. QED
    BY <1>1, <1>8, <2>1, CommitInv DEF CancelWaitlisted
<1>9. CASE ReleaseSeat(w) \/ Promote(w)
  <2>1. row' \in [Users -> RowStatus]
    BY <1>1, <1>9 DEF ReleaseSeat, Promote, RowStatus
  <2>2. event' \in Event
    <3>1. tx[w].seen.current_attendees - 1 \in Int
      BY <1>3
    <3>2. \/ event' = [event EXCEPT !.current_attendees =
                         tx[w].seen.current_attendees - 1]
          \/ event' = [event EXCEPT !.current_attendees =
                         tx[w].seen.current_attendees]
      BY <1>9, Zenon DEF ReleaseSeat, Promote
    <3>3. QED
      BY <1>3, <1>4, <3>1, <3>2
  <2>3. QED
    BY <1>1, <1>9, <2>1, <2>2, CommitInv DEF ReleaseSeat, Promote
<1>10. CASE ApplyEdit(w)
  <2>1. event' \in Event
    BY <1>1, <1>2, <1>10 DEF ApplyEdit, Column, Event
  <2>2. QED
    BY <1>1, <1>10, <2>1, CommitInv DEF ApplyEdit
<1>11. QED
  BY <1>6, <1>7, <1>8, <1>9, <1>10

LEMMA NextInv == TxInv /\ [Next]_vars => TxInv'
<1> SUFFICES ASSUME TxInv, [Next]_vars PROVE TxInv'
  OBVIOUS
<1>1. CASE UNCHANGED vars
  BY <1>1 DEF vars, TxInv, TypeOK, LocksMatchSteps
<1>2. ASSUME NEW w \in Workers, Arrive(w) PROVE TxInv'
  BY <1>2, ArriveInv
<1>3. ASSUME NEW w \in Workers, Advance(w) PROVE TxInv'
  BY <1>3, SelectInv, LockingInv, CommittingInv, RollbackInv
     DEF Advance, SelectRejects, InsertConflicts, DeadlockAbort
<1>4. ASSUME NEW w \in Workers, Crash(w) PROVE TxInv'
  BY <1>4, RollbackInv DEF Crash
<1>5. QED
  BY <1>1, <1>2, <1>3, <1>4 DEF Next

THEOREM TxInvariant == Spec => []TxInv
<1>1. Init => TxInv
  BY InitType, InitLocks DEF TxInv
<1>2. QED
  BY <1>1, NextInv, PTL DEF Spec

\* Every variable stays in its type, with any number of overlapping requests.
THEOREM TxTypeCorrect == Spec => []TypeOK
<1>1. TxInv => TypeOK
  BY DEF TxInv
<1>2. QED
  BY <1>1, TxInvariant, PTL

\* The locks are exactly those the open transactions have taken: no answered,
\* rejected, failed or aborted request leaves one behind.
THEOREM LocksAccounted == Spec => []LocksMatchSteps
<1>1. TxInv => LocksMatchSteps
  BY DEF TxInv
<1>2. QED
  BY <1>1, TxInvariant, PTL

\* However many users cancel at the same time, at most one of their requests
\* is between choosing the next in line and committing the promotion.
THEOREM PromotionsSerialized == Spec => []OnePromotionAtATime
<1>1. TxInv => OnePromotionAtATime
  BY DEF TxInv, LocksMatchSteps, OnePromotionAtATime
<1>2. QED
  BY <1>1, TxInvariant, PTL

-----------------------------------------------------------------------------
(* What overlaps break. *)

\* What the step of a request says about it.
Shape(t) ==
    /\ t.pc = "idle" <=> t.kind = "none"
    /\ t.pc = "apply" <=> Edits(t)
    /\ t.pc \in {"seat", "write"} => t.kind = "register" /\ t.had \notin Active
    /\ t.pc \in {"cancel", "release", "promote"} => t.kind = "unregister"
    /\ t.pc = "cancel" => t.had \in Active
    /\ t.pc \in {"release", "promote"} => t.had = "registered"
    /\ t.pc = "promote" => t.next # t.user
    /\ t.edit.current_attendees = t.seen.current_attendees
    /\ ~Edits(t) => t.edit = t.seen
    /\ t.edit.status # t.seen.status => t.seen.status \notin Terminal

Shapes == \A w \in Workers : Shape(tx[w])

\* The committed row still shows what the registration t has read ...
Untouched(t) ==
    /\ event.current_attendees = t.seen.current_attendees
    /\ t.pc \in {"seat", "write"} => row[t.user] = t.had

\* ... or a copy of t has been committed and t would only repeat it.
Repeated(t) ==
    IF Seated(t)
    THEN /\ row[t.user] = "registered"
         /\ event.current_attendees = t.seen.current_attendees + 1
    ELSE /\ row[t.user] = "waitlisted"
         /\ event.current_attendees = t.seen.current_attendees

Registers(t) == t.kind = "register"

\* What a request for a seat has read is what is still there.
Current(t) ==
    /\ Registers(t) => Untouched(t) \/ Repeated(t)
    /\ t.kind = "unregister" =>
         /\ event.current_attendees = t.seen.current_attendees
         /\ t.pc \in {"cancel", "release", "promote"} => row[t.user] = t.had
         /\ t.pc = "promote" => row[t.next] = "waitlisted"

\* Two requests for seats are copies of one registration.
Copies(w, x) ==
    w # x /\ Attends(tx[w]) /\ Attends(tx[x]) =>
        /\ Registers(tx[w]) /\ Registers(tx[x])
        /\ tx[w].user = tx[x].user /\ tx[w].seen = tx[x].seen

\* While "seats" has not happened, the counter is right and so is what the
\* requests make of it.
SeatsApart ==
    "seats" \notin raced =>
        /\ event.current_attendees = Cardinality(InStatus("registered"))
        /\ \A w, x \in Workers : Copies(w, x)
        /\ \A w \in Workers : Current(tx[w])

Resizes(t) == t.edit.capacity # t.seen.capacity
Cuts(t) == t.edit.capacity < t.seen.capacity

\* While "capacity" has not happened, one request at a time changes the
\* capacity, and a registration has read one that is not below it.
CapacityApart ==
    "capacity" \notin raced =>
        /\ \A w, x \in Workers : Resizes(tx[w]) /\ Resizes(tx[x]) => w = x
        /\ \A w, x \in Workers : ~(Registers(tx[w]) /\ Cuts(tx[x]))
        /\ \A w \in Workers :
             /\ Resizes(tx[w]) => event.capacity = tx[w].seen.capacity
             /\ Registers(tx[w]) => tx[w].seen.capacity <= event.capacity

\* The seats taken fit the capacity, and the one a request is cutting it to.
CutsFit ==
    raced \cap {"seats", "capacity"} = {} =>
        /\ event.current_attendees <= event.capacity
        /\ \A w \in Workers :
             Cuts(tx[w]) => event.current_attendees <= tx[w].edit.capacity

\* While "status" has not happened, one request at a time changes the status.
StatusApart ==
    "status" \notin raced =>
        /\ \A w, x \in Workers :
             /\ tx[w].edit.status # tx[w].seen.status
             /\ tx[x].edit.status # tx[x].seen.status
             => w = x
        /\ \A w \in Workers :
             tx[w].edit.status # tx[w].seen.status => event.status = tx[w].seen.status

\* While "closing" has not happened, nobody asks for a seat of an event that
\* is not open or about to be closed.
ClosingApart ==
    "closing" \notin raced =>
        \A w \in Workers : Attends(tx[w]) =>
            /\ Open(event)
            /\ \A x \in Workers : Edits(tx[x]) => Open(tx[x].edit)

\* While "leaving" has not happened, the next in line is still in line.
LeavingApart ==
    "leaving" \notin raced =>
        /\ \A w, x \in Workers :
             tx[w].kind = "unregister" /\ tx[x].kind = "unregister"
                => tx[w].user = tx[x].user
        /\ \A w \in Workers : tx[w].pc = "promote" => row[tx[w].next] # "cancelled"

RaceInv ==
    /\ TxInv /\ Shapes
    /\ SeatsApart /\ CapacityApart /\ CutsFit
    /\ StatusApart /\ ClosingApart /\ LeavingApart

LEMMA InvFacts ==
    ASSUME TxInv, Shapes
    PROVE  /\ event \in Event /\ row \in [Users -> RowStatus]
           /\ tx \in [Workers -> Transaction]
           /\ \A w \in Workers :
                /\ tx[w] \in TransactionRecord
                /\ tx[w].seen \in Event /\ tx[w].edit \in Event
                /\ Shape(tx[w])
                /\ tx[w].pc \notin {"idle", "apply"} => tx[w].user \in Users
                /\ tx[w].pc = "promote" => tx[w].next \in Users
  BY DEF TxInv, TypeOK, Transaction, TransactionRecord, Shapes

-----------------------------------------------------------------------------
(* The steps, by what they do to the requests and to the committed rows. *)

\* The transaction t goes on as o: the same request with the same copy.
SameRequest(t, o) ==
    /\ o.kind = t.kind /\ o.user = t.user /\ o.seen = t.seen /\ o.edit = t.edit

\* A request that arrives.
Arrives(w, t) ==
    /\ Submit(w, t) /\ Shape(t)
    /\ t.seen = event
    /\ \/ Attends(t) /\ t.pc = "select" /\ Open(event) /\ t.user \in Clients
       \/ Edits(t) /\ t.pc = "apply"
    /\ t.edit \in Event
    /\ Resizes(t) => event.current_attendees <= t.edit.capacity

LEMMA ArrivesAs ==
    ASSUME TxInv, NEW w \in Workers, Arrive(w)
    PROVE  \E t : Arrives(w, t)
<1>0. event \in Event
  BY DEF TxInv, TypeOK
<1>1. ASSUME NEW kind, NEW u \in Clients, BeginAttendance(w, kind, u)
      PROVE  \E t : Arrives(w, t)
  <2> DEFINE t == [Idle(event) EXCEPT !.pc = "select", !.kind = kind, !.user = u]
  <2>1. /\ t.pc = "select" /\ t.kind = kind /\ t.seen = event /\ t.edit = event
        /\ t.user = u
    BY DEF Idle
  <2>2. Submit(w, t) /\ Open(event) /\ kind \in {"register", "unregister"}
    BY <1>1 DEF BeginAttendance
  <2> HIDE DEF t
  <2>3. Arrives(w, t)
    BY <1>0, <2>1, <2>2 DEF Arrives, Shape, Attends, Edits, Resizes
  <2>4. QED
    BY <2>3
<1>2. ASSUME NEW kind \in {"update", "publish", "delete"}, NEW e \in Event,
             BeginEdit(w, kind, e),
             e.current_attendees = event.current_attendees,
             e.status # event.status => event.status \notin Terminal,
             e.capacity # event.capacity => event.current_attendees <= e.capacity
      PROVE  \E t : Arrives(w, t)
  <2> DEFINE t == [Idle(event) EXCEPT !.pc = "apply", !.kind = kind, !.edit = e]
  <2>1. /\ t.pc = "apply" /\ t.kind = kind /\ t.seen = event /\ t.edit = e
    BY DEF Idle
  <2>2. Submit(w, t)
    BY <1>2 DEF BeginEdit
  <2> HIDE DEF t
  <2>3. Arrives(w, t)
    BY <1>0, <1>2, <2>1, <2>2 DEF Arrives, Shape, Attends, Edits, Resizes
  <2>4. QED
    BY <2>3
<1>3. ASSUME NEW s \in EventStatus, NEW c \in 1 .. MaxCapacity, BeginUpdate(w, s, c)
      PROVE  \E t : Arrives(w, t)
  <2> DEFINE e == [event EXCEPT !.status = s, !.capacity = c]
  <2>1. /\ e \in Event /\ e.status = s /\ e.capacity = c
        /\ e.current_attendees = event.current_attendees
    BY <1>0 DEF Event
  <2>2. BeginEdit(w, "update", e) /\ event.status \notin Terminal
        /\ (c = event.capacity \/ c >= event.current_attendees)
    BY <1>3 DEF BeginUpdate
  <2> HIDE DEF e
  <2>3. c # event.capacity => event.current_attendees <= c
    BY <1>0, <2>2 DEF Event
  <2>4. QED
    BY <1>2, <2>1, <2>2, <2>3
<1>4. CASE BeginPublish(w)
  <2> DEFINE e == [event EXCEPT !.status = "upcoming"]
  <2>1. /\ e \in Event /\ e.capacity = event.capacity
        /\ e.current_attendees = event.current_attendees
    BY <1>0 DEF Event, EventStatus
  <2>2. BeginEdit(w, "publish", e) /\ event.status \notin Terminal
    BY <1>4 DEF BeginPublish, Terminal
  <2> HIDE DEF e
  <2>3. QED
    BY <1>2, <2>1, <2>2
<1>5. CASE BeginDelete(w)
  <2> DEFINE e == [event EXCEPT !.is_deleted = TRUE]
  <2>1. /\ e \in Event /\ e.capacity = event.capacity /\ e.status = event.status
        /\ e.current_attendees = event.current_attendees
    BY <1>0 DEF Event
  <2>2. BeginEdit(w, "delete", e)
    BY <1>5 DEF BeginDelete
  <2> HIDE DEF e
  <2>3. QED
    BY <1>2, <2>1, <2>2
<1>6. QED
  BY <1>1, <1>3, <1>4, <1>5 DEF Arrive

\* A statement whose effect nobody else sees.
Statement(w, t) ==
    /\ tx' = [tx EXCEPT ![w] = t]
    /\ UNCHANGED <<event, row, raced>>
    /\ SameRequest(tx[w], t) /\ Shape(t)
    /\ \/ tx[w].pc = "select" /\ t.pc \in {"seat", "write"}
          /\ row[t.user] = t.had /\ t.had \notin Active
       \/ tx[w].pc = "select" /\ t.pc = "cancel" /\ row[t.user] = t.had
       \/ tx[w].pc = "seat" /\ t.pc = "write" /\ t.had = tx[w].had
       \/ tx[w].pc = "cancel" /\ t.pc = "release" /\ t.had = tx[w].had
       \/ tx[w].pc = "release" /\ t.pc = "promote" /\ t.had = tx[w].had
          /\ t.next \in Users /\ row[t.next] = "waitlisted"

States(w) ==
    \/ SelectForRegister(w) \/ SelectForUnregister(w) \/ TakeSeat(w)
    \/ CancelRegistered(w) \/ ChooseNext(w)

LEMMA StatesAs ==
    ASSUME TxInv, Shapes, NEW w \in Workers, States(w)
    PROVE  \E t : Statement(w, t)
<1>0. /\ tx[w] \in TransactionRecord /\ Shape(tx[w])
      /\ tx[w].pc \notin {"idle", "apply"} => tx[w].user \in Users
  BY InvFacts
<1>1. CASE SelectForRegister(w)
  <2> DEFINE t == [tx[w] EXCEPT !.had = row[tx[w].user], !.stamp = clock',
                                !.pc = IF Seated(tx[w]) THEN "seat" ELSE "write"]
  <2>1. /\ tx' = [tx EXCEPT ![w] = t] /\ UNCHANGED <<event, row, raced>>
        /\ tx[w].pc = "select" /\ tx[w].kind = "register"
        /\ row[tx[w].user] \notin Active
    BY <1>1 DEF SelectForRegister
  <2>2. /\ SameRequest(tx[w], t) /\ t.pc \in {"seat", "write"}
        /\ t.had = row[tx[w].user]
    BY <1>0 DEF TransactionRecord, SameRequest
  <2> HIDE DEF t
  <2>3. Statement(w, t)
    BY <1>0, <2>1, <2>2 DEF Statement, Shape, SameRequest, Edits
  <2>4. QED
    BY <2>3
<1>2. CASE SelectForUnregister(w)
  <2> DEFINE t == [tx[w] EXCEPT !.had = row[tx[w].user], !.pc = "cancel"]
  <2>1. /\ tx' = [tx EXCEPT ![w] = t] /\ UNCHANGED <<event, row, raced>>
        /\ tx[w].pc = "select" /\ tx[w].kind = "unregister"
        /\ row[tx[w].user] \in Active
    BY <1>2 DEF SelectForUnregister
  <2>2. /\ SameRequest(tx[w], t) /\ t.pc = "cancel" /\ t.had = row[tx[w].user]
    BY <1>0 DEF TransactionRecord, SameRequest
  <2> HIDE DEF t
  <2>3. Statement(w, t)
    BY <1>0, <2>1, <2>2 DEF Statement, Shape, SameRequest, Edits
  <2>4. QED
    BY <2>3
<1>3. CASE TakeSeat(w)
  <2> DEFINE t == [tx[w] EXCEPT !.pc = "write"]
  <2>1. /\ tx' = [tx EXCEPT ![w] = t] /\ UNCHANGED <<event, row, raced>>
        /\ tx[w].pc = "seat"
    BY <1>3 DEF TakeSeat
  <2>2. /\ SameRequest(tx[w], t) /\ t.pc = "write" /\ t.had = tx[w].had
    BY <1>0 DEF TransactionRecord, SameRequest
  <2> HIDE DEF t
  <2>3. Statement(w, t)
    BY <1>0, <2>1, <2>2 DEF Statement, Shape, SameRequest, Edits
  <2>4. QED
    BY <2>3
<1>4. CASE CancelRegistered(w)
  <2> DEFINE t == [tx[w] EXCEPT !.pc = "release"]
  <2>1. /\ tx' = [tx EXCEPT ![w] = t] /\ UNCHANGED <<event, row, raced>>
        /\ tx[w].pc = "cancel" /\ tx[w].had = "registered"
    BY <1>4 DEF CancelRegistered
  <2>2. /\ SameRequest(tx[w], t) /\ t.pc = "release" /\ t.had = tx[w].had
    BY <1>0 DEF TransactionRecord, SameRequest
  <2> HIDE DEF t
  <2>3. Statement(w, t)
    BY <1>0, <2>1, <2>2 DEF Statement, Shape, SameRequest, Edits
  <2>4. QED
    BY <2>3
<1>5. CASE ChooseNext(w)
  <2>1. PICK v \in Waiting(w) :
          tx' = [tx EXCEPT ![w] = [tx[w] EXCEPT !.next = v, !.pc = "promote"]]
    BY <1>5 DEF ChooseNext, Earliest
  <2> DEFINE t == [tx[w] EXCEPT !.next = v, !.pc = "promote"]
  <2>2. /\ tx' = [tx EXCEPT ![w] = t] /\ UNCHANGED <<event, row, raced>>
        /\ tx[w].pc = "release"
    BY <1>5, <2>1 DEF ChooseNext
  <2>3. /\ SameRequest(tx[w], t) /\ t.pc = "promote" /\ t.had = tx[w].had
        /\ t.next = v
    BY <1>0 DEF TransactionRecord, SameRequest
  <2>4. v \in Users /\ row[v] = "waitlisted" /\ v # tx[w].user
    BY <2>1 DEF Waiting, InStatus
  <2> HIDE DEF t
  <2>5. Statement(w, t)
    BY <1>0, <2>2, <2>3, <2>4 DEF Statement, Shape, SameRequest, Edits
  <2>6. QED
    BY <2>5
<1>6. QED
  BY <1>1, <1>2, <1>3, <1>4, <1>5 DEF States

\* The steps that end a request, by what they leave.
Registered(w) ==
    /\ tx[w].pc = "write"
    /\ \E ts : CommitRegistration(w, ts)
    /\ tx[w].had = "none" => row[tx[w].user] = "none"

Ended(w) ==
    \/ Rollback(w)
    \/ Registered(w)
    \/ CancelWaitlisted(w) \/ ReleaseSeat(w) \/ Promote(w)
    \/ ApplyEdit(w)

LEMMA StepKinds ==
    ASSUME TxInv, Shapes, [Next]_vars
    PROVE  \/ UNCHANGED <<event, row, tx, raced>>
           \/ \E w \in Workers :
                \/ \E t : Arrives(w, t)
                \/ \E t : Statement(w, t)
                \/ Finish(w) /\ UNCHANGED raced /\ Ended(w)
<1>1. CASE UNCHANGED vars
  BY <1>1 DEF vars
<1>2. ASSUME NEW w \in Workers, Arrive(w) PROVE \E t : Arrives(w, t)
  BY <1>2, ArrivesAs
<1>3. ASSUME NEW w \in Workers, States(w) PROVE \E t : Statement(w, t)
  BY <1>3, StatesAs
<1>4. ASSUME NEW w \in Workers,
             Rollback(w) \/ ReuseRow(w) \/ InsertRow(w) \/ CancelWaitlisted(w)
               \/ ReleaseSeat(w) \/ Promote(w) \/ ApplyEdit(w)
      PROVE  Finish(w) /\ UNCHANGED raced /\ Ended(w)
  <2>1. CASE Rollback(w)
    BY <2>1 DEF Rollback, Ended
  <2>2. CASE ReuseRow(w)
    BY <2>2 DEF ReuseRow, CommitRegistration, Registered, Ended
  <2>3. CASE InsertRow(w)
    BY <2>3 DEF InsertRow, CommitRegistration, Registered, Ended
  <2>4. CASE CancelWaitlisted(w) \/ ReleaseSeat(w) \/ Promote(w) \/ ApplyEdit(w)
    BY <2>4 DEF CancelWaitlisted, ReleaseSeat, Promote, ApplyEdit, Ended
  <2>5. QED
    BY <1>4, <2>1, <2>2, <2>3, <2>4
<1>5. QED
  BY <1>1, <1>2, <1>3, <1>4 DEF Next, Advance, Crash, SelectRejects,
     InsertConflicts, DeadlockAbort, States

\* A worker that changes and those that do not.
LEMMA OthersKept ==
    ASSUME TxInv, NEW w \in Workers, NEW t, tx' = [tx EXCEPT ![w] = t]
    PROVE  tx'[w] = t /\ \A x \in Workers : x # w => tx'[x] = tx[x]
  BY DEF TxInv, TypeOK

LEMMA FinishKept ==
    ASSUME TxInv, NEW w \in Workers, Finish(w)
    PROVE  /\ tx'[w] = Idle(NoEvent)
           /\ \A x \in Workers : x # w => tx'[x] = tx[x]
  BY DEF TxInv, TypeOK, Finish

\* Overlaps are not forgotten, and those of the request t with the requests in
\* progress are recorded.
LEMMA RacesRecorded ==
    ASSUME TxInv, NEW w \in Workers, NEW t, Submit(w, t)
    PROVE  /\ raced \subseteq raced'
           /\ \A x \in Workers : tx[x].pc # "idle" =>
                Harms(t, tx[x]) \subseteq raced' /\ Harms(tx[x], t) \subseteq raced'
  BY DEF Submit

\* An idle worker is in nobody's way.
LEMMA IdleShape ==
    /\ Shape(Idle(NoEvent)) /\ ~Attends(Idle(NoEvent)) /\ ~Edits(Idle(NoEvent))
    /\ ~Registers(Idle(NoEvent)) /\ ~Resizes(Idle(NoEvent)) /\ ~Cuts(Idle(NoEvent))
    /\ Idle(NoEvent).edit.status = Idle(NoEvent).seen.status
    /\ Idle(NoEvent).pc = "idle" /\ Idle(NoEvent).kind = "none"
  BY DEF Idle, NoEvent, Shape, Attends, Edits, Registers, Resizes, Cuts

LEMMA ShapesStep == TxInv /\ Shapes /\ [Next]_vars => Shapes'
<1> SUFFICES ASSUME TxInv, Shapes, [Next]_vars PROVE Shapes'
  OBVIOUS
<1>1. CASE UNCHANGED <<event, row, tx, raced>>
  BY <1>1 DEF Shapes
<1>2. ASSUME NEW w \in Workers, NEW t, Arrives(w, t) PROVE Shapes'
  BY <1>2, OthersKept DEF Arrives, Submit, Shapes
<1>3. ASSUME NEW w \in Workers, NEW t, Statement(w, t) PROVE Shapes'
  BY <1>3, OthersKept DEF Statement, Shapes
<1>4. ASSUME NEW w \in Workers, Finish(w) PROVE Shapes'
  BY <1>4, FinishKept, IdleShape DEF Shapes
<1>5. QED
  BY <1>1, <1>2, <1>3, <1>4, StepKinds

LEMMA RacesGrow ==
    ASSUME TxInv, Shapes, [Next]_vars
    PROVE  raced \subseteq raced'
  BY StepKinds, RacesRecorded DEF Arrives, Statement

-----------------------------------------------------------------------------
(* The status. *)

Moves(t) == t.edit.status # t.seen.status

\* What a COMMIT of the organizers' requests writes.
LEMMA ApplyColumns ==
    ASSUME TxInv, NEW w \in Workers, ApplyEdit(w)
    PROVE  /\ event'.status = IF Moves(tx[w]) THEN tx[w].edit.status ELSE event.status
           /\ event'.capacity = IF Resizes(tx[w]) THEN tx[w].edit.capacity
                                ELSE event.capacity
           /\ event'.is_deleted \in {tx[w].edit.is_deleted, event.is_deleted}
           /\ tx[w].edit.current_attendees = tx[w].seen.current_attendees =>
                event'.current_attendees = event.current_attendees
           /\ tx[w].pc = "apply" /\ row' = row
  BY DEF ApplyEdit, Column, Moves, Resizes

\* No other COMMIT writes more of the event than its counter.
LEMMA CounterOnly ==
    ASSUME TxInv, NEW w \in Workers, Ended(w), ~ApplyEdit(w)
    PROVE  /\ event'.status = event.status /\ event'.capacity = event.capacity
           /\ event'.is_deleted = event.is_deleted
<1>1. event \in Event
  BY DEF TxInv, TypeOK
<1>2. event' = event \/ \E n : event' = [event EXCEPT !.current_attendees = n]
  BY DEF Ended, Rollback, Registered, CommitRegistration, CancelWaitlisted,
     ReleaseSeat, Promote
<1>3. QED
  BY <1>1, <1>2 DEF Event

LEMMA StatusStep ==
    TxInv /\ Shapes /\ StatusApart /\ [Next]_vars => StatusApart'
<1> SUFFICES ASSUME TxInv, Shapes, StatusApart, [Next]_vars, "status" \notin raced'
             PROVE  /\ \A w, x \in Workers : Moves(tx'[w]) /\ Moves(tx'[x]) => w = x
                    /\ \A w \in Workers :
                         Moves(tx'[w]) => event'.status = tx'[w].seen.status
  BY DEF StatusApart, Moves
<1>0. /\ "status" \notin raced
      /\ \A w, x \in Workers : Moves(tx[w]) /\ Moves(tx[x]) => w = x
      /\ \A w \in Workers : Moves(tx[w]) => event.status = tx[w].seen.status
      /\ \A w \in Workers : tx[w].pc = "idle" => ~Moves(tx[w])
  BY RacesGrow, InvFacts DEF StatusApart, Moves, Shape, Edits
<1>1. CASE UNCHANGED <<event, row, tx, raced>>
  BY <1>0, <1>1
<1>2. ASSUME NEW w \in Workers, NEW t, Arrives(w, t)
      PROVE  /\ \A y, x \in Workers : Moves(tx'[y]) /\ Moves(tx'[x]) => y = x
             /\ \A x \in Workers :
                  Moves(tx'[x]) => event'.status = tx'[x].seen.status
  <2>1. /\ tx'[w] = t /\ \A x \in Workers : x # w => tx'[x] = tx[x]
        /\ event' = event /\ t.seen = event /\ tx[w].pc = "idle"
    BY <1>2, OthersKept DEF Arrives, Submit
  <2>2. ASSUME NEW x \in Workers, Moves(t), Moves(tx[x]) PROVE FALSE
    BY <1>0, <1>2, <2>2, RacesRecorded DEF Arrives, Harms, Moves, Races
  <2>3. QED
    BY <1>0, <2>1, <2>2
<1>3. ASSUME NEW w \in Workers, NEW t, Statement(w, t)
      PROVE  /\ \A y, x \in Workers : Moves(tx'[y]) /\ Moves(tx'[x]) => y = x
             /\ \A x \in Workers :
                  Moves(tx'[x]) => event'.status = tx'[x].seen.status
  BY <1>0, <1>3, OthersKept DEF Statement, SameRequest, Moves
<1>4. ASSUME NEW w \in Workers, Finish(w), Ended(w)
      PROVE  /\ \A y, x \in Workers : Moves(tx'[y]) /\ Moves(tx'[x]) => y = x
             /\ \A x \in Workers :
                  Moves(tx'[x]) => event'.status = tx'[x].seen.status
  <2>1. /\ ~Moves(tx'[w]) /\ \A x \in Workers : x # w => tx'[x] = tx[x]
    BY <1>4, FinishKept, IdleShape DEF Moves
  <2>2. event'.status # event.status => Moves(tx[w])
    BY <1>4, ApplyColumns, CounterOnly
  <2>3. QED
    BY <1>0, <2>1, <2>2
<1>5. QED
  BY <1>1, <1>2, <1>3, <1>4, StepKinds

\* An event that has ended keeps its status.
LEMMA EndedStays ==
    ASSUME TxInv, Shapes, StatusApart, [Next]_vars,
           event.status \in Terminal, "status" \notin raced
    PROVE  event'.status = event.status
<1>1. ASSUME NEW w \in Workers, Ended(w) PROVE event'.status = event.status
  <2>1. CASE ApplyEdit(w)
    BY <2>1, ApplyColumns, InvFacts DEF StatusApart, Moves, Shape
  <2>2. QED
    BY <1>1, <2>1, CounterOnly
<1>2. QED
  BY <1>1, StepKinds DEF Arrives, Submit, Statement

-----------------------------------------------------------------------------
(* Closing the event. *)

LEMMA ClosingStep ==
    TxInv /\ Shapes /\ ClosingApart /\ [Next]_vars => ClosingApart'
<1> SUFFICES ASSUME TxInv, Shapes, ClosingApart, [Next]_vars, "closing" \notin raced',
                    NEW w \in Workers, Attends(tx'[w])
             PROVE  /\ Open(event')
                    /\ \A x \in Workers : Edits(tx'[x]) => Open(tx'[x].edit)
  BY DEF ClosingApart, Open
<1>0. /\ "closing" \notin raced
      /\ \A y \in Workers : Attends(tx[y]) =>
            Open(event) /\ \A x \in Workers : Edits(tx[x]) => Open(tx[x].edit)
      /\ \A x \in Workers : tx[x].pc = "idle" => ~Edits(tx[x]) /\ ~Attends(tx[x])
  BY RacesGrow, InvFacts DEF ClosingApart, Shape, Edits, Attends
<1>1. CASE UNCHANGED <<event, row, tx, raced>>
  BY <1>0, <1>1
<1>2. ASSUME NEW y \in Workers, NEW t, Arrives(y, t)
      PROVE  /\ Open(event')
             /\ \A x \in Workers : Edits(tx'[x]) => Open(tx'[x].edit)
  <2>1. /\ tx'[y] = t /\ \A x \in Workers : x # y => tx'[x] = tx[x]
        /\ event' = event /\ tx[y].pc = "idle"
    BY <1>2, OthersKept DEF Arrives, Submit
  <2>2. ASSUME NEW x \in Workers, Attends(t), Edits(tx[x]), ~Open(tx[x].edit)
        PROVE  FALSE
    BY <1>0, <1>2, <2>2, RacesRecorded DEF Arrives, Harms, Races
  <2>3. ASSUME NEW x \in Workers, Edits(t), Attends(tx[x]), ~Open(t.edit)
        PROVE  FALSE
    BY <1>0, <1>2, <2>3, RacesRecorded DEF Arrives, Harms, Races
  <2>4. ~(Attends(t) /\ Edits(t)) /\ (Attends(t) => Open(event))
    BY <1>2 DEF Attends, Edits, Arrives
  <2>5. QED
    BY <1>0, <2>1, <2>2, <2>3, <2>4
<1>3. ASSUME NEW y \in Workers, NEW t, Statement(y, t)
      PROVE  /\ Open(event')
             /\ \A x \in Workers : Edits(tx'[x]) => Open(tx'[x].edit)
  BY <1>0, <1>3, OthersKept DEF Statement, SameRequest, Attends, Edits
<1>4. ASSUME NEW y \in Workers, Finish(y), Ended(y)
      PROVE  /\ Open(event')
             /\ \A x \in Workers : Edits(tx'[x]) => Open(tx'[x].edit)
  <2>1. /\ ~Edits(tx'[y]) /\ ~Attends(tx'[y])
        /\ \A x \in Workers : x # y => tx'[x] = tx[x]
    BY <1>4, FinishKept, IdleShape
  <2>2. Open(event) /\ \A x \in Workers : Edits(tx[x]) => Open(tx[x].edit)
    BY <1>0, <2>1
  <2>3. Open(event')
    <3>1. CASE ApplyEdit(y)
      <4>1. Edits(tx[y])
        BY <3>1, ApplyColumns, InvFacts DEF Shape
      <4>2. QED
        BY <2>2, <3>1, <4>1, ApplyColumns DEF Open
    <3>2. QED
      BY <1>4, <2>2, <3>1, CounterOnly DEF Open
  <2>4. QED
    BY <2>1, <2>2, <2>3
<1>5. QED
  BY <1>1, <1>2, <1>3, <1>4, StepKinds

\* Only requests for seats of an open event put somebody on the list.
LEMMA ListedWhileOpen ==
    ASSUME TxInv, Shapes, ClosingApart, [Next]_vars, "closing" \notin raced,
           row' # row
    PROVE  Open(event)
<1>1. ASSUME NEW w \in Workers, Ended(w) PROVE Attends(tx[w])
  BY <1>1, InvFacts DEF Ended, Rollback, Registered, CancelWaitlisted, ReleaseSeat,
     Promote, ApplyEdit, Shape, Attends
<1>2. QED
  BY <1>1, StepKinds DEF Arrives, Submit, Statement, ClosingApart

-----------------------------------------------------------------------------
(* Leaving the event. *)

LEMMA LeavingStep ==
    TxInv /\ Shapes /\ LeavingApart /\ [Next]_vars => LeavingApart'
<1> DEFINE Leaves(t) == t.kind = "unregister"
<1> SUFFICES ASSUME TxInv, Shapes, LeavingApart, [Next]_vars, "leaving" \notin raced'
             PROVE  /\ \A w, x \in Workers :
                         Leaves(tx'[w]) /\ Leaves(tx'[x]) => tx'[w].user = tx'[x].user
                    /\ \A w \in Workers :
                         tx'[w].pc = "promote" => row'[tx'[w].next] # "cancelled"
  BY DEF LeavingApart
<1>0. /\ "leaving" \notin raced
      /\ \A w, x \in Workers :
           Leaves(tx[w]) /\ Leaves(tx[x]) => tx[w].user = tx[x].user
      /\ \A w \in Workers : tx[w].pc = "promote" => row[tx[w].next] # "cancelled"
      /\ \A w \in Workers : tx[w].pc = "idle" => ~Leaves(tx[w])
      /\ \A w \in Workers : tx[w].pc = "promote" =>
            Leaves(tx[w]) /\ tx[w].next # tx[w].user /\ tx[w].next \in Users
      /\ row \in [Users -> RowStatus]
  BY RacesGrow, InvFacts DEF LeavingApart, Shape
<1>1. CASE UNCHANGED <<event, row, tx, raced>>
  BY <1>0, <1>1
<1>2. ASSUME NEW w \in Workers, NEW t, Arrives(w, t)
      PROVE  /\ \A y, x \in Workers :
                  Leaves(tx'[y]) /\ Leaves(tx'[x]) => tx'[y].user = tx'[x].user
             /\ \A y \in Workers :
                  tx'[y].pc = "promote" => row'[tx'[y].next] # "cancelled"
  <2>1. /\ tx'[w] = t /\ \A x \in Workers : x # w => tx'[x] = tx[x]
        /\ row' = row /\ t.pc # "promote"
    BY <1>2, OthersKept DEF Arrives, Submit
  <2>2. ASSUME NEW x \in Workers, Leaves(t), Leaves(tx[x]), t.user # tx[x].user
        PROVE  FALSE
    <3>1. "leaving" \in Harms(t, tx[x])
      BY <2>2 DEF Harms, Races
    <3>2. QED
      BY <1>0, <1>2, <2>2, <3>1, RacesRecorded DEF Arrives
  <2>3. QED
    BY <1>0, <2>1, <2>2
<1>3. ASSUME NEW w \in Workers, NEW t, Statement(w, t)
      PROVE  /\ \A y, x \in Workers :
                  Leaves(tx'[y]) /\ Leaves(tx'[x]) => tx'[y].user = tx'[x].user
             /\ \A y \in Workers :
                  tx'[y].pc = "promote" => row'[tx'[y].next] # "cancelled"
  BY <1>0, <1>3, OthersKept DEF Statement, SameRequest
<1>4. ASSUME NEW w \in Workers, Finish(w), Ended(w)
      PROVE  /\ \A y, x \in Workers :
                  Leaves(tx'[y]) /\ Leaves(tx'[x]) => tx'[y].user = tx'[x].user
             /\ \A y \in Workers :
                  tx'[y].pc = "promote" => row'[tx'[y].next] # "cancelled"
  <2>1. /\ tx'[w].pc = "idle" /\ ~Leaves(tx'[w])
        /\ \A x \in Workers : x # w => tx'[x] = tx[x]
    BY <1>4, FinishKept, IdleShape
  <2>2. ASSUME NEW u \in Users, row[u] # "cancelled", row'[u] = "cancelled"
        PROVE  Leaves(tx[w]) /\ u = tx[w].user
    BY <1>0, <1>4, <2>2, InvFacts
       DEF Ended, Rollback, Registered, CommitRegistration, CancelWaitlisted,
           ReleaseSeat, Promote, ApplyEdit, Shape
  <2>3. QED
    BY <1>0, <2>1, <2>2
<1>5. QED
  BY <1>1, <1>2, <1>3, <1>4, StepKinds

\* A user who has left comes back by an own registration.
LEMMA ComesBack ==
    ASSUME TxInv, Shapes, LeavingApart, [Next]_vars, "leaving" \notin raced,
           NEW u \in Users, row[u] = "cancelled", row'[u] \in Active
    PROVE  \E w \in Workers : tx[w].kind = "register" /\ tx[w].user = u
                                /\ tx'[w].pc = "idle"
<1>1. PICK w \in Workers : Finish(w) /\ Ended(w)
  BY StepKinds DEF Arrives, Submit, Statement, Active
<1>2. tx'[w].pc = "idle" /\ row \in [Users -> RowStatus]
  BY <1>1, FinishKept, IdleShape, InvFacts
<1>3. CASE Registered(w)
  BY <1>2, <1>3, InvFacts DEF Registered, CommitRegistration, Shape, Active
<1>4. CASE ~Registered(w)
  BY <1>1, <1>2, <1>4, InvFacts DEF LeavingApart, Ended, Rollback, CancelWaitlisted,
     ReleaseSeat, Promote, ApplyEdit, Active, Shape
<1>5. QED
  BY <1>3, <1>4

-----------------------------------------------------------------------------
(* The capacity. *)

LEMMA CapacityStep ==
    TxInv /\ Shapes /\ CapacityApart /\ [Next]_vars => CapacityApart'
<1> DEFINE Apart == /\ \A y, x \in Workers :
                         /\ Resizes(tx'[y]) /\ Resizes(tx'[x]) => y = x
                         /\ ~(Registers(tx'[y]) /\ Cuts(tx'[x]))
                    /\ \A y \in Workers :
                         /\ Resizes(tx'[y]) => event'.capacity = tx'[y].seen.capacity
                         /\ Registers(tx'[y]) => tx'[y].seen.capacity <= event'.capacity
<1> SUFFICES ASSUME TxInv, Shapes, CapacityApart, [Next]_vars, "capacity" \notin raced'
             PROVE  Apart
  BY DEF CapacityApart, Resizes, Registers, Cuts
<1>0. /\ "capacity" \notin raced
      /\ \A w, x \in Workers : Resizes(tx[w]) /\ Resizes(tx[x]) => w = x
      /\ \A w, x \in Workers : ~(Registers(tx[w]) /\ Cuts(tx[x]))
      /\ \A w \in Workers :
           /\ Resizes(tx[w]) => event.capacity = tx[w].seen.capacity
           /\ Registers(tx[w]) => tx[w].seen.capacity <= event.capacity
      /\ \A w \in Workers : tx[w].pc = "idle" => ~Resizes(tx[w]) /\ ~Registers(tx[w])
      /\ \A w \in Workers : /\ tx[w].seen.capacity \in Nat
                            /\ tx[w].edit.capacity \in Nat
      /\ event.capacity \in Nat
  <2>1. /\ "capacity" \notin raced
        /\ \A w, x \in Workers : Resizes(tx[w]) /\ Resizes(tx[x]) => w = x
        /\ \A w, x \in Workers : ~(Registers(tx[w]) /\ Cuts(tx[x]))
        /\ \A w \in Workers :
             /\ Resizes(tx[w]) => event.capacity = tx[w].seen.capacity
             /\ Registers(tx[w]) => tx[w].seen.capacity <= event.capacity
    BY RacesGrow DEF CapacityApart
  <2>2. \A w \in Workers : tx[w].pc = "idle" => ~Resizes(tx[w]) /\ ~Registers(tx[w])
    BY InvFacts DEF Shape, Edits, Resizes, Registers
  <2>3. /\ \A w \in Workers : /\ tx[w].seen.capacity \in Nat
                              /\ tx[w].edit.capacity \in Nat
        /\ event.capacity \in Nat
    BY InvFacts, BoundsAssumption DEF Event
  <2>4. QED
    BY <2>1, <2>2, <2>3
<1>1. CASE UNCHANGED <<event, row, tx, raced>>
  BY <1>0, <1>1
<1>2. ASSUME NEW w \in Workers, NEW t, Arrives(w, t)
      PROVE  Apart
  <2>1. /\ tx'[w] = t /\ \A x \in Workers : x # w => tx'[x] = tx[x]
        /\ event' = event /\ t.seen = event /\ tx[w].pc = "idle"
        /\ t.pc # "idle" /\ t.edit \in Event
    BY <1>2, OthersKept DEF Arrives, Submit
  <2>2. \A x \in Workers : Registers(tx[x]) \/ Resizes(tx[x]) => tx[x].pc # "idle"
    BY <1>0
  <2>3. \A x \in Workers : tx[x].pc # "idle" =>
          "capacity" \notin Harms(t, tx[x]) /\ "capacity" \notin Harms(tx[x], t)
    BY <1>2, RacesRecorded DEF Arrives
  <2>4. \A x \in Workers : tx[x].pc # "idle" =>
          /\ ~(Resizes(t) /\ Resizes(tx[x]))
          /\ ~(Registers(t) /\ Cuts(tx[x]))
          /\ ~(Registers(tx[x]) /\ Cuts(t))
    BY <2>3 DEF Harms, Races, Resizes, Registers, Cuts
  <2>5. \A x \in Workers : Cuts(tx[x]) => Resizes(tx[x])
    BY <1>0 DEF Cuts, Resizes
  <2>6. ~(Registers(t) /\ Cuts(t))
    BY <1>0, <1>2, <2>1 DEF Arrives, Shape, Registers, Edits, Cuts
  <2>7. QED
    BY <1>0, <2>1, <2>2, <2>4, <2>5, <2>6
<1>3. ASSUME NEW w \in Workers, NEW t, Statement(w, t)
      PROVE  Apart
  BY <1>0, <1>3, OthersKept DEF Statement, SameRequest, Resizes, Registers, Cuts
<1>4. ASSUME NEW w \in Workers, Finish(w), Ended(w)
      PROVE  Apart
  <2>1. /\ ~Resizes(tx'[w]) /\ ~Registers(tx'[w]) /\ ~Cuts(tx'[w])
        /\ \A x \in Workers : x # w => tx'[x] = tx[x]
    BY <1>4, FinishKept, IdleShape
  <2>2. CASE event'.capacity = event.capacity
    BY <1>0, <2>1, <2>2
  <2>3. CASE event'.capacity # event.capacity
    <3>1. Resizes(tx[w]) /\ event'.capacity = tx[w].edit.capacity
      BY <1>4, <2>3, ApplyColumns, CounterOnly
    <3>2. \A x \in Workers : x # w => ~Resizes(tx'[x])
      BY <1>0, <2>1, <3>1
    <3>3. \A x \in Workers : Registers(tx[x]) => event.capacity < event'.capacity
      BY <1>0, <3>1 DEF Cuts, Resizes
    <3>4. \A x \in Workers : Cuts(tx'[x]) => Resizes(tx'[x])
      BY <1>0, <2>1 DEF Cuts, Resizes
    <3>5. event'.capacity \in Nat
      BY <1>0, <3>1
    <3>6. QED
      BY <1>0, <2>1, <3>2, <3>3, <3>4, <3>5
  <2>4. QED
    BY <2>2, <2>3
<1>5. QED
  BY <1>1, <1>2, <1>3, <1>4, StepKinds

-----------------------------------------------------------------------------
(* The seats. *)

LEMMA SeatsFinite ==
    /\ IsFiniteSet(InStatus("registered"))
    /\ Cardinality(InStatus("registered")) \in Nat
<1>1. InStatus("registered") \subseteq Users
  BY DEF InStatus
<1>2. QED
  BY <1>1, UsersAssumption, FS_Subset, FS_CardinalityType

LEMMA SeatsFinitePrime ==
    /\ IsFiniteSet(InStatus("registered"))'
    /\ Cardinality(InStatus("registered"))' \in Nat
<1>1. InStatus("registered")' \subseteq Users
  BY DEF InStatus
<1>2. QED
  BY <1>1, UsersAssumption, FS_Subset, FS_CardinalityType

\* The registered rows after the row of u, or two rows, have been written.
LEMMA SeatGained ==
    ASSUME row \in [Users -> RowStatus], NEW u \in Users, row[u] # "registered",
           row' = [row EXCEPT ![u] = "registered"]
    PROVE  Cardinality(InStatus("registered"))'
             = Cardinality(InStatus("registered")) + 1
<1>1. InStatus("registered")' = InStatus("registered") \cup {u}
  BY DEF InStatus
<1>2. u \notin InStatus("registered")
  BY DEF InStatus
<1>3. QED
  BY <1>1, <1>2, SeatsFinite, FS_AddElement

LEMMA SeatLost ==
    ASSUME row \in [Users -> RowStatus], NEW u \in Users, row[u] = "registered",
           row' = [row EXCEPT ![u] = "cancelled"]
    PROVE  Cardinality(InStatus("registered"))'
             = Cardinality(InStatus("registered")) - 1
<1>1. InStatus("registered")' = InStatus("registered") \ {u}
  BY DEF InStatus
<1>2. u \in InStatus("registered")
  BY DEF InStatus
<1>3. QED
  BY <1>1, <1>2, SeatsFinite, FS_RemoveElement

LEMMA SeatPassedOn ==
    ASSUME row \in [Users -> RowStatus], NEW u \in Users, NEW v \in Users,
           row[u] = "registered", row[v] # "registered",
           row' = [row EXCEPT ![u] = "cancelled", ![v] = "registered"]
    PROVE  Cardinality(InStatus("registered"))'
             = Cardinality(InStatus("registered"))
<1> DEFINE S == InStatus("registered")
<1>1. InStatus("registered")' = (S \ {u}) \cup {v}
  BY DEF InStatus
<1>2. u \in S /\ v \notin S
  BY DEF InStatus
<1>3. IsFiniteSet(S \ {u}) /\ Cardinality(S \ {u}) = Cardinality(S) - 1
  BY <1>2, SeatsFinite, FS_RemoveElement
<1>4. Cardinality((S \ {u}) \cup {v}) = Cardinality(S \ {u}) + 1
  BY <1>2, <1>3, FS_AddElement
<1>5. Cardinality(S) \in Nat
  BY SeatsFinite
<1> HIDE DEF S
<1>6. Cardinality((S \ {u}) \cup {v}) = Cardinality(S)
  BY <1>3, <1>4, <1>5
<1>7. QED
  BY <1>1, <1>6 DEF S

LEMMA SeatsSame ==
    ASSUME row \in [Users -> RowStatus], NEW u \in Users, NEW s,
           row[u] = "registered" <=> s = "registered",
           row' = [row EXCEPT ![u] = s]
    PROVE  Cardinality(InStatus("registered"))'
             = Cardinality(InStatus("registered"))
<1>1. InStatus("registered")' = InStatus("registered")
  BY DEF InStatus
<1>2. QED
  BY <1>1

Counted == event.current_attendees = Cardinality(InStatus("registered"))

\* A registration is committed: the first of its copies takes the seat, the
\* others repeat what it did.
LEMMA RegisteredCounts ==
    ASSUME TxInv, Shapes, SeatsApart, "seats" \notin raced,
           NEW w \in Workers, Registered(w)
    PROVE  /\ Counted'
           /\ \A o : o.user = tx[w].user /\ o.seen = tx[w].seen => Repeated(o)'
<1> DEFINE t == tx[w]
           s == t.seen.current_attendees
<1>1. PICK ts : CommitRegistration(w, ts)
  BY DEF Registered
<1>2. /\ t.pc = "write" /\ Registers(t) /\ t.had \notin Active /\ t.user \in Users
      /\ row \in [Users -> RowStatus] /\ event \in Event
      /\ t.seen \in Event /\ s \in Int
  BY InvFacts DEF Registered, Shape, Registers, Event
<1>3. Counted /\ (Untouched(t) \/ Repeated(t))
  BY <1>2 DEF SeatsApart, Current, Counted
<1>4. row' = [row EXCEPT ![t.user] = IF Seated(t) THEN "registered" ELSE "waitlisted"]
  BY <1>1 DEF CommitRegistration
<1>5. event'.current_attendees = IF Seated(t) THEN s + 1 ELSE event.current_attendees
  BY <1>1, <1>2 DEF CommitRegistration, Event
<1>6. row'[t.user] = IF Seated(t) THEN "registered" ELSE "waitlisted"
  BY <1>2, <1>4
<1>7. event'.current_attendees = IF Seated(t) THEN s + 1 ELSE s
  BY <1>3, <1>5 DEF Untouched, Repeated
<1>8. \A o : o.user = t.user /\ o.seen = t.seen => Repeated(o)'
  BY <1>6, <1>7 DEF Repeated, Seated
<1>9. CASE Untouched(t)
  <2>1. row[t.user] # "registered" /\ event.current_attendees = s
    BY <1>2, <1>9 DEF Untouched, Active
  <2>2. CASE Seated(t)
    <3>1. row' = [row EXCEPT ![t.user] = "registered"]
      BY <1>4, <2>2
    <3>2. Cardinality(InStatus("registered"))' = Cardinality(InStatus("registered")) + 1
      BY <1>2, <2>1, <3>1, SeatGained
    <3>3. QED
      BY <1>3, <1>7, <1>8, <2>1, <2>2, <3>2 DEF Counted
  <2>3. CASE ~Seated(t)
    <3>1. row' = [row EXCEPT ![t.user] = "waitlisted"]
      BY <1>4, <2>3
    <3>2. Cardinality(InStatus("registered"))' = Cardinality(InStatus("registered"))
      BY <1>2, <2>1, <3>1, SeatsSame
    <3>3. QED
      BY <1>3, <1>7, <1>8, <2>1, <2>3, <3>2 DEF Counted
  <2>4. QED
    BY <2>2, <2>3
<1>10. CASE Repeated(t)
  <2>1. /\ row[t.user] = IF Seated(t) THEN "registered" ELSE "waitlisted"
        /\ event.current_attendees = IF Seated(t) THEN s + 1 ELSE s
    BY <1>10 DEF Repeated
  <2>2. Cardinality(InStatus("registered"))' = Cardinality(InStatus("registered"))
    BY <1>2, <1>4, <2>1, SeatsSame
  <2>3. event'.current_attendees = event.current_attendees
    BY <1>7, <2>1
  <2>4. QED
    BY <1>3, <1>8, <2>2, <2>3 DEF Counted
<1>11. QED
  BY <1>3, <1>8, <1>9, <1>10

\* A cancellation is committed.
LEMMA LeftCounts ==
    ASSUME TxInv, Shapes, SeatsApart, "seats" \notin raced, NEW w \in Workers,
           CancelWaitlisted(w) \/ ReleaseSeat(w) \/ Promote(w)
    PROVE  Counted'
<1> DEFINE t == tx[w]
<1>1. /\ t.kind = "unregister" /\ t.user \in Users
      /\ t.pc \in {"release", "promote"} => t.had = "registered"
      /\ t.pc = "promote" => t.next \in Users
      /\ row \in [Users -> RowStatus] /\ event \in Event /\ t.seen \in Event
  BY InvFacts DEF CancelWaitlisted, ReleaseSeat, Promote, Shape
<1>2. /\ Counted
      /\ event.current_attendees = t.seen.current_attendees
      /\ row[t.user] = t.had
      /\ t.pc = "promote" => row[t.next] = "waitlisted"
  BY <1>1 DEF SeatsApart, Current, Counted, CancelWaitlisted, ReleaseSeat, Promote
<1>3. CASE CancelWaitlisted(w)
  <2>1. /\ row' = [row EXCEPT ![t.user] = "cancelled"] /\ event' = event
        /\ row[t.user] = "waitlisted"
    BY <1>2, <1>3 DEF CancelWaitlisted
  <2>2. Cardinality(InStatus("registered"))' = Cardinality(InStatus("registered"))
    BY <1>1, <2>1, SeatsSame
  <2>3. QED
    BY <1>2, <2>1, <2>2 DEF Counted
<1>4. CASE ReleaseSeat(w)
  <2>1. /\ row' = [row EXCEPT ![t.user] = "cancelled"]
        /\ event'.current_attendees = t.seen.current_attendees - 1
        /\ row[t.user] = "registered"
    BY <1>1, <1>2, <1>4 DEF ReleaseSeat, Event
  <2>2. QED
    BY <1>1, <1>2, <2>1, SeatLost DEF Counted
<1>5. CASE Promote(w)
  <2>1. /\ row' = [row EXCEPT ![t.user] = "cancelled", ![t.next] = "registered"]
        /\ event'.current_attendees = t.seen.current_attendees
        /\ row[t.user] = "registered" /\ row[t.next] # "registered"
        /\ t.next \in Users
    BY <1>1, <1>2, <1>5 DEF Promote, Event
  <2>2. QED
    BY <1>1, <1>2, <2>1, SeatPassedOn DEF Counted
<1>6. QED
  BY <1>3, <1>4, <1>5

LEMMA SeatsStep ==
    TxInv /\ Shapes /\ SeatsApart /\ [Next]_vars => SeatsApart'
<1> SUFFICES ASSUME TxInv, Shapes, SeatsApart, [Next]_vars, "seats" \notin raced'
             PROVE  /\ Counted'
                    /\ \A y, x \in Workers : Copies(y, x)'
                    /\ \A x \in Workers : Current(tx[x])'
  BY DEF SeatsApart, Counted
<1>0. /\ "seats" \notin raced /\ Counted
      /\ \A y, x \in Workers : Copies(y, x)
      /\ \A x \in Workers : Current(tx[x])
      /\ \A x \in Workers : tx[x].pc = "idle" => ~Attends(tx[x])
  BY RacesGrow, InvFacts DEF SeatsApart, Counted, Shape, Attends
<1>1. CASE UNCHANGED <<event, row, tx, raced>>
  BY <1>0, <1>1 DEF Counted, InStatus, Copies, Current, Untouched, Repeated
<1>2. ASSUME NEW w \in Workers, NEW t, Arrives(w, t)
      PROVE  /\ Counted'
             /\ \A y, x \in Workers : Copies(y, x)'
             /\ \A x \in Workers : Current(tx[x])'
  <2>1. /\ tx'[w] = t /\ \A x \in Workers : x # w => tx'[x] = tx[x]
        /\ event' = event /\ row' = row /\ t.seen = event /\ t.pc \in {"select", "apply"}
    BY <1>2, OthersKept DEF Arrives, Submit
  <2>2. ASSUME NEW x \in Workers, Attends(t), Attends(tx[x])
        PROVE  /\ Registers(t) /\ Registers(tx[x])
               /\ t.user = tx[x].user /\ t.seen = tx[x].seen
    <3>1. "seats" \notin Harms(t, tx[x])
      BY <1>0, <1>2, <2>2, RacesRecorded DEF Arrives
    <3>2. QED
      BY <2>2, <3>1 DEF Harms, Races, Registers
  <2>3. \A y, x \in Workers : Copies(y, x)'
    BY <1>0, <2>1, <2>2 DEF Copies
  <2>4. \A x \in Workers : Current(tx[x])'
    BY <1>0, <2>1 DEF Current, Untouched, Repeated
  <2>5. QED
    BY <1>0, <2>1, <2>3, <2>4 DEF Counted, InStatus
<1>3. ASSUME NEW w \in Workers, NEW t, Statement(w, t)
      PROVE  /\ Counted'
             /\ \A y, x \in Workers : Copies(y, x)'
             /\ \A x \in Workers : Current(tx[x])'
  <2>1. /\ tx'[w] = t /\ \A x \in Workers : x # w => tx'[x] = tx[x]
        /\ event' = event /\ row' = row /\ SameRequest(tx[w], t)
    BY <1>3, OthersKept DEF Statement
  <2>2. \A y, x \in Workers : Copies(y, x)'
    BY <1>0, <2>1 DEF Copies, SameRequest, Attends, Registers
  <2>3. Current(t)
    <3>1. Current(tx[w]) /\ Shape(tx[w]) /\ Shape(t)
      BY <1>0, <1>3, InvFacts DEF Statement
    <3>2. QED
      BY <1>3, <2>1, <3>1 DEF Statement, Current, Shape, SameRequest, Untouched,
         Repeated, Seated, Registers, Active
  <2>4. \A x \in Workers : Current(tx[x])'
    BY <1>0, <2>1, <2>3 DEF Current, Untouched, Repeated
  <2>5. QED
    BY <1>0, <2>1, <2>2, <2>4 DEF Counted, InStatus
<1>4. ASSUME NEW w \in Workers, Finish(w), Ended(w)
      PROVE  /\ Counted'
             /\ \A y, x \in Workers : Copies(y, x)'
             /\ \A x \in Workers : Current(tx[x])'
  <2>1. /\ ~Attends(tx'[w]) /\ tx'[w].kind = "none"
        /\ \A x \in Workers : x # w => tx'[x] = tx[x]
    BY <1>4, FinishKept, IdleShape
  <2>2. \A y, x \in Workers : Copies(y, x)'
    BY <1>0, <2>1 DEF Copies
  <2>3. Current(tx[w])'
    BY <2>1 DEF Current, Registers
  <2>4. ASSUME row' = row, event'.current_attendees = event.current_attendees
        PROVE  Counted' /\ \A x \in Workers : x # w => Current(tx[x])'
    BY <1>0, <2>1, <2>4 DEF Counted, InStatus, Current, Untouched, Repeated
  <2>5. CASE Rollback(w)
    BY <2>2, <2>3, <2>4, <2>5 DEF Rollback
  <2>6. CASE ApplyEdit(w)
    BY <2>2, <2>3, <2>4, <2>6, ApplyColumns, InvFacts DEF Shape
  <2>7. CASE Registered(w)
    <3>1. /\ Counted'
          /\ \A o : o.user = tx[w].user /\ o.seen = tx[w].seen => Repeated(o)'
      BY <1>0, <2>7, RegisteredCounts
    <3>2. Registers(tx[w])
      BY <2>7, InvFacts DEF Registered, Shape, Registers
    <3>3. ASSUME NEW x \in Workers, x # w, Attends(tx[x])
          PROVE  /\ Registers(tx[x])
                 /\ tx[x].user = tx[w].user /\ tx[x].seen = tx[w].seen
      BY <1>0, <3>2, <3>3 DEF Copies, Attends, Registers
    <3>4. ASSUME NEW x \in Workers, x # w
          PROVE  Current(tx[x])'
      <4>1. CASE Attends(tx[x])
        <5>1. tx'[x] = tx[x] /\ tx[x].kind = "register"
          BY <2>1, <3>3, <3>4, <4>1 DEF Registers
        <5>2. Repeated(tx[x])'
          BY <3>1, <3>3, <3>4, <4>1, <5>1 DEF Repeated, Seated
        <5>3. QED
          BY <5>1, <5>2 DEF Current
      <4>2. CASE ~Attends(tx[x])
        BY <2>1, <3>4, <4>2 DEF Current, Attends, Registers
      <4>3. QED
        BY <4>1, <4>2
    <3>5. QED
      BY <2>2, <2>3, <3>1, <3>4
  <2>8. CASE CancelWaitlisted(w) \/ ReleaseSeat(w) \/ Promote(w)
    <3>1. Counted'
      BY <1>0, <2>8, LeftCounts
    <3>2. tx[w].kind = "unregister"
      BY <2>8, InvFacts DEF CancelWaitlisted, ReleaseSeat, Promote, Shape
    <3>3. \A x \in Workers : x # w => ~Attends(tx[x])
      BY <1>0, <3>2 DEF Copies, Attends, Registers
    <3>4. \A x \in Workers : x # w => Current(tx[x])'
      BY <2>1, <3>3 DEF Current, Attends, Registers
    <3>5. QED
      BY <2>2, <2>3, <3>1, <3>4
  <2>9. QED
    BY <1>4, <2>2, <2>3, <2>5, <2>6, <2>7, <2>8 DEF Ended
<1>5. QED
  BY <1>1, <1>2, <1>3, <1>4, StepKinds

-----------------------------------------------------------------------------
(* The seats and the capacity. *)

\* A request that ends takes a seat only if it has seen one that is there.
LEMMA CounterStep ==
    ASSUME TxInv, Shapes, SeatsApart, CapacityApart,
           raced \cap {"seats", "capacity"} = {},
           NEW w \in Workers, Ended(w), ~ApplyEdit(w)
    PROVE  \/ event'.current_attendees <= event.current_attendees
           \/ /\ event'.current_attendees <= event.capacity
              /\ \A x \in Workers : ~Cuts(tx[x])
<1> DEFINE t == tx[w]
<1>1. /\ event \in Event /\ t.seen \in Event /\ Shape(t)
      /\ event.current_attendees \in Int /\ t.seen.current_attendees \in Int
      /\ event.capacity \in Int /\ t.seen.capacity \in Int
  BY InvFacts, BoundsAssumption DEF Event
<1>2. CASE Rollback(w) \/ CancelWaitlisted(w)
  BY <1>1, <1>2 DEF Rollback, CancelWaitlisted
<1>3. CASE Registered(w)
  <2>1. Registers(t)
    BY <1>1, <1>3 DEF Registered, Shape, Registers
  <2>2. t.seen.capacity <= event.capacity /\ \A x \in Workers : ~Cuts(tx[x])
    BY <2>1 DEF CapacityApart
  <2>3. event'.current_attendees = IF Seated(t) THEN t.seen.current_attendees + 1
                                   ELSE event.current_attendees
    BY <1>1, <1>3 DEF Registered, CommitRegistration, Event
  <2>4. CASE Seated(t)
    <3>1. t.seen.current_attendees + 1 <= t.seen.capacity
      BY <1>1, <2>4 DEF Seated
    <3>2. QED
      BY <1>1, <2>2, <2>3, <2>4, <3>1
  <2>5. CASE ~Seated(t)
    BY <1>1, <2>3, <2>5
  <2>6. QED
    BY <2>4, <2>5
<1>4. CASE ReleaseSeat(w) \/ Promote(w)
  <2>1. t.kind = "unregister"
    BY <1>1, <1>4 DEF ReleaseSeat, Promote, Shape
  <2>2. event.current_attendees = t.seen.current_attendees
    BY <2>1 DEF SeatsApart, Current
  <2>3. event'.current_attendees
          \in {t.seen.current_attendees - 1, t.seen.current_attendees}
    BY <1>1, <1>4 DEF ReleaseSeat, Promote, Event
  <2>4. QED
    BY <1>1, <2>2, <2>3
<1>5. QED
  BY <1>2, <1>3, <1>4 DEF Ended

LEMMA CutsStep ==
    TxInv /\ Shapes /\ SeatsApart /\ CapacityApart /\ CutsFit /\ [Next]_vars => CutsFit'
<1> SUFFICES ASSUME TxInv, Shapes, SeatsApart, CapacityApart, CutsFit, [Next]_vars,
                    raced' \cap {"seats", "capacity"} = {}
             PROVE  /\ event'.current_attendees <= event'.capacity
                    /\ \A x \in Workers : Cuts(tx'[x]) =>
                         event'.current_attendees <= tx'[x].edit.capacity
  BY DEF CutsFit, Cuts
<1>0. /\ raced \cap {"seats", "capacity"} = {}
      /\ event.current_attendees <= event.capacity
      /\ \A x \in Workers : Cuts(tx[x]) =>
           event.current_attendees <= tx[x].edit.capacity
  BY RacesGrow DEF CutsFit
<1>1. /\ event.current_attendees \in Int /\ event.capacity \in Int
      /\ \A x \in Workers : tx[x].edit.capacity \in Int /\ tx[x].seen.capacity \in Int
  BY InvFacts, BoundsAssumption DEF Event
<1>2. CASE UNCHANGED <<event, row, tx, raced>>
  BY <1>0, <1>2
<1>3. ASSUME NEW w \in Workers, NEW t, Arrives(w, t)
      PROVE  /\ event'.current_attendees <= event'.capacity
             /\ \A x \in Workers : Cuts(tx'[x]) =>
                  event'.current_attendees <= tx'[x].edit.capacity
  <2>1. /\ tx'[w] = t /\ \A x \in Workers : x # w => tx'[x] = tx[x]
        /\ event' = event /\ t.seen = event /\ t.edit \in Event
        /\ Resizes(t) => event.current_attendees <= t.edit.capacity
    BY <1>3, OthersKept DEF Arrives, Submit
  <2>2. Cuts(t) => Resizes(t)
    BY <1>1, <2>1, BoundsAssumption DEF Cuts, Resizes, Event
  <2>3. QED
    BY <1>0, <2>1, <2>2
<1>4. ASSUME NEW w \in Workers, NEW t, Statement(w, t)
      PROVE  /\ event'.current_attendees <= event'.capacity
             /\ \A x \in Workers : Cuts(tx'[x]) =>
                  event'.current_attendees <= tx'[x].edit.capacity
  BY <1>0, <1>4, OthersKept DEF Statement, SameRequest, Cuts
<1>5. ASSUME NEW w \in Workers, Finish(w), Ended(w)
      PROVE  /\ event'.current_attendees <= event'.capacity
             /\ \A x \in Workers : Cuts(tx'[x]) =>
                  event'.current_attendees <= tx'[x].edit.capacity
  <2>1. ~Cuts(tx'[w]) /\ \A x \in Workers : x # w => tx'[x] = tx[x]
    BY <1>5, FinishKept, IdleShape
  <2>2. CASE ApplyEdit(w)
    <3>1. event'.current_attendees = event.current_attendees
      BY <2>2, ApplyColumns, InvFacts DEF Shape
    <3>2. event'.capacity = IF Resizes(tx[w]) THEN tx[w].edit.capacity
                            ELSE event.capacity
      BY <2>2, ApplyColumns
    <3>3. Resizes(tx[w]) => event.capacity = tx[w].seen.capacity
      BY <1>0 DEF CapacityApart
    <3>4. event.current_attendees <= event'.capacity
      BY <1>0, <1>1, <3>2, <3>3 DEF Resizes, Cuts
    <3>5. QED
      BY <1>0, <2>1, <3>1, <3>4
  <2>3. CASE ~ApplyEdit(w)
    <3>1. event'.capacity = event.capacity
      BY <1>5, <2>3, CounterOnly
    <3>2. \/ event'.current_attendees <= event.current_attendees
          \/ /\ event'.current_attendees <= event.capacity
             /\ \A x \in Workers : ~Cuts(tx[x])
      BY <1>0, <1>5, <2>3, CounterStep
    <3>3. event'.current_attendees \in Int
      BY NextInv DEF TxInv, TypeOK, Event
    <3>4. \A x \in Workers : Cuts(tx'[x]) => Cuts(tx[x]) /\ tx'[x] = tx[x]
      BY <2>1
    <3>5. QED
      BY <1>0, <1>1, <3>1, <3>2, <3>3, <3>4
  <2>4. QED
    BY <2>2, <2>3
<1>6. QED
  BY <1>2, <1>3, <1>4, <1>5, StepKinds

-----------------------------------------------------------------------------

LEMMA RaceInit == Init => RaceInv
<1> SUFFICES ASSUME Init PROVE RaceInv
  OBVIOUS
<1>1. TxInv
  BY InitType, InitLocks DEF TxInv
<1>2. \A w \in Workers : tx[w] = Idle(NoEvent)
  BY DEF Init, NothingRuns
<1>3. /\ event.current_attendees = Cardinality(InStatus("registered"))
      /\ event.current_attendees <= event.capacity
  <2>1. event \in [status : EventStatus \ Terminal, capacity : 1 .. MaxCapacity,
                   current_attendees : {Cardinality(InStatus("registered"))},
                   is_deleted : {FALSE}]
    BY Zenon DEF Init
  <2>2. event.current_attendees <= event.capacity
    BY Zenon DEF Init
  <2>3. QED
    BY <2>1, <2>2
<1>4. Shapes
  BY <1>2, IdleShape DEF Shapes
<1>5. SeatsApart
  BY <1>2, <1>3, IdleShape DEF SeatsApart, Copies, Current
<1>6. CapacityApart /\ CutsFit
  BY <1>2, <1>3, IdleShape DEF CapacityApart, CutsFit
<1>7. StatusApart /\ ClosingApart /\ LeavingApart
  BY <1>2, IdleShape DEF StatusApart, ClosingApart, LeavingApart
<1>8. QED
  BY <1>1, <1>4, <1>5, <1>6, <1>7 DEF RaceInv

LEMMA RaceStep == RaceInv /\ [Next]_vars => RaceInv'
  BY NextInv, ShapesStep, SeatsStep, CapacityStep, CutsStep, StatusStep, ClosingStep,
     LeavingStep DEF RaceInv

\* What each request still knows of the committed rows, overlap by overlap.
THEOREM RaceInvariant == Spec => []RaceInv
  BY RaceInit, RaceStep, PTL DEF Spec

\* The counter is the number of seats taken, and they fit the capacity, unless
\* the named overlaps happened: the copies of one registration, crashes and the
\* organizers' other edits never break it.
THEOREM SeatsStayRight == Spec => []SeatsRight
<1>1. RaceInv => SeatsRight
  BY DEF RaceInv, SeatsApart, CutsFit, SeatsRight, SeatsCounted, SeatsFit, NotOverbooked
<1>2. QED
  BY <1>1, RaceInvariant, PTL

\* An event that has ended stays as it ended, and nobody gets onto the list of
\* an event that is not open, unless the named overlaps happened.
THEOREM StatusHolds == Spec => StatusRespected
<1> DEFINE Step ==
      /\ event.status \in Terminal /\ "status" \notin raced
           => event'.status = event.status
      /\ \A u \in Users :
           row'[u] \in Active /\ row'[u] # row[u] /\ "closing" \notin raced
              => Open(event)
<1>1. RaceInv /\ [Next]_vars => Step
  BY EndedStays, ListedWhileOpen DEF RaceInv
<1>2. RaceInv /\ [Next]_vars => [Step]_vars
  BY <1>1
<1>3. QED
  BY <1>2, RaceInvariant, PTL DEF Spec, StatusRespected

\* A user who has left comes back by an own registration only, unless two
\* users gave up their seats at the same time.
THEOREM LeftHolds == Spec => LeftStaysOut
<1> DEFINE Step ==
      \A u \in Users :
        row[u] = "cancelled" /\ row'[u] \in Active /\ "leaving" \notin raced
           => \E w \in Workers : tx[w].kind = "register" /\ tx[w].user = u
                                   /\ tx'[w].pc = "idle"
<1>1. RaceInv /\ [Next]_vars => [Step]_vars
  BY ComesBack DEF RaceInv
<1>2. QED
  BY <1>1, RaceInvariant, PTL DEF Spec, LeftStaysOut

-----------------------------------------------------------------------------
(* Users that hold a seat and give it up, while others wait (SeatedSpec). *)

\* Only clients leave, each of them holds a seat or has left, and the next in
\* line is no client and still waits.
SeatedInv ==
    /\ TxInv /\ Shapes
    /\ \A c \in Clients : row[c] \in {"registered", "cancelled"}
    /\ \A w \in Workers : Attends(tx[w]) =>
         tx[w].kind = "unregister" /\ tx[w].user \in Clients
    /\ \A w \in Workers :
         tx[w].pc \in {"cancel", "release", "promote"} => tx[w].had = "registered"
    /\ \A w \in Workers : tx[w].pc = "promote" => row[tx[w].next] = "waitlisted"

LEMMA SeatedFirst == SeatedInit => SeatedInv
<1> SUFFICES ASSUME SeatedInit PROVE SeatedInv
  OBVIOUS
<1>1. TxInv /\ Shapes
  BY RaceInit DEF SeatedInit, RaceInv
<1>2. \A w \in Workers : tx[w] = Idle(NoEvent)
  BY DEF SeatedInit, Init, NothingRuns
<1>3. \A c \in Clients : row[c] = "registered"
  BY DEF SeatedInit, InStatus
<1>4. QED
  BY <1>1, <1>2, <1>3, IdleShape DEF SeatedInv

\* Without registrations the requests that write rows are those that leave.
LEMMA SeatedEnded ==
    ASSUME SeatedInv, NEW w \in Workers, Ended(w)
    PROVE  \/ row' = row
           \/ ReleaseSeat(w)
           \/ Promote(w)
  BY InvFacts DEF SeatedInv, Ended, Rollback, Registered, CancelWaitlisted,
     ApplyEdit, Shape, Attends

\* What a seated user's cancellation writes.
LEMMA SeatedWrites ==
    ASSUME SeatedInv, NEW w \in Workers, ReleaseSeat(w) \/ Promote(w)
    PROVE  /\ tx[w].user \in Clients /\ tx[w].user \in Users
           /\ row \in [Users -> RowStatus]
           /\ row[tx[w].user] \in {"registered", "cancelled"}
           /\ ReleaseSeat(w) => /\ row' = [row EXCEPT ![tx[w].user] = "cancelled"]
                                /\ InStatus("waitlisted") = {}
           /\ Promote(w) => /\ tx[w].next \in Users \ Clients
                            /\ row[tx[w].next] = "waitlisted"
                            /\ row' = [row EXCEPT ![tx[w].user] = "cancelled",
                                                  ![tx[w].next] = "registered"]
<1>1. /\ tx[w].user \in Clients /\ tx[w].user \in Users
      /\ row \in [Users -> RowStatus]
      /\ row[tx[w].user] \in {"registered", "cancelled"}
  BY InvFacts, UsersAssumption DEF SeatedInv, ReleaseSeat, Promote, Shape, Attends
<1>2. ReleaseSeat(w) => /\ row' = [row EXCEPT ![tx[w].user] = "cancelled"]
                        /\ InStatus("waitlisted") = {}
  BY <1>1 DEF ReleaseSeat, Waiting, InStatus
<1>3. Promote(w) => tx[w].next \in Users /\ row[tx[w].next] = "waitlisted"
  BY InvFacts DEF SeatedInv, Promote
<1>4. row[tx[w].next] = "waitlisted" => tx[w].next \notin Clients
  BY DEF SeatedInv
<1>5. QED
  BY <1>1, <1>2, <1>3, <1>4 DEF Promote

LEMMA SeatedStep ==
    ASSUME "register" \notin Kinds, SeatedInv, [Next]_vars
    PROVE  SeatedInv'
<1>0. /\ TxInv /\ Shapes
      /\ \A c \in Clients : row[c] \in {"registered", "cancelled"}
      /\ \A w \in Workers : Attends(tx[w]) =>
           tx[w].kind = "unregister" /\ tx[w].user \in Clients
      /\ \A w \in Workers :
           tx[w].pc \in {"cancel", "release", "promote"} => tx[w].had = "registered"
      /\ \A w \in Workers : tx[w].pc = "promote" => row[tx[w].next] = "waitlisted"
  BY DEF SeatedInv
<1>1. TxInv' /\ Shapes'
  BY <1>0, NextInv, ShapesStep
<1>2. CASE UNCHANGED <<event, row, tx, raced>>
  BY <1>0, <1>1, <1>2 DEF SeatedInv
<1>3. ASSUME NEW w \in Workers, NEW t, Arrives(w, t) PROVE SeatedInv'
  <2>1. /\ tx'[w] = t /\ \A x \in Workers : x # w => tx'[x] = tx[x]
        /\ row' = row /\ t.pc \in {"select", "apply"} /\ t.kind \in Kinds
        /\ Attends(t) => t.user \in Clients
    BY <1>0, <1>3, OthersKept DEF Arrives, Submit, Shape, Attends, Edits
  <2>2. Attends(t) => t.kind = "unregister"
    BY <2>1 DEF Attends
  <2>3. QED
    BY <1>0, <1>1, <2>1, <2>2 DEF SeatedInv
<1>4. ASSUME NEW w \in Workers, NEW t, Statement(w, t) PROVE SeatedInv'
  <2>1. /\ tx'[w] = t /\ \A x \in Workers : x # w => tx'[x] = tx[x]
        /\ row' = row /\ SameRequest(tx[w], t) /\ Shape(t) /\ Shape(tx[w])
    BY <1>0, <1>4, OthersKept, InvFacts DEF Statement
  <2>2. Attends(t) => t.kind = "unregister" /\ t.user \in Clients
    BY <1>0, <2>1 DEF SameRequest, Attends
  <2>3. t.pc \in {"cancel", "release", "promote"} => t.had = "registered"
    BY <1>0, <1>4, <2>1, <2>2 DEF Statement, Shape, Attends, Active
  <2>4. t.pc = "promote" => row[t.next] = "waitlisted"
    BY <1>4 DEF Statement
  <2>5. QED
    BY <1>0, <1>1, <2>1, <2>2, <2>3, <2>4 DEF SeatedInv
<1>5. ASSUME NEW w \in Workers, Finish(w), Ended(w) PROVE SeatedInv'
  <2>1. /\ tx'[w].pc = "idle" /\ ~Attends(tx'[w])
        /\ \A x \in Workers : x # w => tx'[x] = tx[x]
    BY <1>0, <1>5, FinishKept, IdleShape
  <2>2. /\ \A x \in Workers : Attends(tx'[x]) =>
             tx'[x].kind = "unregister" /\ tx'[x].user \in Clients
        /\ \A x \in Workers :
             tx'[x].pc \in {"cancel", "release", "promote"} => tx'[x].had = "registered"
    BY <1>0, <2>1
  <2>3. /\ \A c \in Clients : row'[c] \in {"registered", "cancelled"}
        /\ \A x \in Workers : tx'[x].pc = "promote" => row'[tx'[x].next] = "waitlisted"
    <3>1. CASE row' = row
      BY <1>0, <2>1, <3>1
    <3>2. CASE ReleaseSeat(w)
      <4>1. /\ tx[w].user \in Clients
            /\ row' = [row EXCEPT ![tx[w].user] = "cancelled"]
            /\ row \in [Users -> RowStatus] /\ InStatus("waitlisted") = {}
        BY <3>2, SeatedWrites
      <4>2. \A x \in Workers : tx[x].pc # "promote"
        BY <1>0, <4>1, InvFacts DEF InStatus
      <4>3. QED
        BY <1>0, <2>1, <4>1, <4>2, UsersAssumption
    <3>3. CASE Promote(w)
      <4>1. /\ tx[w].user \in Clients /\ tx[w].next \in Users \ Clients
            /\ row' = [row EXCEPT ![tx[w].user] = "cancelled",
                                  ![tx[w].next] = "registered"]
            /\ row \in [Users -> RowStatus]
        BY <3>3, SeatedWrites
      <4>2. \A x \in Workers : x # w => tx[x].pc # "promote"
        BY <1>0, <3>3 DEF Promote, TxInv, LocksMatchSteps
      <4>3. QED
        BY <1>0, <2>1, <4>1, <4>2, UsersAssumption
    <3>4. QED
      BY <1>5, <3>1, <3>2, <3>3, SeatedEnded
  <2>4. QED
    BY <1>1, <2>2, <2>3 DEF SeatedInv
<1>6. QED
  BY <1>0, <1>2, <1>3, <1>4, <1>5, StepKinds

\* The lock order: a promotion waits for nobody, a cancellation that holds its
\* row waits for a promotion, and one that waits for its row waits for those.
LEMMA NoCycle == SeatedInv => NeverDeadlocked
<1> SUFFICES ASSUME SeatedInv, NEW w \in Workers, InCycle(w) PROVE FALSE
  BY DEF NeverDeadlocked
<1>1. PICK S \in SUBSET {x \in Workers : Blocked(x)} :
        w \in S /\ {Blocker(x) : x \in S} = S
  BY DEF InCycle
<1>2. /\ TxInv /\ Shapes
      /\ \A x \in Workers : Shape(tx[x])
      /\ \A x \in Workers : tx[x].pc \notin {"seat", "write"}
      /\ \A x \in Workers : tx[x].pc \in {"cancel", "release", "promote"} =>
            tx[x].user \in Clients /\ tx[x].user \in Users
      /\ \A x \in Workers : tx[x].pc = "promote" =>
            tx[x].next \in Users /\ tx[x].next \notin Clients
  BY InvFacts DEF SeatedInv, Shape, Attends
<1>3. ASSUME NEW x \in S
      PROVE  /\ x \in Workers /\ Blocked(x)
             /\ lock[Needs(x)] \in S
  BY <1>1 DEF Blocker
<1>4. /\ \A x \in Workers : lock["event"] = x => tx[x].pc = "promote"
      /\ \A u \in Users, x \in Workers : lock[u] = x =>
            tx[x].user = u /\ tx[x].pc \in {"release", "promote"}
  BY <1>2 DEF TxInv, LocksMatchSteps
<1>5. \A x \in S : tx[x].pc # "promote"
  <2> SUFFICES ASSUME NEW x \in S, tx[x].pc = "promote" PROVE FALSE
    OBVIOUS
  <2>1. lock[tx[x].next] \in S
    BY <1>3 DEF Needs
  <2>2. QED
    BY <1>2, <1>3, <1>4, <2>1
<1>6. \A x \in S : tx[x].pc \notin {"release", "apply"}
  <2> SUFFICES ASSUME NEW x \in S, tx[x].pc \in {"release", "apply"} PROVE FALSE
    OBVIOUS
  <2>1. lock["event"] \in S
    BY <1>3 DEF Needs
  <2>2. QED
    BY <1>3, <1>4, <1>5, <2>1
<1>7. \A x \in S : tx[x].pc # "cancel"
  <2> SUFFICES ASSUME NEW x \in S, tx[x].pc = "cancel" PROVE FALSE
    OBVIOUS
  <2>1. lock[tx[x].user] \in S
    BY <1>3 DEF Needs
  <2>2. QED
    BY <1>2, <1>3, <1>4, <1>5, <1>6, <2>1
<1>8. \A x \in S : Needs(x) # Nobody
  BY <1>3 DEF Blocked
<1>9. QED
  BY <1>1, <1>2, <1>3, <1>5, <1>6, <1>7, <1>8 DEF Needs

\* Requests that give up seats, edits of the event and crashes never deadlock,
\* however many run at once and also when a user's request is sent twice.
THEOREM SeatedNeverDeadlock ==
    ASSUME "register" \notin Kinds
    PROVE  SeatedSpec => []NeverDeadlocked
<1>1. SeatedInv /\ [Next]_vars => SeatedInv'
  BY SeatedStep
<1>2. QED
  BY <1>1, SeatedFirst, NoCycle, PTL DEF SeatedSpec

\* While somebody waits, nobody is added to the waitlist and no seat is lost.
LEMMA SeatsHeld ==
    ASSUME SeatedInv, [Next]_vars, InStatus("waitlisted")' # {}
    PROVE  /\ InStatus("waitlisted") # {}
           /\ Cardinality(InStatus("registered"))'
                >= Cardinality(InStatus("registered"))
<1> DEFINE n == Cardinality(InStatus("registered"))
<1>0. n \in Nat
  BY SeatsFinite
<1>1. CASE row' = row
  BY <1>0, <1>1 DEF InStatus
<1>2. ASSUME NEW w \in Workers, ReleaseSeat(w) PROVE FALSE
  BY <1>2, SeatedWrites, UsersAssumption DEF InStatus
<1>3. ASSUME NEW w \in Workers, Promote(w)
      PROVE  InStatus("waitlisted") # {} /\ n' >= n
  <2>1. /\ row \in [Users -> RowStatus]
        /\ tx[w].user \in Users /\ tx[w].next \in Users /\ tx[w].user # tx[w].next
        /\ row[tx[w].next] = "waitlisted"
        /\ row[tx[w].user] \in {"registered", "cancelled"}
        /\ row' = [row EXCEPT ![tx[w].user] = "cancelled", ![tx[w].next] = "registered"]
    BY <1>3, SeatedWrites
  <2>2. InStatus("waitlisted") # {}
    BY <2>1 DEF InStatus
  <2>3. CASE row[tx[w].user] = "registered"
    <3>1. n' = n
      BY <2>1, <2>3, SeatPassedOn
    <3>2. QED
      BY <1>0, <2>2, <3>1
  <2>4. CASE row[tx[w].user] = "cancelled"
    <3>1. row' = [row EXCEPT ![tx[w].next] = "registered"]
      BY <2>1, <2>4
    <3>2. n' = n + 1
      BY <2>1, <3>1, SeatGained
    <3>3. QED
      BY <1>0, <2>2, <3>2
  <2>5. QED
    BY <2>1, <2>3, <2>4
<1>4. QED
  BY <1>1, <1>2, <1>3, StepKinds, SeatedEnded DEF SeatedInv, Arrives, Submit, Statement

\* The capacity is not raised while somebody waits: update_event promotes nobody.
NotRaised == InStatus("waitlisted") # {} => event'.capacity <= event.capacity

\* No seat stays free while somebody waits, however many users cancel at once:
\* two cancellations never hand their seats to one and the same user.
THEOREM SeatedStayFilled ==
    ASSUME "register" \notin Kinds
    PROVE  SeatedSpec /\ [][NotRaised]_vars => []SeatsStayFilled
<1>1. SeatedInit => SeatedInv /\ SeatsStayFilled
  BY SeatedFirst DEF SeatedInit
<1>2. ASSUME SeatedInv, SeatsStayFilled, [Next]_vars, [NotRaised]_vars
      PROVE  SeatedInv' /\ SeatsStayFilled'
  <2>1. SeatedInv'
    BY <1>2, SeatedStep
  <2> SUFFICES ASSUME InStatus("waitlisted")' # {}
               PROVE  Cardinality(InStatus("registered"))' >= event'.capacity
    BY <2>1 DEF SeatsStayFilled
  <2>2. /\ InStatus("waitlisted") # {}
        /\ Cardinality(InStatus("registered"))' >= Cardinality(InStatus("registered"))
    BY <1>2, SeatsHeld
  <2>3. Cardinality(InStatus("registered")) >= event.capacity
    BY <1>2, <2>2 DEF SeatsStayFilled
  <2>4. event'.capacity <= event.capacity
    <3>1. event.capacity \in Int
      BY <1>2, InvFacts, BoundsAssumption DEF SeatedInv, Event
    <3>2. QED
      BY <1>2, <2>2, <3>1 DEF NotRaised, vars
  <2>5. /\ event.capacity \in Int /\ event'.capacity \in Int
        /\ Cardinality(InStatus("registered")) \in Int
    BY <1>2, <2>1, InvFacts, BoundsAssumption, SeatsFinite
       DEF SeatedInv, TxInv, TypeOK, Event
  <2>6. Cardinality(InStatus("registered"))' \in Int
    BY <2>1, SeatsFinitePrime
  <2>7. QED
    BY <2>2, <2>3, <2>4, <2>5, <2>6
<1>3. QED
  BY <1>1, <1>2, PTL DEF SeatedSpec
-----------------------------------------------------------------------------
(* Requests that come one after the other implement Registration.           *)

ApartNext == \E w \in Workers : ArriveApart(w) \/ Advance(w) \/ Crash(w)

\* What the COMMIT of the registration t makes of its user and of the event.
Given(t) == IF Seated(t) THEN "registered" ELSE "waitlisted"
After(t) ==
    IF Seated(t)
    THEN [t.seen EXCEPT !.current_attendees = t.seen.current_attendees + 1]
    ELSE t.seen

\* What t asks for is what Registration allows for the event e.
Allowed(t, e) ==
    \/ \E s \in EventStatus, c \in 1 .. MaxCapacity :
         /\ ~e.is_deleted /\ e.status \notin Terminal
         /\ s = e.status \/ s \in STATUS_TRANSITIONS[e.status]
         /\ c = e.capacity \/ c >= e.current_attendees
         /\ t.edit = [e EXCEPT !.status = s, !.capacity = c]
    \/ /\ ~e.is_deleted /\ e.status = "draft"
       /\ t.edit = [e EXCEPT !.status = "upcoming"]
    \/ t.edit = [e EXCEPT !.is_deleted = TRUE]

\* What a registration t has read of the event e, the rows r, their timestamps at
\* and the clock is still so, or another copy has been committed that t, if it
\* reuses the row, can only repeat.
RegisterAgrees(t, e, r, at, now) ==
    /\ r[t.user] \notin Active => e = t.seen /\ Open(e)
    /\ t.pc \in {"seat", "write"} /\ r[t.user] \notin Active => r[t.user] = t.had
    /\ t.pc \in {"seat", "write"} /\ t.had = "cancelled" =>
         /\ t.stamp \in 1 .. now
         /\ \A v \in Users \ {t.user} : at[v] < t.stamp
         /\ r[t.user] \in Active =>
              /\ e = After(t) /\ r[t.user] = Given(t)
              /\ \A v \in Users \ {t.user} : at[v] < at[t.user]

\* What any other request has read is still so.
UnregisterAgrees(t, e, r, at) ==
    /\ e = t.seen /\ Open(e)
    /\ t.pc \in {"cancel", "release", "promote"} => r[t.user] = t.had
    /\ t.pc = "promote" =>
         /\ r[t.next] = "waitlisted"
         /\ \A v \in Users \ {t.user} : r[v] = "waitlisted" => at[t.next] <= at[v]

Agrees(t, e, r, at, now) ==
    /\ t.kind = "register" => RegisterAgrees(t, e, r, at, now)
    /\ t.kind = "unregister" => UnregisterAgrees(t, e, r, at)
    /\ Edits(t) => e = t.seen /\ Allowed(t, e)

\* Requests that overlap are copies of one registration.
Apart ==
    \A w, x \in Workers : w # x /\ tx[w].pc # "idle" /\ tx[x].pc # "idle" =>
        Registers(tx[w]) /\ Registers(tx[x]) /\ tx[w].user = tx[x].user

Stamped ==
    \A u \in Users : registered_at[u] <= clock /\ (registered_at[u] = 0 <=> row[u] = "none")

ApartRest ==
    /\ Apart /\ Stamped
    /\ \A w \in Workers : Agrees(tx[w], event, row, registered_at, clock)

ApartInv == TxInv /\ Shapes /\ ApartRest

LEMMA FreshIsInit == FreshInit => Init
<1> SUFFICES ASSUME FreshInit PROVE Init
  OBVIOUS
<1>1. /\ \A u \in Users : row[u] = "none" /\ registered_at[u] = 0
      /\ row = [u \in Users |-> "none"] /\ registered_at = [u \in Users |-> 0]
      /\ event \in [status : {"draft", "upcoming"}, capacity : 1 .. MaxCapacity,
                    current_attendees : {0}, is_deleted : {FALSE}]
      /\ clock = 0 /\ NothingRuns
  BY DEF FreshInit
<1>2. InStatus("registered") = {} /\ {u \in Users : row[u] # "none"} = {}
  BY <1>1 DEF InStatus
<1>3. Cardinality(InStatus("registered")) = 0 /\ Cardinality({u \in Users : row[u] # "none"}) = 0
  BY <1>2, FS_EmptySet
<1>4. event \in [status : EventStatus \ Terminal, capacity : 1 .. MaxCapacity,
                 current_attendees : {Cardinality(InStatus("registered"))},
                 is_deleted : {FALSE}]
  BY <1>1, <1>3 DEF EventStatus, Terminal
<1>5. event.current_attendees <= event.capacity
  BY <1>1, BoundsAssumption
<1>6. row \in [Users -> RowStatus] /\ registered_at \in [Users -> 0 .. clock]
  BY <1>1 DEF RowStatus
<1>7. QED
  BY <1>1, <1>3, <1>4, <1>5, <1>6 DEF Init

LEMMA IdleAgrees ==
    ASSUME NEW e, NEW r, NEW at, NEW now
    PROVE  Agrees(Idle(NoEvent), e, r, at, now)
  BY IdleShape DEF Agrees, Registers, Idle

LEMMA ApartFirst == FreshInit => ApartInv
<1> SUFFICES ASSUME FreshInit PROVE ApartInv
  OBVIOUS
<1>1. Init /\ RaceInv
  BY FreshIsInit, RaceInit
<1>2. TxInv /\ Shapes
  BY <1>1 DEF RaceInv
<1>3. \A w \in Workers : tx[w] = Idle(NoEvent)
  BY DEF FreshInit, NothingRuns
<1>4. Apart
  BY <1>3, IdleShape DEF Apart
<1>5. Stamped
  BY DEF FreshInit, Stamped
<1>6. QED
  BY <1>2, <1>3, <1>4, <1>5, IdleAgrees DEF ApartInv, ApartRest

\* What is known of the requests and of their types.
LEMMA ApartFacts ==
    ASSUME ApartInv
    PROVE  /\ TxInv /\ Shapes /\ Apart /\ Stamped
           /\ event \in Event /\ row \in [Users -> RowStatus]
           /\ registered_at \in [Users -> Nat] /\ clock \in Nat
           /\ tx \in [Workers -> Transaction]
           /\ \A w \in Workers :
                /\ tx[w] \in TransactionRecord /\ Shape(tx[w])
                /\ tx[w].seen \in Event /\ tx[w].edit \in Event
                /\ tx[w].pc \notin {"idle", "apply"} => tx[w].user \in Users
                /\ Agrees(tx[w], event, row, registered_at, clock)
<1>1. TxInv /\ Shapes
  BY DEF ApartInv
<1>2. registered_at \in [Users -> Nat] /\ clock \in Nat
  BY <1>1 DEF TxInv, TypeOK
<1>3. QED
  BY <1>1, <1>2, InvFacts DEF ApartInv, ApartRest

-----------------------------------------------------------------------------
(* What Registration sees of a step. *)

\* Nothing, if the rows and the order of their timestamps stay.
Before(at) ==
    {p \in Users \X Users : at[p[1]] # 0 /\ at[p[2]] # 0 /\ at[p[1]] < at[p[2]]}

LEMMA Unseen ==
    ASSUME event' = event, row' = row, Before(registered_at)' = Before(registered_at)
    PROVE  UNCHANGED R!vars
  BY DEF R!vars, Before

\* The row that is stamped last comes after all others.
LEMMA StampsLast ==
    ASSUME registered_at \in [Users -> Nat], Stamped, NEW u \in Users, NEW ts \in Nat \ {0},
           registered_at' = [registered_at EXCEPT ![u] = ts],
           \A v \in Users \ {u} : registered_at[v] < ts
    PROVE  Before(registered_at)' =
             {p \in Before(registered_at) : p[1] # u /\ p[2] # u}
               \cup {<<v, u>> : v \in {v \in Users \ {u} : row[v] # "none"}}
<1> DEFINE at == registered_at
           new == registered_at'
           Last == {p \in Before(at) : p[1] # u /\ p[2] # u}
                     \cup {<<v, u>> : v \in {v \in Users \ {u} : row[v] # "none"}}
<1>1. /\ new[u] = ts /\ \A v \in Users \ {u} : new[v] = at[v]
      /\ \A v \in Users : at[v] \in Nat /\ new[v] \in Nat /\ (at[v] = 0 <=> row[v] = "none")
  BY DEF Stamped
<1>2. Before(at)' = {p \in Users \X Users : new[p[1]] # 0 /\ new[p[2]] # 0 /\ new[p[1]] < new[p[2]]}
  BY DEF Before
<1>3. ASSUME NEW a \in Users, NEW b \in Users
      PROVE  <<a, b>> \in Before(at)' <=> <<a, b>> \in Last
  <2>1. <<a, b>> \in Before(at)' <=> new[a] # 0 /\ new[b] # 0 /\ new[a] < new[b]
    BY <1>2
  <2>2. <<a, b>> \in Before(at) <=> at[a] # 0 /\ at[b] # 0 /\ at[a] < at[b]
    BY DEF Before
  <2>3. <<a, b>> \in Last <=>
          \/ <<a, b>> \in Before(at) /\ a # u /\ b # u
          \/ b = u /\ a # u /\ row[a] # "none"
    OBVIOUS
  <2>4. QED
    BY <1>1, <2>1, <2>2, <2>3
<1>4. Before(at)' \subseteq Users \X Users
  BY <1>2
<1>5. Last \subseteq Users \X Users
  <2>1. {p \in Before(at) : p[1] # u /\ p[2] # u} \subseteq Users \X Users
    BY DEF Before
  <2>2. {<<v, u>> : v \in {v \in Users \ {u} : row[v] # "none"}} \subseteq Users \X Users
    OBVIOUS
  <2>3. QED
    BY <2>1, <2>2
<1> HIDE DEF Last
<1>6. ASSUME NEW p \in Users \X Users
      PROVE  p \in Before(at)' <=> p \in Last
  <2>1. PICK a \in Users, b \in Users : p = <<a, b>>
    OBVIOUS
  <2>2. <<a, b>> \in Before(at)' <=> <<a, b>> \in Last
    BY <1>3
  <2>3. QED
    BY <2>1, <2>2
<1>7. Before(at)' = Last
  BY <1>4, <1>5, <1>6
<1>8. QED
  BY <1>7 DEF Last

\* A row that comes after all others, stamped again.
LEMMA StampsAgain ==
    ASSUME registered_at \in [Users -> Nat], NEW u \in Users, NEW ts \in Nat \ {0},
           registered_at' = [registered_at EXCEPT ![u] = ts],
           \A v \in Users \ {u} : registered_at[v] < ts,
           \A v \in Users \ {u} : registered_at[v] < registered_at[u],
           registered_at[u] # 0
    PROVE  Before(registered_at)' = Before(registered_at)
<1> DEFINE at == registered_at
           new == registered_at'
<1>1. /\ new[u] = ts /\ \A v \in Users \ {u} : new[v] = at[v]
      /\ \A v \in Users : at[v] \in Nat /\ new[v] \in Nat
  OBVIOUS
<1>2. Before(at)' = {p \in Users \X Users : new[p[1]] # 0 /\ new[p[2]] # 0 /\ new[p[1]] < new[p[2]]}
  BY DEF Before
<1>3. ASSUME NEW a \in Users, NEW b \in Users
      PROVE  (new[a] # 0 /\ new[b] # 0 /\ new[a] < new[b])
               <=> (at[a] # 0 /\ at[b] # 0 /\ at[a] < at[b])
  BY <1>1
<1>4. QED
  BY <1>2, <1>3 DEF Before

-----------------------------------------------------------------------------
(* The steps that Registration does not see. *)

LEMMA NoneAgrees ==
    ASSUME NEW t, t.kind = "none", NEW e, NEW r, NEW at, NEW now
    PROVE  Agrees(t, e, r, at, now)
  BY DEF Agrees, Edits

LEMMA KindAgrees ==
    ASSUME NEW t, NEW e, NEW r, NEW at, NEW now
    PROVE  /\ t.kind = "register" =>
                (Agrees(t, e, r, at, now) <=> RegisterAgrees(t, e, r, at, now))
           /\ t.kind = "unregister" =>
                (Agrees(t, e, r, at, now) <=> UnregisterAgrees(t, e, r, at))
           /\ Edits(t) =>
                (Agrees(t, e, r, at, now) <=> (e = t.seen /\ Allowed(t, e)))
  BY DEF Agrees, Edits

LEMMA LaterAgrees ==
    ASSUME NEW t, NEW e, NEW r, NEW at, NEW now \in Nat, NEW later \in Nat,
           Agrees(t, e, r, at, now), now <= later
    PROVE  Agrees(t, e, r, at, later)
  BY DEF Agrees, RegisterAgrees

\* A worker that goes on with its request, or ends it, overlaps no one new.
LEMMA ApartKept ==
    ASSUME Apart, NEW w \in Workers, \A x \in Workers : x # w => tx'[x] = tx[x],
           tx'[w].pc = "idle" \/ (tx[w].pc # "idle" /\ tx'[w].kind = tx[w].kind
                                    /\ tx'[w].user = tx[w].user)
    PROVE  Apart'
  BY DEF Apart, Registers

\* A request that is no registration runs alone.
LEMMA Alone ==
    ASSUME ApartInv, NEW w \in Workers, tx[w].pc # "idle", ~Registers(tx[w]),
           NEW x \in Workers, x # w
    PROVE  tx[x].pc = "idle" /\ tx[x].kind = "none"
  BY ApartFacts DEF Apart, Shape

LEMMA RollbackApart ==
    ASSUME ApartInv, NEW w \in Workers, Rollback(w)
    PROVE  ApartRest' /\ UNCHANGED R!vars
<1>1. /\ UNCHANGED <<event, row, registered_at, clock>> /\ tx'[w] = Idle(NoEvent)
      /\ \A x \in Workers : x # w => tx'[x] = tx[x]
  BY ApartFacts, FinishKept DEF Rollback
<1>2. Apart'
  BY <1>1, ApartFacts, ApartKept, IdleShape
<1>3. Stamped'
  BY <1>1, ApartFacts DEF Stamped
<1>4. ASSUME NEW x \in Workers
      PROVE  Agrees(tx'[x], event', row', registered_at', clock')
  BY <1>1, ApartFacts, IdleAgrees
<1>5. UNCHANGED R!vars
  BY <1>1, Unseen DEF Before
<1>6. QED
  BY <1>2, <1>3, <1>4, <1>5 DEF ApartRest

\* An edit that arrives asks for what Registration allows.
LEMMA ArrivesAllowed ==
    ASSUME TxInv, NEW w \in Workers, Arrive(w), Edits(tx'[w])
    PROVE  Allowed(tx'[w], event)
<1>1. ASSUME NEW kind, NEW e, BeginEdit(w, kind, e)
      PROVE  tx'[w].edit = e
  <2>1. tx' = [tx EXCEPT ![w] =
                 [Idle(event) EXCEPT !.pc = "apply", !.kind = kind, !.edit = e]]
    BY <1>1 DEF BeginEdit, Submit
  <2>2. tx'[w] = [Idle(event) EXCEPT !.pc = "apply", !.kind = kind, !.edit = e]
    BY <2>1, OthersKept
  <2>3. QED
    BY <2>2 DEF Idle
<1>2. ASSUME NEW kind, NEW u, BeginAttendance(w, kind, u)
      PROVE  FALSE
  <2>1. /\ tx' = [tx EXCEPT ![w] =
                   [Idle(event) EXCEPT !.pc = "select", !.kind = kind, !.user = u]]
        /\ kind \in {"register", "unregister"}
    BY <1>2 DEF BeginAttendance, Submit
  <2>2. tx'[w] = [Idle(event) EXCEPT !.pc = "select", !.kind = kind, !.user = u]
    BY <2>1, OthersKept
  <2>3. tx'[w].kind = kind
    BY <2>2 DEF Idle
  <2>4. QED
    BY <2>1, <2>3 DEF Edits
<1>3. ASSUME NEW s \in EventStatus, NEW c \in 1 .. MaxCapacity, BeginUpdate(w, s, c)
      PROVE  Allowed(tx'[w], event)
  BY <1>1, <1>3 DEF BeginUpdate, Allowed
<1>4. CASE BeginPublish(w)
  BY <1>1, <1>4 DEF BeginPublish, Allowed
<1>5. CASE BeginDelete(w)
  BY <1>1, <1>5 DEF BeginDelete, Allowed
<1>6. QED
  BY <1>2, <1>3, <1>4, <1>5 DEF Arrive

LEMMA ArrivalApart ==
    ASSUME ApartInv, NEW w \in Workers, ArriveApart(w)
    PROVE  ApartRest' /\ UNCHANGED R!vars
<1>1. PICK t : Arrives(w, t)
  BY ApartFacts, ArrivesAs DEF ArriveApart
<1>2. /\ UNCHANGED <<event, row, registered_at, clock>> /\ tx'[w] = t
      /\ \A x \in Workers : x # w => tx'[x] = tx[x]
      /\ t.seen = event /\ t.pc \in {"select", "apply"}
      /\ Attends(t) => Open(event) /\ t.pc = "select"
      /\ t.pc = "apply" <=> Edits(t)
  <2>1. UNCHANGED <<event, row, registered_at, clock>> /\ tx' = [tx EXCEPT ![w] = t]
    BY <1>1 DEF Arrives, Submit
  <2>2. tx'[w] = t /\ \A x \in Workers : x # w => tx'[x] = tx[x]
    BY <2>1, ApartFacts, OthersKept
  <2>3. /\ t.seen = event /\ t.pc \in {"select", "apply"}
        /\ Attends(t) => Open(event) /\ t.pc = "select"
        /\ t.pc = "apply" <=> Edits(t)
    BY <1>1 DEF Arrives, Shape, Attends, Edits
  <2>4. QED
    BY <2>1, <2>2, <2>3
<1>3. Edits(t) => Allowed(t, event)
  BY <1>2, ApartFacts, ArrivesAllowed DEF ArriveApart
<1>4. Agrees(t, event, row, registered_at, clock)
  BY <1>2, <1>3 DEF Agrees, RegisterAgrees, UnregisterAgrees, Attends
<1>5. ASSUME NEW x \in Workers
      PROVE  Agrees(tx'[x], event', row', registered_at', clock')
  BY <1>2, <1>4, ApartFacts
<1>6. Apart'
  <2>1. \A x \in Workers : x # w /\ tx[x].pc # "idle" =>
          Registers(tx[x]) /\ Registers(tx'[w]) /\ tx[x].user = tx'[w].user
    BY DEF ArriveApart, Registers
  <2>2. QED
    BY <1>2, <2>1, ApartFacts DEF Apart
<1>7. Stamped'
  BY <1>2, ApartFacts DEF Stamped
<1>8. UNCHANGED R!vars
  BY <1>2, Unseen DEF Before
<1>9. QED
  BY <1>5, <1>6, <1>7, <1>8 DEF ApartRest

\* A statement of w before its COMMIT.
LEMMA StatementApart ==
    ASSUME ApartInv, NEW w \in Workers, NEW t,
           tx' = [tx EXCEPT ![w] = t], SameRequest(tx[w], t), tx[w].pc # "idle",
           UNCHANGED <<event, row, registered_at>>, clock' \in Nat, clock <= clock',
           Agrees(t, event, row, registered_at, clock')
    PROVE  ApartRest' /\ UNCHANGED R!vars
<1>1. tx'[w] = t /\ \A x \in Workers : x # w => tx'[x] = tx[x]
  BY ApartFacts, OthersKept
<1>2. Apart'
  BY <1>1, ApartFacts, ApartKept DEF SameRequest
<1>3. Stamped'
  <2>1. \A u \in Users : registered_at[u] \in Nat /\ clock \in Nat
    BY ApartFacts
  <2>2. QED
    BY <2>1, ApartFacts DEF Stamped
<1>4. ASSUME NEW x \in Workers
      PROVE  Agrees(tx'[x], event', row', registered_at', clock')
  <2>1. CASE x = w
    BY <2>1, <1>1
  <2>2. CASE x # w
    BY <2>2, <1>1, ApartFacts, LaterAgrees
  <2>3. QED
    BY <2>1, <2>2
<1>5. UNCHANGED R!vars
  BY Unseen DEF Before
<1>6. QED
  BY <1>2, <1>3, <1>4, <1>5 DEF ApartRest

LEMMA QuietStatementApart ==
    ASSUME ApartInv, NEW w \in Workers, NEW t,
           tx' = [tx EXCEPT ![w] = t], SameRequest(tx[w], t), tx[w].pc # "idle",
           UNCHANGED <<event, row, registered_at, clock>>,
           Agrees(t, event, row, registered_at, clock)
    PROVE  ApartRest' /\ UNCHANGED R!vars
<1>1. clock' \in Nat /\ clock <= clock' /\ clock' = clock
  BY ApartFacts
<1>2. Agrees(t, event, row, registered_at, clock')
  BY <1>1
<1>3. UNCHANGED <<event, row, registered_at>>
  OBVIOUS
<1>4. QED
  BY <1>1, <1>2, <1>3, StatementApart

LEMMA SelectForRegisterApart ==
    ASSUME ApartInv, NEW w \in Workers, SelectForRegister(w)
    PROVE  ApartRest' /\ UNCHANGED R!vars
<1> DEFINE t == [tx[w] EXCEPT !.had = row[tx[w].user], !.stamp = clock',
                              !.pc = IF Seated(tx[w]) THEN "seat" ELSE "write"]
<1>1. /\ tx' = [tx EXCEPT ![w] = t] /\ UNCHANGED <<event, row, registered_at>>
      /\ tx[w].pc = "select" /\ tx[w].kind = "register" /\ row[tx[w].user] \notin Active
      /\ clock' = IF row[tx[w].user] = "none" THEN clock ELSE clock + 1
  BY DEF SelectForRegister
<1>2. /\ tx[w] \in TransactionRecord /\ tx[w].user \in Users /\ clock \in Nat
      /\ Agrees(tx[w], event, row, registered_at, clock)
  BY <1>1, ApartFacts
<1>3. /\ SameRequest(tx[w], t) /\ t.pc \in {"seat", "write"} /\ t.kind = "register"
      /\ t.had = row[tx[w].user] /\ t.stamp = clock' /\ t.user = tx[w].user
      /\ t.seen = tx[w].seen
  BY <1>1, <1>2 DEF TransactionRecord, SameRequest
<1> HIDE DEF t
<1>4. event = t.seen /\ Open(event)
  BY <1>1, <1>2, <1>3, KindAgrees DEF RegisterAgrees
<1>5. \A v \in Users : registered_at[v] \in Nat /\ registered_at[v] <= clock
  BY ApartFacts DEF Stamped
<1>6. row[t.user] \in {"none", "cancelled"}
  BY <1>1, <1>2, <1>3, ApartFacts DEF RowStatus, Active
<1>7. t.had = "cancelled" => clock' = clock + 1 /\ clock' \in 1 .. clock'
                              /\ \A v \in Users : registered_at[v] < clock'
  BY <1>1, <1>2, <1>3, <1>5
<1>8. Agrees(t, event, row, registered_at, clock')
  <2>1. RegisterAgrees(t, event, row, registered_at, clock')
    BY <1>1, <1>3, <1>4, <1>6, <1>7 DEF RegisterAgrees
  <2>2. QED
    BY <1>3, <2>1, KindAgrees
<1>9. clock' \in Nat /\ clock <= clock'
  BY <1>1, <1>2
<1>10. QED
  BY <1>1, <1>3, <1>8, <1>9, StatementApart

LEMMA TakeSeatApart ==
    ASSUME ApartInv, NEW w \in Workers, TakeSeat(w)
    PROVE  ApartRest' /\ UNCHANGED R!vars
<1> DEFINE t == [tx[w] EXCEPT !.pc = "write"]
<1>1. /\ tx' = [tx EXCEPT ![w] = t] /\ UNCHANGED <<event, row, registered_at, clock>>
      /\ tx[w].pc = "seat"
  BY DEF TakeSeat
<1>2. /\ tx[w] \in TransactionRecord /\ clock \in Nat /\ Shape(tx[w])
      /\ Agrees(tx[w], event, row, registered_at, clock)
  BY ApartFacts
<1>3. /\ SameRequest(tx[w], t) /\ t.pc = "write" /\ t.kind = tx[w].kind
      /\ t.had = tx[w].had /\ t.stamp = tx[w].stamp /\ t.user = tx[w].user
      /\ t.seen = tx[w].seen /\ tx[w].kind = "register"
  BY <1>1, <1>2 DEF TransactionRecord, SameRequest, Shape
<1> HIDE DEF t
<1>4. After(t) = After(tx[w]) /\ Given(t) = Given(tx[w])
  BY <1>3 DEF After, Given, Seated
<1>5. Agrees(t, event, row, registered_at, clock)
  <2>1. RegisterAgrees(tx[w], event, row, registered_at, clock)
    BY <1>2, <1>3, KindAgrees
  <2>2. RegisterAgrees(t, event, row, registered_at, clock)
    BY <1>1, <1>3, <1>4, <2>1 DEF RegisterAgrees
  <2>3. QED
    BY <1>3, <2>2, KindAgrees
<1>6. QED
  BY <1>1, <1>3, <1>5, QuietStatementApart

LEMMA LeavingApartSteps ==
    ASSUME ApartInv, NEW w \in Workers,
           SelectForUnregister(w) \/ CancelRegistered(w) \/ ChooseNext(w)
    PROVE  ApartRest' /\ UNCHANGED R!vars
<1>1. /\ tx[w] \in TransactionRecord /\ clock \in Nat /\ Shape(tx[w])
      /\ Agrees(tx[w], event, row, registered_at, clock)
  BY ApartFacts
<1>2. CASE SelectForUnregister(w)
  <2> DEFINE t == [tx[w] EXCEPT !.had = row[tx[w].user], !.pc = "cancel"]
  <2>1. /\ tx' = [tx EXCEPT ![w] = t] /\ UNCHANGED <<event, row, registered_at, clock>>
        /\ tx[w].pc = "select" /\ tx[w].kind = "unregister"
    BY <1>2 DEF SelectForUnregister
  <2>2. /\ SameRequest(tx[w], t) /\ t.pc = "cancel" /\ t.kind = "unregister"
        /\ t.had = row[tx[w].user] /\ t.user = tx[w].user /\ t.seen = tx[w].seen
    BY <1>1, <2>1 DEF TransactionRecord, SameRequest
  <2> HIDE DEF t
  <2>3. Agrees(t, event, row, registered_at, clock)
    <3>1. UnregisterAgrees(tx[w], event, row, registered_at)
      BY <1>1, <2>1, KindAgrees
    <3>2. UnregisterAgrees(t, event, row, registered_at)
      BY <2>1, <2>2, <3>1 DEF UnregisterAgrees
    <3>3. QED
      BY <2>2, <3>2, KindAgrees
  <2>4. QED
    BY <2>1, <2>2, <2>3, QuietStatementApart
<1>3. CASE CancelRegistered(w)
  <2> DEFINE t == [tx[w] EXCEPT !.pc = "release"]
  <2>1. /\ tx' = [tx EXCEPT ![w] = t] /\ UNCHANGED <<event, row, registered_at, clock>>
        /\ tx[w].pc = "cancel" /\ tx[w].kind = "unregister"
    BY <1>1, <1>3 DEF CancelRegistered, Shape
  <2>2. /\ SameRequest(tx[w], t) /\ t.pc = "release" /\ t.kind = "unregister"
        /\ t.had = tx[w].had /\ t.user = tx[w].user /\ t.seen = tx[w].seen
    BY <1>1, <2>1 DEF TransactionRecord, SameRequest
  <2> HIDE DEF t
  <2>3. Agrees(t, event, row, registered_at, clock)
    <3>1. UnregisterAgrees(tx[w], event, row, registered_at)
      BY <1>1, <2>1, KindAgrees
    <3>2. UnregisterAgrees(t, event, row, registered_at)
      BY <2>1, <2>2, <3>1 DEF UnregisterAgrees
    <3>3. QED
      BY <2>2, <3>2, KindAgrees
  <2>4. QED
    BY <2>1, <2>2, <2>3, QuietStatementApart
<1>4. CASE ChooseNext(w)
  <2>1. PICK v \in Earliest(Waiting(w)) :
          tx' = [tx EXCEPT ![w] = [tx[w] EXCEPT !.next = v, !.pc = "promote"]]
    BY <1>4 DEF ChooseNext
  <2> DEFINE t == [tx[w] EXCEPT !.next = v, !.pc = "promote"]
  <2>2. /\ tx' = [tx EXCEPT ![w] = t] /\ UNCHANGED <<event, row, registered_at, clock>>
        /\ tx[w].pc = "release" /\ tx[w].kind = "unregister"
    BY <1>1, <1>4, <2>1 DEF ChooseNext, Shape
  <2>3. /\ SameRequest(tx[w], t) /\ t.pc = "promote" /\ t.kind = "unregister"
        /\ t.had = tx[w].had /\ t.user = tx[w].user /\ t.seen = tx[w].seen
        /\ t.next = v
    BY <1>1, <2>2 DEF TransactionRecord, SameRequest
  <2>4. /\ row[v] = "waitlisted"
        /\ \A x \in Users \ {tx[w].user} :
             row[x] = "waitlisted" => registered_at[v] <= registered_at[x]
    BY <2>1 DEF Earliest, Waiting, InStatus
  <2> HIDE DEF t
  <2>5. Agrees(t, event, row, registered_at, clock)
    <3>1. UnregisterAgrees(tx[w], event, row, registered_at)
      BY <1>1, <2>2, KindAgrees
    <3>2. UnregisterAgrees(t, event, row, registered_at)
      BY <2>2, <2>3, <2>4, <3>1 DEF UnregisterAgrees
    <3>3. QED
      BY <2>3, <3>2, KindAgrees
  <2>6. QED
    BY <2>2, <2>3, <2>5, QuietStatementApart
<1>5. QED
  BY <1>2, <1>3, <1>4

-----------------------------------------------------------------------------
(* The COMMIT of a registration. *)

\* The worker w commits its registration; u is its user.
Commits(w, ts) ==
    /\ tx[w].pc = "write" /\ CommitRegistration(w, ts)
    /\ clock' \in Nat /\ clock <= clock'
    /\ ts \in 1 .. clock' /\ \A v \in Users \ {tx[w].user} : registered_at[v] < ts

\* Both COMMITs are of this kind.
LEMMA CommitsAs ==
    ASSUME ApartInv, NEW w \in Workers, ReuseRow(w) \/ InsertRow(w)
    PROVE  \E ts : /\ Commits(w, ts)
                   /\ row[tx[w].user] \in Active => tx[w].had = "cancelled"
<1>1. /\ clock \in Nat /\ Shape(tx[w]) /\ Agrees(tx[w], event, row, registered_at, clock)
      /\ \A v \in Users : registered_at[v] \in Nat /\ registered_at[v] <= clock
  BY ApartFacts DEF Stamped
<1>2. CASE ReuseRow(w)
  <2>1. /\ tx[w].pc = "write" /\ tx[w].had = "cancelled" /\ clock' = clock
        /\ CommitRegistration(w, tx[w].stamp)
    BY <1>2 DEF ReuseRow
  <2>2. RegisterAgrees(tx[w], event, row, registered_at, clock)
    BY <1>1, <2>1, KindAgrees DEF Shape
  <2>3. /\ tx[w].stamp \in 1 .. clock
        /\ \A v \in Users \ {tx[w].user} : registered_at[v] < tx[w].stamp
    BY <2>1, <2>2 DEF RegisterAgrees
  <2>4. QED
    BY <1>1, <2>1, <2>3 DEF Commits
<1>3. CASE InsertRow(w)
  <2>1. /\ tx[w].pc = "write" /\ clock' = clock + 1 /\ row[tx[w].user] = "none"
        /\ CommitRegistration(w, clock')
    BY <1>3 DEF InsertRow
  <2>2. Commits(w, clock')
    BY <1>1, <2>1 DEF Commits
  <2>3. QED
    BY <2>1, <2>2 DEF Active
<1>4. QED
  BY <1>2, <1>3

\* What it leaves, once the row is active and when it is not yet.
LEMMA CommitLeaves ==
    ASSUME ApartInv, NEW w \in Workers, NEW ts, Commits(w, ts)
    PROVE  /\ tx'[w] = Idle(NoEvent) /\ \A x \in Workers : x # w => tx'[x] = tx[x]
           /\ tx[w].user \in Users /\ Registers(tx[w])
           /\ row' = [row EXCEPT ![tx[w].user] = Given(tx[w])]
           /\ registered_at' = [registered_at EXCEPT ![tx[w].user] = ts]
           /\ row[tx[w].user] \notin Active =>
                event = tx[w].seen /\ Open(event) /\ event' = After(tx[w])
           /\ row[tx[w].user] \in Active /\ tx[w].had = "cancelled" =>
                /\ event' = event /\ row' = row
                /\ \A v \in Users \ {tx[w].user} :
                     registered_at[v] < registered_at[tx[w].user]
<1> DEFINE t == tx[w]
<1>1. /\ t.pc = "write" /\ CommitRegistration(w, ts) /\ Shape(t) /\ t.user \in Users
      /\ event \in Event /\ t.seen \in Event /\ row \in [Users -> RowStatus]
      /\ Agrees(t, event, row, registered_at, clock)
  BY ApartFacts DEF Commits
<1>2. Registers(t) /\ t.kind = "register"
  BY <1>1 DEF Shape, Registers
<1>3. RegisterAgrees(t, event, row, registered_at, clock)
  BY <1>1, <1>2, KindAgrees
<1>4. tx'[w] = Idle(NoEvent) /\ \A x \in Workers : x # w => tx'[x] = tx[x]
  BY <1>1, ApartFacts, FinishKept DEF CommitRegistration
<1>5. /\ row' = [row EXCEPT ![t.user] = Given(t)]
      /\ registered_at' = [registered_at EXCEPT ![t.user] = ts]
  BY <1>1 DEF CommitRegistration, Given
<1>6. event' = IF Seated(t)
               THEN [event EXCEPT !.current_attendees = t.seen.current_attendees + 1]
               ELSE event
  BY <1>1 DEF CommitRegistration
<1>7. ASSUME row[t.user] \notin Active
      PROVE  event = t.seen /\ Open(event) /\ event' = After(t)
  BY <1>3, <1>6, <1>7 DEF RegisterAgrees, After
<1>8. ASSUME row[t.user] \in Active, t.had = "cancelled"
      PROVE  /\ event' = event /\ row' = row
             /\ \A v \in Users \ {t.user} : registered_at[v] < registered_at[t.user]
  <2>1. /\ event = After(t) /\ row[t.user] = Given(t)
        /\ \A v \in Users \ {t.user} : registered_at[v] < registered_at[t.user]
    BY <1>1, <1>3, <1>8 DEF RegisterAgrees
  <2>2. row' = row
    BY <1>1, <1>5, <2>1
  <2>3. event' = event
    <3>1. CASE Seated(t)
      <4>1. event = [t.seen EXCEPT !.current_attendees = t.seen.current_attendees + 1]
        BY <2>1, <3>1 DEF After
      <4>2. event.current_attendees = t.seen.current_attendees + 1
        BY <1>1, <4>1 DEF Event
      <4>3. QED
        BY <1>1, <1>6, <3>1, <4>2 DEF Event
    <3>2. CASE ~Seated(t)
      BY <1>6, <3>2
    <3>3. QED
      BY <3>1, <3>2
  <2>4. QED
    BY <2>1, <2>2, <2>3
<1>9. QED
  BY <1>1, <1>2, <1>4, <1>5, <1>7, <1>8

\* The copies that still run can only repeat it.
LEMMA CopiesAgree ==
    ASSUME ApartInv, NEW w \in Workers, NEW ts, Commits(w, ts),
           row[tx[w].user] \in Active => tx[w].had = "cancelled",
           NEW x \in Workers, x # w
    PROVE  Agrees(tx'[x], event', row', registered_at', clock')
<1> DEFINE t == tx[w]
           o == tx[x]
           u == tx[w].user
<1>1. /\ u \in Users /\ Registers(t) /\ o = tx'[x]
      /\ row' = [row EXCEPT ![u] = Given(t)]
      /\ registered_at' = [registered_at EXCEPT ![u] = ts]
      /\ row[u] \notin Active => event = t.seen /\ event' = After(t)
      /\ row[u] \in Active => event' = event /\ row' = row
  BY CommitLeaves
<1>2. /\ row \in [Users -> RowStatus] /\ registered_at \in [Users -> Nat] /\ Apart
      /\ Shape(o) /\ Agrees(o, event, row, registered_at, clock) /\ clock \in Nat
  BY ApartFacts
<1>3. /\ t.pc = "write" /\ clock' \in Nat /\ clock <= clock'
      /\ ts \in 1 .. clock' /\ \A v \in Users \ {u} : registered_at[v] < ts
  BY DEF Commits
<1>4. CASE o.pc = "idle"
  BY <1>1, <1>2, <1>4, NoneAgrees DEF Shape
<1>5. CASE o.pc # "idle"
  <2>1. Registers(o) /\ o.user = u /\ o.kind = "register"
    BY <1>2, <1>3, <1>5 DEF Apart, Registers
  <2>2. RegisterAgrees(o, event, row, registered_at, clock)
    BY <1>2, <2>1, KindAgrees
  <2>3. /\ row'[u] = Given(t) /\ Given(t) \in Active /\ registered_at'[u] = ts
        /\ \A v \in Users \ {u} : registered_at'[v] = registered_at[v]
    BY <1>1, <1>2 DEF Given, Active
  <2>4. ASSUME o.pc \in {"seat", "write"}, o.had = "cancelled"
        PROVE  /\ o.stamp \in 1 .. clock'
               /\ \A v \in Users \ {o.user} : registered_at'[v] < o.stamp
               /\ event' = After(o) /\ row'[u] = Given(o)
               /\ \A v \in Users \ {o.user} : registered_at'[v] < registered_at'[u]
    <3>1. /\ o.stamp \in 1 .. clock
          /\ \A v \in Users \ {u} : registered_at[v] < o.stamp
      BY <2>1, <2>2, <2>4 DEF RegisterAgrees
    <3>2. o.stamp \in 1 .. clock'
      BY <1>2, <1>3, <3>1
    <3>3. event' = After(o) /\ row'[u] = Given(o)
      <4>1. CASE row[u] \notin Active
        <5>1. event = o.seen /\ event = t.seen
          BY <1>1, <2>1, <2>2, <4>1 DEF RegisterAgrees
        <5>2. After(o) = After(t) /\ Given(o) = Given(t)
          BY <5>1 DEF After, Given, Seated
        <5>3. QED
          BY <1>1, <2>3, <4>1, <5>2
      <4>2. CASE row[u] \in Active
        <5>1. event = After(o) /\ row[u] = Given(o)
          BY <2>1, <2>2, <2>4, <4>2 DEF RegisterAgrees
        <5>2. QED
          BY <1>1, <4>2, <5>1
      <4>3. QED
        BY <4>1, <4>2
    <3>4. QED
      BY <1>3, <2>1, <2>3, <3>1, <3>2, <3>3
  <2>5. row'[o.user] \in Active
    BY <2>1, <2>3
  <2>6. RegisterAgrees(o, event', row', registered_at', clock')
    BY <2>1, <2>4, <2>5 DEF RegisterAgrees
  <2>7. QED
    BY <1>1, <2>1, <2>6, KindAgrees
<1>6. QED
  BY <1>4, <1>5

LEMMA RegistersNext ==
    ASSUME NEW u \in Users, R!Register(u)
    PROVE  R!Next
  BY DEF R!Next

LEMMA CommitApart ==
    ASSUME ApartInv, NEW w \in Workers, ReuseRow(w) \/ InsertRow(w)
    PROVE  ApartRest' /\ (R!Next \/ UNCHANGED R!vars)
<1> DEFINE t == tx[w]
           u == tx[w].user
<1>1. PICK ts : Commits(w, ts) /\ (row[u] \in Active => t.had = "cancelled")
  BY CommitsAs
<1>2. /\ tx'[w] = Idle(NoEvent) /\ \A x \in Workers : x # w => tx'[x] = tx[x]
      /\ u \in Users
      /\ row' = [row EXCEPT ![u] = Given(t)]
      /\ registered_at' = [registered_at EXCEPT ![u] = ts]
      /\ row[u] \notin Active => event = t.seen /\ Open(event) /\ event' = After(t)
      /\ row[u] \in Active =>
           /\ event' = event /\ row' = row
           /\ \A v \in Users \ {u} : registered_at[v] < registered_at[u]
  BY <1>1, CommitLeaves
<1>3. /\ row \in [Users -> RowStatus] /\ registered_at \in [Users -> Nat]
      /\ event \in Event /\ clock \in Nat /\ Apart /\ Stamped
  BY ApartFacts
<1>4. /\ clock' \in Nat /\ clock <= clock'
      /\ ts \in Nat \ {0} /\ ts <= clock' /\ \A v \in Users \ {u} : registered_at[v] < ts
  BY <1>1 DEF Commits
<1>5. Apart'
  BY <1>2, <1>3, ApartKept, IdleShape
<1>6. Stamped'
  <2>1. ASSUME NEW v \in Users
        PROVE  registered_at'[v] <= clock' /\ (registered_at'[v] = 0 <=> row'[v] = "none")
    <3>1. CASE v = u
      BY <1>2, <1>3, <1>4, <3>1 DEF Given
    <3>2. CASE v # u
      BY <1>2, <1>3, <1>4, <3>2 DEF Stamped
    <3>3. QED
      BY <3>1, <3>2
  <2>2. QED
    BY <2>1 DEF Stamped
<1>7. ASSUME NEW x \in Workers
      PROVE  Agrees(tx'[x], event', row', registered_at', clock')
  <2>1. CASE x = w
    BY <1>2, <2>1, IdleAgrees
  <2>2. CASE x # w
    BY <1>1, <2>2, CopiesAgree
  <2>3. QED
    BY <2>1, <2>2
<1>8. CASE row[u] \in Active
  <2>1. registered_at[u] # 0
    BY <1>2, <1>3, <1>8 DEF Stamped, Active
  <2>2. Before(registered_at)' = Before(registered_at)
    BY <1>2, <1>3, <1>4, <1>8, <2>1, StampsAgain
  <2>3. UNCHANGED R!vars
    BY <1>2, <1>8, <2>2, Unseen
  <2>4. QED
    BY <1>5, <1>6, <1>7, <2>3 DEF ApartRest
<1>9. CASE row[u] \notin Active
  <2>1. /\ event = t.seen /\ ~event.is_deleted /\ event.status = "upcoming"
        /\ event' = After(t)
    BY <1>2, <1>9 DEF Open
  <2>2. row[u] \in {"none", "cancelled"}
    BY <1>2, <1>3, <1>9 DEF RowStatus, Active
  <2>3. Before(registered_at)' =
          {p \in Before(registered_at) : p[1] # u /\ p[2] # u}
            \cup {<<v, u>> : v \in {v \in Users \ {u} : row[v] # "none"}}
    BY <1>2, <1>3, <1>4, StampsLast
  <2>4. /\ event'.status = event.status /\ event'.capacity = event.capacity
        /\ event'.is_deleted = event.is_deleted
        /\ event'.current_attendees = IF Seated(t) THEN event.current_attendees + 1
                                      ELSE event.current_attendees
    BY <1>3, <2>1 DEF After, Event
  <2>5. Seated(t) <=> event.current_attendees < event.capacity
    BY <2>1 DEF Seated
  <2>6. event.current_attendees \in Int /\ event.capacity \in Int
    BY <1>3, BoundsAssumption DEF Event
  <2>7. PICK q \in Users : q = u
    BY <1>2
  <2>8. R!Register(q)
    <3>1. R!Open /\ row[q] \in {"none", "cancelled"}
      BY <2>1, <2>2, <2>7 DEF R!Open
    <3>2. \/ /\ event.current_attendees < event.capacity
             /\ row' = [row EXCEPT ![q] = "registered"]
             /\ event'.current_attendees = event.current_attendees + 1
          \/ /\ event.current_attendees >= event.capacity
             /\ row' = [row EXCEPT ![q] = "waitlisted"]
             /\ event'.current_attendees = event.current_attendees
      <4>1. row' = [row EXCEPT ![q] = Given(t)]
        BY <1>2, <2>7
      <4>2. CASE Seated(t)
        BY <2>4, <2>5, <4>1, <4>2 DEF Given
      <4>3. CASE ~Seated(t)
        BY <2>4, <2>5, <2>6, <4>1, <4>3 DEF Given
      <4>4. QED
        BY <4>2, <4>3
    <3>3. Before(registered_at)' =
            {p \in Before(registered_at) : p[1] # q /\ p[2] # q}
              \cup {<<v, q>> : v \in {v \in Users \ {q} : row[v] # "none"}}
      BY <2>3, <2>7
    <3>4. QED
      BY <2>4, <3>1, <3>2, <3>3 DEF R!Register, R!StampLast, Before
  <2>9. R!Next
    BY <2>8, RegistersNext
  <2>10. QED
    BY <1>5, <1>6, <1>7, <2>9 DEF ApartRest
<1>10. QED
  BY <1>8, <1>9

-----------------------------------------------------------------------------
(* The COMMIT of a request that runs alone. *)

LEMMA AloneEnds ==
    ASSUME ApartInv, NEW w \in Workers, tx[w].pc # "idle", ~Registers(tx[w]), Finish(w),
           UNCHANGED <<registered_at, clock>>,
           \A u \in Users : row'[u] = "none" <=> row[u] = "none"
    PROVE  ApartRest'
<1>1. tx'[w] = Idle(NoEvent) /\ \A x \in Workers : x # w => tx'[x] = tx[x]
  BY ApartFacts, FinishKept
<1>2. \A x \in Workers : tx'[x].pc = "idle" /\ tx'[x].kind = "none"
  BY <1>1, Alone, IdleShape
<1>3. Apart'
  BY <1>2 DEF Apart
<1>4. Stamped'
  BY ApartFacts DEF Stamped
<1>5. ASSUME NEW x \in Workers
      PROVE  Agrees(tx'[x], event', row', registered_at', clock')
  BY <1>2, NoneAgrees
<1>6. QED
  BY <1>3, <1>4, <1>5 DEF ApartRest

LEMMA UnregisterApart ==
    ASSUME ApartInv, NEW w \in Workers,
           CancelWaitlisted(w) \/ ReleaseSeat(w) \/ Promote(w)
    PROVE  ApartRest' /\ \E u \in Users : R!Unregister(u)
<1> DEFINE t == tx[w]
           u == tx[w].user
<1>1. /\ Shape(t) /\ t.seen \in Event /\ event \in Event
      /\ row \in [Users -> RowStatus] /\ registered_at \in [Users -> Nat] /\ Stamped
      /\ Agrees(t, event, row, registered_at, clock)
      /\ t.pc \notin {"idle", "apply"} => u \in Users
      /\ t.pc = "promote" => t.next \in Users
  BY ApartFacts, InvFacts
<1>2. t.pc \in {"cancel", "release", "promote"} /\ u \in Users
  BY <1>1 DEF CancelWaitlisted, ReleaseSeat, Promote
<1>3. t.kind = "unregister" /\ ~Registers(t) /\ t.pc # "idle"
  BY <1>1, <1>2 DEF Shape, Registers
<1>4. UnregisterAgrees(t, event, row, registered_at)
  BY <1>1, <1>3, KindAgrees
<1>5. event = t.seen /\ R!Open /\ row[u] = t.had
  BY <1>2, <1>4 DEF UnregisterAgrees, R!Open, Open
<1>6. Finish(w) /\ UNCHANGED <<registered_at, clock>>
  BY DEF CancelWaitlisted, ReleaseSeat, Promote
<1>7. UNCHANGED Before(registered_at)
  BY <1>6 DEF Before
<1>8. CASE CancelWaitlisted(w)
  <2>1. /\ row[u] = "waitlisted" /\ row' = [row EXCEPT ![u] = "cancelled"]
        /\ event' = event
    BY <1>5, <1>8 DEF CancelWaitlisted
  <2>2. R!Unregister(u)
    BY <1>5, <1>7, <2>1 DEF R!Unregister, R!LeaveWaitlist, Before
  <2>3. \A v \in Users : row'[v] = "none" <=> row[v] = "none"
    BY <1>1, <2>1
  <2>4. QED
    BY <1>2, <1>3, <1>6, <2>2, <2>3, AloneEnds
<1>9. CASE ReleaseSeat(w)
  <2>1. /\ row[u] = "registered" /\ row' = [row EXCEPT ![u] = "cancelled"]
        /\ event' = [event EXCEPT !.current_attendees = event.current_attendees - 1]
        /\ InStatus("waitlisted") \ {u} = {}
    BY <1>1, <1>5, <1>9 DEF ReleaseSeat, Waiting, Shape
  <2>2. R!InStatus("waitlisted") = {}
    BY <2>1 DEF InStatus, R!InStatus
  <2>3. /\ event'.status = event.status /\ event'.capacity = event.capacity
        /\ event'.is_deleted = event.is_deleted
        /\ event'.current_attendees = event.current_attendees - 1
    BY <1>1, <2>1 DEF Event
  <2>4. R!Unregister(u)
    BY <1>5, <1>7, <2>1, <2>2, <2>3 DEF R!Unregister, R!LeaveSeat, Before
  <2>5. \A v \in Users : row'[v] = "none" <=> row[v] = "none"
    BY <1>1, <2>1
  <2>6. QED
    BY <1>2, <1>3, <1>6, <2>4, <2>5, AloneEnds
<1>10. CASE Promote(w)
  <2>1. /\ row[u] = "registered" /\ t.next \in Users /\ row[t.next] = "waitlisted"
        /\ row' = [row EXCEPT ![u] = "cancelled", ![t.next] = "registered"]
        /\ event' = [event EXCEPT !.current_attendees = event.current_attendees]
        /\ \A v \in Users \ {u} :
             row[v] = "waitlisted" => registered_at[t.next] <= registered_at[v]
    BY <1>1, <1>4, <1>5, <1>10 DEF Promote, UnregisterAgrees, Shape
  <2>2. event' = event
    BY <1>1, <2>1 DEF Event
  <2>3. \A v \in R!InStatus("waitlisted") : <<v, t.next>> \notin Before(registered_at)
    <3>1. ASSUME NEW v \in Users, row[v] = "waitlisted"
          PROVE  ~(registered_at[v] < registered_at[t.next])
      BY <1>1, <2>1, <3>1
    <3>2. QED
      BY <3>1 DEF R!InStatus, Before
  <2>4. R!NextInLine(t.next)
    BY <2>1, <2>3 DEF R!NextInLine, Before
  <2>5. R!Unregister(u)
    BY <1>5, <1>7, <2>1, <2>2, <2>4 DEF R!Unregister, R!LeaveSeat, Before
  <2>6. \A v \in Users : row'[v] = "none" <=> row[v] = "none"
    BY <1>1, <2>1
  <2>7. QED
    BY <1>2, <1>3, <1>6, <2>5, <2>6, AloneEnds
<1>11. QED
  BY <1>8, <1>9, <1>10

LEMMA EditApart ==
    ASSUME ApartInv, NEW w \in Workers, ApplyEdit(w)
    PROVE  /\ ApartRest'
           /\ \/ \E s \in EventStatus, c \in 1 .. MaxCapacity : R!UpdateEvent(s, c)
              \/ R!PublishEvent
              \/ R!DeleteEvent
<1> DEFINE t == tx[w]
           e == tx[w].edit
<1>1. /\ t.pc = "apply" /\ Shape(t) /\ event \in Event /\ e \in Event
      /\ Agrees(t, event, row, registered_at, clock)
      /\ Finish(w) /\ UNCHANGED <<row, registered_at, clock>>
  BY ApartFacts DEF ApplyEdit
<1>2. Edits(t) /\ ~Registers(t)
  BY <1>1 DEF Shape, Edits, Registers
<1>3. event = t.seen /\ Allowed(t, event)
  BY <1>1, <1>2, KindAgrees
<1>4. /\ event'.status = e.status /\ event'.capacity = e.capacity
      /\ event'.current_attendees = e.current_attendees
      /\ event'.is_deleted = e.is_deleted
  BY <1>3 DEF ApplyEdit, Column
<1>5. UNCHANGED Before(registered_at)
  BY <1>1 DEF Before
<1>6. ApartRest'
  BY <1>1, <1>2, AloneEnds
<1>7. ASSUME NEW s \in EventStatus, NEW c \in 1 .. MaxCapacity,
             ~event.is_deleted, event.status \notin Terminal,
             s = event.status \/ s \in STATUS_TRANSITIONS[event.status],
             c = event.capacity \/ c >= event.current_attendees,
             e = [event EXCEPT !.status = s, !.capacity = c]
      PROVE  R!UpdateEvent(s, c)
  <2>1. /\ event'.status = s /\ event'.capacity = c
        /\ event'.current_attendees = event.current_attendees
        /\ event'.is_deleted = event.is_deleted
    BY <1>1, <1>4, <1>7 DEF Event
  <2>2. event.status \notin R!Terminal
        /\ (s = event.status \/ s \in R!STATUS_TRANSITIONS[event.status])
    BY <1>7 DEF Terminal, R!Terminal, STATUS_TRANSITIONS, R!STATUS_TRANSITIONS
  <2>3. QED
    BY <1>1, <1>5, <1>7, <2>1, <2>2 DEF R!UpdateEvent, Before
<1>8. ASSUME ~event.is_deleted, event.status = "draft",
             e = [event EXCEPT !.status = "upcoming"]
      PROVE  R!PublishEvent
  <2>1. /\ event'.status = "upcoming" /\ event'.capacity = event.capacity
        /\ event'.current_attendees = event.current_attendees
        /\ event'.is_deleted = event.is_deleted
    BY <1>1, <1>4, <1>8 DEF Event
  <2>2. QED
    BY <1>1, <1>5, <1>8, <2>1 DEF R!PublishEvent, Before
<1>9. ASSUME e = [event EXCEPT !.is_deleted = TRUE]
      PROVE  R!DeleteEvent
  <2>1. /\ event'.status = event.status /\ event'.capacity = event.capacity
        /\ event'.current_attendees = event.current_attendees
        /\ event'.is_deleted = TRUE
    BY <1>1, <1>4, <1>9 DEF Event
  <2>2. QED
    BY <1>1, <1>5, <2>1 DEF R!DeleteEvent, Before
<1>10. QED
  BY <1>3, <1>6, <1>7, <1>8, <1>9 DEF Allowed

-----------------------------------------------------------------------------

LEMMA ApartStep ==
    ApartInv /\ [ApartNext]_vars => ApartInv' /\ [R!Next]_(R!vars)
<1> SUFFICES ASSUME ApartInv, [ApartNext]_vars
             PROVE  ApartInv' /\ (R!Next \/ UNCHANGED R!vars)
  OBVIOUS
<1>1. [Next]_vars
  BY DEF ApartNext, ArriveApart, Next
<1>2. TxInv' /\ Shapes'
  BY <1>1, ApartFacts, NextInv, ShapesStep
<1>3. ASSUME NEW w \in Workers, ArriveApart(w) \/ Advance(w) \/ Crash(w)
      PROVE  ApartRest' /\ (R!Next \/ UNCHANGED R!vars)
  <2>1. CASE ArriveApart(w)
    BY <2>1, ArrivalApart
  <2>2. CASE SelectRejects(w) \/ InsertConflicts(w) \/ DeadlockAbort(w) \/ Crash(w)
    <3>1. Rollback(w)
      BY <2>2 DEF SelectRejects, InsertConflicts, DeadlockAbort, Crash
    <3>2. QED
      BY <3>1, RollbackApart
  <2>3. CASE SelectForRegister(w)
    BY <2>3, SelectForRegisterApart
  <2>4. CASE TakeSeat(w)
    BY <2>4, TakeSeatApart
  <2>5. CASE SelectForUnregister(w) \/ CancelRegistered(w) \/ ChooseNext(w)
    BY <2>5, LeavingApartSteps
  <2>6. CASE ReuseRow(w) \/ InsertRow(w)
    BY <2>6, CommitApart
  <2>7. CASE CancelWaitlisted(w) \/ ReleaseSeat(w) \/ Promote(w)
    <3>1. ApartRest' /\ \E u \in Users : R!Unregister(u)
      BY <2>7, UnregisterApart
    <3>2. QED
      BY <3>1 DEF R!Next
  <2>8. CASE ApplyEdit(w)
    <3>1. /\ ApartRest'
          /\ \/ \E s \in EventStatus, c \in 1 .. MaxCapacity : R!UpdateEvent(s, c)
             \/ R!PublishEvent
             \/ R!DeleteEvent
      BY <2>8, EditApart
    <3>2. EventStatus = R!EventStatus
      BY DEF EventStatus, R!EventStatus
    <3>3. QED
      BY <3>1, <3>2 DEF R!Next
  <2>9. QED
    BY <1>3, <2>1, <2>2, <2>3, <2>4, <2>5, <2>6, <2>7, <2>8 DEF Advance
<1>4. CASE UNCHANGED vars
  <2>1. ApartRest'
    BY <1>4, ApartFacts DEF vars, ApartRest, Apart, Stamped
  <2>2. UNCHANGED R!vars
    BY <1>4, Unseen DEF vars, Before
  <2>3. QED
    BY <1>2, <2>1, <2>2 DEF ApartInv
<1>5. CASE ApartNext
  BY <1>2, <1>3, <1>5 DEF ApartNext, ApartInv
<1>6. QED
  BY <1>4, <1>5

LEMMA FreshStarts == FreshInit => R!Init
<1> SUFFICES ASSUME FreshInit PROVE R!Init
  OBVIOUS
<1>1. /\ event \in [status : {"draft", "upcoming"}, capacity : 1 .. MaxCapacity,
                    current_attendees : {0}, is_deleted : {FALSE}]
      /\ row = [u \in Users |-> "none"] /\ registered_at = [u \in Users |-> 0]
  BY DEF FreshInit
<1>2. Before(registered_at) = {}
  BY <1>1 DEF Before
<1>3. QED
  BY <1>1, <1>2 DEF R!Init, Before

\* Requests of register_for_event, unregister_from_event, update_event,
\* publish_event and delete_event that come one after the other have the effect
\* of the atomic requests of Registration, one COMMIT for each, for every number
\* of users and of workers.  The same holds when any of them crashes, and when a
\* registration is submitted several times at once: whatever the copies have
\* read, one of them counts, by uq_event_user if the row is new and because the
\* others write the same counter again if it is an old one.
THEOREM RequestsImplement == ApartSpec => ImplementsRegistration
<1>1. FreshInit => ApartInv /\ R!Init
  BY ApartFirst, FreshStarts
<1>2. ApartInv /\ [ApartNext]_vars => ApartInv' /\ [R!Next]_(R!vars)
  BY ApartStep
<1>3. ApartSpec => FreshInit /\ [][ApartNext]_vars
  BY DEF ApartSpec, ApartNext
<1>4. QED
  BY <1>1, <1>2, <1>3, PTL DEF ImplementsRegistration, R!Spec

=============================================================================
