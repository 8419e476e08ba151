-------------------------- MODULE EventTeamProofs --------------------------
(***************************************************************************)
(* The team of an event, for every number of users, tasks and overlapping  *)
(* requests.  What a request has checked still holds when it commits,      *)
(* unless a request it overlaps has been recorded in raced: TeamInv says   *)
(* so for each kind of request that is in progress.                        *)
(***************************************************************************)
EXTENDS EventTeam, FiniteSetTheorems, TLAPS

\* A removal leaves an organizer, and no other removal is in progress.
RemovalsApart ==
    "removal" \notin raced =>
        /\ \A r, s \in Requests :
             req[r].op = "remove" /\ req[s].op = "remove" => r = s
        /\ \A r \in Requests :
             req[r].op = "remove" => \E o \in organizers : o # req[r].user

\* A request that writes a title writes one that no task has, and alone.
TitlesApart ==
    "title" \notin raced =>
        /\ \A r, s \in Requests :
             WritesTitle(req[r]) /\ WritesTitle(req[s]) => r = s
        /\ \A r \in Requests : WritesTitle(req[r]) => ~Taken(req[r].new.title)

\* A request that writes a task neither deletes nor unassigns it by the way.
RowsKept ==
    \A r \in Requests :
        /\ req[r].op = "update" =>
             /\ req[r].new.row = req[r].read.row
             /\ req[r].new.assignee \in Users \cup {req[r].read.assignee}
        /\ req[r].op = "create" => req[r].new.row = "live"

\* No request writes a task of an event that has ended.
NothingThaws ==
    finished /\ "freeze" \notin raced =>
        \A r \in Requests : ~WritesTask(req[r])

TeamInv ==
    /\ TypeOK
    /\ OrganizerRemains /\ RemovalsApart
    /\ TitlesUnique /\ TitlesApart /\ RowsKept
    /\ NothingThaws
    /\ AssigneesKnow

\* What the requests in progress carry.
LEMMA RequestShape ==
    ASSUME TypeOK, NEW r \in Requests
    PROVE  /\ req[r].op \in {"add", "remove"} => req[r].user \in Users
           /\ req[r].op \in {"create", "update", "delete"} => req[r].task \in Tasks
           /\ req[r].op \in {"create", "update"} => req[r].new \in Task
           /\ req[r].op = "update" => req[r].read \in Task
           /\ req[r].op = "notify" => req[r].notice \in Notice
<1>1. req[r] \in Request
  BY DEF TypeOK
<1>2. QED
  BY <1>1 DEF Request, Idle

\* An action of r replaces the request of r alone.
LEMMA RequestSet ==
    ASSUME TypeOK, NEW r \in Requests, NEW q, req' = [req EXCEPT ![r] = q]
    PROVE  /\ DOMAIN req' = Requests
           /\ req'[r] = q
           /\ \A s \in Requests : s # r => req'[s] = req[s]
           /\ q \in Request => \A s \in Requests : req'[s] \in Request
  BY DEF TypeOK

\* The column-wise UPDATE of a task leaves a task.
Updated(t, q) == [c \in DOMAIN t |-> IF q.new[c] # q.read[c] THEN q.new[c] ELSE t[c]]

LEMMA UpdatedTask ==
    ASSUME NEW t \in Task, NEW q, q.new \in Task, q.read \in Task
    PROVE  /\ Updated(t, q) \in Task
           /\ Updated(t, q).row =
                IF q.new.row # q.read.row THEN q.new.row ELSE t.row
           /\ Updated(t, q).title =
                IF q.new.title # q.read.title THEN q.new.title ELSE t.title
           /\ Updated(t, q).assignee =
                IF q.new.assignee # q.read.assignee THEN q.new.assignee ELSE t.assignee
<1>1. /\ DOMAIN t = {"row", "title", "assignee", "completed"}
      /\ t = [row |-> t.row, title |-> t.title, assignee |-> t.assignee,
              completed |-> t.completed]
  BY DEF Task
<1> DEFINE u == Updated(t, q)
<1>2. /\ u.row = IF q.new.row # q.read.row THEN q.new.row ELSE t.row
      /\ u.title = IF q.new.title # q.read.title THEN q.new.title ELSE t.title
      /\ u.assignee = IF q.new.assignee # q.read.assignee THEN q.new.assignee
                      ELSE t.assignee
      /\ u.completed = IF q.new.completed # q.read.completed THEN q.new.completed
                       ELSE t.completed
  BY <1>1 DEF Updated
<1>3. u = [row |-> u.row, title |-> u.title, assignee |-> u.assignee,
           completed |-> u.completed]
  BY <1>1 DEF Updated
<1>4. /\ u.row \in {"none", "live", "deleted"} /\ u.title \in Titles
      /\ u.assignee \in Users \cup {Nobody} /\ u.completed \in BOOLEAN
  BY <1>2 DEF Task
<1> HIDE DEF u
<1>5. u \in Task
  BY <1>3, <1>4 DEF Task
<1>6. QED
  BY <1>2, <1>5 DEF u

-----------------------------------------------------------------------------

LEMMA InitTeam == Init => TeamInv
<1> SUFFICES ASSUME Init PROVE TeamInv
  OBVIOUS
<1>1. TypeOK
  <2>1. (CHOOSE t \in Titles : TRUE) \in Titles
    BY TeamAssumption
  <2> DEFINE title == CHOOSE t \in Titles : TRUE
             fresh == [row |-> "none", title |-> title, assignee |-> Nobody,
                       completed |-> FALSE]
  <2>2. task \in [Tasks -> {fresh}]
    BY DEF Init
  <2> HIDE DEF title
  <2>3. fresh \in Task
    BY <2>1 DEF Task, title
  <2>4. task \in [Tasks -> Task]
    BY <2>2, <2>3
  <2>5. DOMAIN req = Requests /\ \A r \in Requests : req[r] \in Request
    BY DEF Init, Request
  <2>6. /\ organizers = {Creator} /\ served = 0
        /\ finished = FALSE /\ deleted = FALSE
        /\ notices = {} /\ lost = {} /\ raced = {}
    BY Zenon DEF Init
  <2>7. organizers \subseteq Users /\ served \in 0 .. MaxRequests
    BY <2>6, TeamAssumption
  <2>8. QED
    BY <2>4, <2>5, <2>6, <2>7 DEF TypeOK
<1>2. \A r \in Requests : req[r].op = "idle"
  BY DEF Init, Idle
<1>3. \A t \in Tasks : ~Live(t)
  BY DEF Init, Live
<1>4. QED
  BY <1>1, <1>2, <1>3 DEF Init, TeamInv, OrganizerRemains, RemovalsApart,
       TitlesUnique, TitlesApart, RowsKept, NothingThaws, AssigneesKnow, WritesTask,
       WritesTitle

LEMMA UpdateRequest ==
    ASSUME NEW t \in Tasks, NEW old \in Task, NEW new \in Task
    PROVE  [op |-> "update", task |-> t, read |-> old, new |-> new] \in Request
  BY DEF Request

\* update_task has read the task t and is going to write it as new.
Updating(r, t, new) ==
    /\ Live(t) /\ ~Closed
    /\ new \in Task
    /\ new.row = task[t].row
    /\ new.title # task[t].title => ~Taken(new.title)
    /\ new.assignee \in Users \cup {task[t].assignee}
    /\ Begin(r, [op |-> "update", task |-> t, read |-> task[t], new |-> new])

LEMMA UpdateBegins ==
    ASSUME TypeOK, NEW r \in Requests, BeginUpdate(r)
    PROVE  \E t \in Tasks, new \in Task :
             /\ Updating(r, t, new)
             /\ [op |-> "update", task |-> t, read |-> task[t], new |-> new] \in Request
<1>1. PICK u \in Users, t \in Tasks, title \in Titles, done \in BOOLEAN :
        \E a \in Users \cup {task[t].assignee} :
          BeginUpdateOf(r, u, t, [row |-> task[t].row, title |-> title,
                                  assignee |-> a, completed |-> done])
  BY DEF BeginUpdate
<1>2. PICK a \in Users \cup {task[t].assignee} :
        BeginUpdateOf(r, u, t, [row |-> task[t].row, title |-> title,
                                assignee |-> a, completed |-> done])
  BY <1>1
<1> DEFINE new == [row |-> task[t].row, title |-> title, assignee |-> a,
                   completed |-> done]
<1>3. task[t] \in Task
  BY DEF TypeOK
<1>4. /\ new \in Task
      /\ new.row = task[t].row /\ new.title = title /\ new.assignee = a
  BY <1>3 DEF Task
<1>5. BeginUpdateOf(r, u, t, new)
  BY <1>2
<1> HIDE DEF new
<1>6. Updating(r, t, new)
  BY <1>4, <1>5 DEF BeginUpdateOf, Updating
<1>7. QED
  BY <1>3, <1>4, <1>6, UpdateRequest

\* A request that begins carries what Begin says.
LEMMA BeginsWith ==
    ASSUME TypeOK, NEW r \in Requests,
           \/ BeginAdd(r) \/ BeginRemove(r) \/ BeginCreate(r)
           \/ BeginUpdate(r) \/ BeginDelete(r)
    PROVE  \E q \in Request : Begin(r, q)
<1>1. CASE BeginAdd(r)
  BY <1>1 DEF BeginAdd, Request
<1>2. CASE BeginRemove(r)
  BY <1>2 DEF BeginRemove, Request
<1>3. CASE BeginCreate(r)
  BY <1>3 DEF BeginCreate, Request, Task
<1>4. CASE BeginUpdate(r)
  BY <1>4, UpdateBegins, Zenon DEF Updating
<1>5. CASE BeginDelete(r)
  BY <1>5 DEF BeginDelete, Request
<1>6. QED
  BY <1>1, <1>2, <1>3, <1>4, <1>5

\* A race is never forgotten.
LEMMA RacedGrows ==
    ASSUME TypeOK, [Next]_vars
    PROVE  raced \subseteq raced'
<1>1. ASSUME NEW r \in Requests, NEW q, Begin(r, q) PROVE raced \subseteq raced'
  BY <1>1 DEF Begin
<1>2. ASSUME NEW r \in Requests,
             CommitAdd(r) \/ CommitRemove(r) \/ CommitCreate(r) \/ CommitUpdate(r)
               \/ CommitDelete(r) \/ Notify(r) \/ Fail(r)
      PROVE  raced \subseteq raced'
  BY <1>2 DEF CommitAdd, CommitRemove, CommitCreate, CommitUpdate, CommitDelete,
     Notify, Fail
<1>3. CASE Finish \/ DeleteEvent \/ UNCHANGED vars
  BY <1>3 DEF Finish, DeleteEvent, vars
<1>4. QED
  BY <1>1, <1>2, <1>3, BeginsWith DEF Next

LEMMA TypeStep == TypeOK /\ RowsKept /\ [Next]_vars => TypeOK'
<1> SUFFICES ASSUME TypeOK, RowsKept, [Next]_vars PROVE TypeOK'
  OBVIOUS
<1>1. CASE UNCHANGED vars
  BY <1>1 DEF vars, TypeOK
<1>2. ASSUME NEW r \in Requests, NEW q \in Request, Begin(r, q)
      PROVE  TypeOK'
  BY <1>2, RequestSet, TeamAssumption DEF Begin, Overlaps, TypeOK
<1>3. ASSUME NEW r \in Requests, CommitAdd(r) \/ CommitRemove(r)
      PROVE  TypeOK'
  BY <1>3, RequestSet, RequestShape
     DEF CommitAdd, CommitRemove, Ends, Notifies, Request, Notice, TypeOK
<1>4. ASSUME NEW r \in Requests, CommitCreate(r) PROVE TypeOK'
  <2>1. req[r].new \in Task /\ req[r].task \in Tasks
    BY <1>4, RequestShape DEF CommitCreate
  <2>2. task' \in [Tasks -> Task]
    BY <1>4, <2>1 DEF CommitCreate, TypeOK
  <2>3. req[r].new.assignee # Nobody => req[r].new.assignee \in Users
    BY <2>1 DEF Task
  <2>4. DOMAIN req' = Requests /\ \A s \in Requests : req'[s] \in Request
    BY <1>4, <2>1, <2>3, RequestSet DEF CommitCreate, Ends, Notifies, Request, Notice
  <2>5. QED
    BY <1>4, <2>2, <2>4 DEF CommitCreate, TypeOK
<1>5. ASSUME NEW r \in Requests, CommitUpdate(r) PROVE TypeOK'
  <2>1. /\ req[r].new \in Task /\ req[r].read \in Task /\ req[r].task \in Tasks
        /\ req[r].new.assignee \in Users \cup {Nobody}
    BY <1>5, RequestShape DEF CommitUpdate, Task
  <2>2. task' \in [Tasks -> Task]
    BY <1>5, <2>1, UpdatedTask DEF CommitUpdate, TypeOK, Updated
  <2>3. notices' \subseteq Notice
    <3>1. req[r].new.assignee # req[r].read.assignee =>
            <<req[r].new.assignee, req[r].task>> \in Notice
      BY <1>5, <2>1 DEF CommitUpdate, RowsKept, Notice
    <3>2. QED
      BY <1>5, <3>1 DEF CommitUpdate, TypeOK
  <2>4. DOMAIN req' = Requests /\ \A s \in Requests : req'[s] \in Request
    BY <1>5, RequestSet DEF CommitUpdate, Ends, Request
  <2>5. QED
    BY <1>5, <2>2, <2>3, <2>4 DEF CommitUpdate, TypeOK
<1>6. ASSUME NEW r \in Requests, CommitDelete(r) PROVE TypeOK'
  <2>1. task' \in [Tasks -> Task]
    BY <1>6 DEF CommitDelete, TypeOK, Task
  <2>2. QED
    BY <1>6, <2>1, RequestSet DEF CommitDelete, Ends, Request, TypeOK
<1>7. ASSUME NEW r \in Requests, Notify(r) \/ Fail(r) PROVE TypeOK'
  <2>1. DOMAIN req' = Requests /\ \A s \in Requests : req'[s] \in Request
    BY <1>7, RequestSet DEF Notify, Fail, Ends, Request
  <2>2. notices' \subseteq Notice /\ lost' \subseteq Notice
    BY <1>7, RequestShape DEF Notify, Fail, TypeOK
  <2>3. QED
    BY <1>7, <2>1, <2>2 DEF Notify, Fail, TypeOK
<1>8. CASE Finish \/ DeleteEvent
  BY <1>8 DEF Finish, DeleteEvent, TypeOK
<1>9. QED
  BY <1>1, <1>2, <1>3, <1>4, <1>5, <1>6, <1>7, <1>8, BeginsWith DEF Next

LEMMA RowsStep == TypeOK /\ RowsKept /\ [Next]_vars => RowsKept'
<1> SUFFICES ASSUME TypeOK, RowsKept, [Next]_vars PROVE RowsKept'
  OBVIOUS
<1> DEFINE Keeps(q) == /\ q.op = "update" =>
                            /\ q.new.row = q.read.row
                            /\ q.new.assignee \in Users \cup {q.read.assignee}
                       /\ q.op = "create" => q.new.row = "live"
<1>1. ASSUME NEW r \in Requests, NEW q, req' = [req EXCEPT ![r] = q], Keeps(q)
      PROVE  RowsKept'
  BY <1>1, RequestSet DEF RowsKept
<1>2. Keeps(Idle)
  BY DEF Idle
<1>3. CASE UNCHANGED req
  BY <1>3 DEF RowsKept
<1>4. ASSUME NEW r \in Requests, BeginUpdate(r) PROVE RowsKept'
  <2>1. PICK t \in Tasks, new \in Task : Updating(r, t, new)
    BY <1>4, UpdateBegins
  <2>2. Keeps([op |-> "update", task |-> t, read |-> task[t], new |-> new])
    BY <2>1 DEF Updating
  <2>3. QED
    BY <1>1, <2>1, <2>2 DEF Updating, Begin
<1>5. ASSUME NEW r \in Requests,
             BeginAdd(r) \/ BeginRemove(r) \/ BeginCreate(r) \/ BeginDelete(r)
      PROVE  RowsKept'
  BY <1>1, <1>5 DEF BeginAdd, BeginRemove, BeginCreate, BeginDelete, Begin
<1>6. ASSUME NEW r \in Requests,
             CommitAdd(r) \/ CommitRemove(r) \/ CommitCreate(r) \/ CommitUpdate(r)
               \/ CommitDelete(r) \/ Notify(r) \/ Fail(r)
      PROVE  RowsKept'
  BY <1>1, <1>2, <1>6 DEF CommitAdd, CommitRemove, CommitCreate, CommitUpdate,
     CommitDelete, Notify, Fail, Ends, Notifies
<1>7. QED
  BY <1>3, <1>4, <1>5, <1>6 DEF Next, Finish, DeleteEvent, vars

-----------------------------------------------------------------------------
(* The organizers. *)

LEMMA AnotherOrganizer ==
    ASSUME TypeOK, Cardinality(organizers) > 1, NEW u
    PROVE  \E o \in organizers : o # u
<1>1. IsFiniteSet(organizers)
  BY TeamAssumption, FS_Subset DEF TypeOK
<1> SUFFICES ASSUME \A o \in organizers : o = u PROVE FALSE
  OBVIOUS
<1>2. organizers \subseteq {u}
  OBVIOUS
<1>3. IsFiniteSet({u}) /\ Cardinality({u}) = 1
  BY FS_Singleton
<1>4. Cardinality(organizers) <= 1
  BY <1>2, <1>3, FS_Subset
<1>5. Cardinality(organizers) \in Nat
  BY <1>1, FS_CardinalityType
<1>6. QED
  BY <1>4, <1>5

LEMMA OrganizerStep ==
    TypeOK /\ OrganizerRemains /\ RemovalsApart /\ [Next]_vars
        => OrganizerRemains' /\ RemovalsApart'
<1> SUFFICES ASSUME TypeOK, OrganizerRemains, RemovalsApart, [Next]_vars,
                    "removal" \notin raced'
             PROVE  OrganizerRemains' /\ RemovalsApart'
  BY DEF OrganizerRemains, RemovalsApart
<1>0. "removal" \notin raced
  BY RacedGrows
<1> DEFINE Removes(q) == q.op = "remove"
<1>1. ASSUME NEW r \in Requests, NEW q, req' = [req EXCEPT ![r] = q],
             ~Removes(q), organizers \subseteq organizers'
      PROVE  OrganizerRemains' /\ RemovalsApart'
  BY <1>0, <1>1, RequestSet DEF OrganizerRemains, RemovalsApart
<1>2. ASSUME NEW r \in Requests, BeginRemove(r)
      PROVE  OrganizerRemains' /\ RemovalsApart'
  <2>1. PICK who \in Users : /\ Cardinality(organizers) > 1
                             /\ Begin(r, [op |-> "remove", user |-> who])
    BY <1>2 DEF BeginRemove
  <2>2. \E o \in organizers : o # who
    BY <2>1, AnotherOrganizer
  <2>3. \A s \in Requests : req[s].op # "remove"
    BY <2>1 DEF Begin, Overlaps
  <2>4. organizers' = organizers
    BY <2>1 DEF Begin
  <2>5. QED
    BY <1>0, <2>1, <2>2, <2>3, <2>4, RequestSet DEF Begin, OrganizerRemains, RemovalsApart
<1>3. ASSUME NEW r \in Requests, CommitRemove(r)
      PROVE  OrganizerRemains' /\ RemovalsApart'
  <2>1. \A s \in Requests : s # r => req[s].op # "remove"
    BY <1>0, <1>3 DEF CommitRemove, RemovalsApart
  <2>2. \E o \in organizers' : TRUE
    BY <1>0, <1>3 DEF CommitRemove, RemovalsApart
  <2>3. \A s \in Requests : req'[s].op # "remove"
    BY <1>3, <2>1, RequestSet DEF CommitRemove, Ends, Idle
  <2>4. QED
    BY <2>2, <2>3 DEF OrganizerRemains, RemovalsApart
<1>4. ASSUME NEW r \in Requests,
             \/ BeginAdd(r) \/ BeginCreate(r) \/ BeginUpdate(r) \/ BeginDelete(r)
      PROVE  OrganizerRemains' /\ RemovalsApart'
  <2>1. ASSUME NEW q, q.op # "remove", Begin(r, q)
        PROVE  OrganizerRemains' /\ RemovalsApart'
    BY <1>1, <2>1 DEF Begin
  <2>2. CASE BeginUpdate(r)
    BY <2>1, <2>2, UpdateBegins DEF Updating
  <2>3. QED
    BY <1>4, <2>1, <2>2 DEF BeginAdd, BeginCreate, BeginDelete
<1>5. ASSUME NEW r \in Requests,
             CommitAdd(r) \/ CommitCreate(r) \/ CommitUpdate(r)
               \/ CommitDelete(r) \/ Notify(r) \/ Fail(r)
      PROVE  OrganizerRemains' /\ RemovalsApart'
  BY <1>1, <1>5 DEF CommitAdd, CommitCreate, CommitUpdate,
     CommitDelete, Notify, Fail, Ends, Notifies, Idle
<1>6. CASE Finish \/ DeleteEvent \/ UNCHANGED vars
  BY <1>0, <1>6 DEF Finish, DeleteEvent, vars, OrganizerRemains, RemovalsApart
<1>7. QED
  BY <1>2, <1>3, <1>4, <1>5, <1>6 DEF Next

-----------------------------------------------------------------------------
(* The titles. *)

\* The tasks that are live after a step of a request that writes no title were
\* live before, with the titles they have.
LEMMA TitleStep ==
    TypeOK /\ TitlesUnique /\ TitlesApart /\ RowsKept /\ [Next]_vars
        => TitlesUnique' /\ TitlesApart'
<1> SUFFICES ASSUME TypeOK, TitlesUnique, TitlesApart, RowsKept, [Next]_vars,
                    "title" \notin raced'
             PROVE  TitlesUnique' /\ TitlesApart'
  BY DEF TitlesUnique, TitlesApart
<1> DEFINE LiveTasks == {t \in Tasks : Live(t)}
<1>0. /\ \A t, s \in LiveTasks : task[t].title = task[s].title => t = s
      /\ \A r, s \in Requests : WritesTitle(req[r]) /\ WritesTitle(req[s]) => r = s
      /\ \A r \in Requests : WritesTitle(req[r]) =>
            \A t \in LiveTasks : task[t].title # req[r].new.title
  BY RacedGrows DEF TitlesUnique, TitlesApart, Taken
<1>1. ASSUME NEW r \in Requests, NEW q, req' = [req EXCEPT ![r] = q],
             ~WritesTitle(q),
             \A t \in Tasks : Live(t)' => Live(t) /\ task'[t].title = task[t].title
      PROVE  TitlesUnique' /\ TitlesApart'
  <2>1. TitlesUnique'
    BY <1>0, <1>1 DEF TitlesUnique
  <2>2. \A s \in Requests : WritesTitle(req'[s]) => s # r /\ req'[s] = req[s]
    BY <1>1, RequestSet
  <2>3. QED
    BY <1>0, <1>1, <2>1, <2>2 DEF TitlesApart, Taken
<1>2. ~WritesTitle(Idle) /\ \A n : ~WritesTitle([op |-> "notify", notice |-> n])
  BY DEF WritesTitle, Idle
<1>3. UNCHANGED task => \A t \in Tasks : Live(t)' => Live(t) /\ task'[t].title = task[t].title
  BY DEF Live
<1>4. ASSUME NEW r \in Requests, NEW q, Begin(r, q),
             WritesTitle(q) => ~Taken(q.new.title)
      PROVE  TitlesUnique' /\ TitlesApart'
  <2>1. CASE ~WritesTitle(q)
    BY <1>1, <1>3, <1>4, <2>1 DEF Begin
  <2>2. CASE WritesTitle(q)
    <3>1. \A s \in Requests : ~WritesTitle(req[s])
      BY <1>4, <2>2 DEF Begin, Overlaps
    <3>2. \A s \in Requests : s # r => ~WritesTitle(req'[s])
      BY <1>4, <3>1, RequestSet DEF Begin
    <3>3. req'[r] = q
      BY <1>4, RequestSet DEF Begin
    <3>4. UNCHANGED task
      BY <1>4 DEF Begin
    <3>5. QED
      BY <1>0, <1>4, <2>2, <3>2, <3>3, <3>4 DEF TitlesUnique, TitlesApart, Taken, Live
  <2>3. QED
    BY <2>1, <2>2
<1>5. ASSUME NEW r \in Requests,
             BeginAdd(r) \/ BeginRemove(r) \/ BeginCreate(r) \/ BeginDelete(r)
      PROVE  TitlesUnique' /\ TitlesApart'
  BY <1>4, <1>5 DEF BeginAdd, BeginRemove, BeginCreate, BeginDelete, WritesTitle
<1>6. ASSUME NEW r \in Requests, BeginUpdate(r)
      PROVE  TitlesUnique' /\ TitlesApart'
  BY <1>4, <1>6, UpdateBegins DEF Updating, WritesTitle
<1>7. ASSUME NEW r \in Requests, CommitCreate(r)
      PROVE  TitlesUnique' /\ TitlesApart'
  <2> DEFINE q == req[r]
  <2>1. /\ q.task \in Tasks /\ q.new \in Task
        /\ WritesTitle(q) /\ task' = [task EXCEPT ![q.task] = q.new]
    BY <1>7, RequestShape DEF CommitCreate, WritesTitle
  <2>2. \A t \in Tasks : t # q.task => task'[t] = task[t]
    BY <2>1 DEF TypeOK
  <2>3. task'[q.task] = q.new
    BY <2>1 DEF TypeOK
  <2>4. TitlesUnique'
    BY <1>0, <2>1, <2>2, <2>3 DEF TitlesUnique, Live
  <2>5. \A s \in Requests : ~WritesTitle(req'[s])
    BY <1>0, <1>2, <1>7, <2>1, RequestSet DEF CommitCreate, Ends, Notifies
  <2>6. QED
    BY <2>4, <2>5 DEF TitlesApart
<1>8. ASSUME NEW r \in Requests, CommitUpdate(r)
      PROVE  TitlesUnique' /\ TitlesApart'
  <2> DEFINE q == req[r]
  <2>1. /\ q.op = "update" /\ q.task \in Tasks /\ q.new \in Task /\ q.read \in Task
        /\ q.new.row = q.read.row
        /\ req' = [req EXCEPT ![r] = Idle]
    BY <1>8, RequestShape DEF CommitUpdate, Ends, RowsKept
  <2>2. CASE ~Live(q.task)
    BY <1>1, <1>2, <1>3, <1>8, <2>1, <2>2 DEF CommitUpdate
  <2>3. CASE Live(q.task)
    <3>1. task' = [task EXCEPT ![q.task] = Updated(task[q.task], q)]
      BY <1>8, <2>3 DEF CommitUpdate, Updated
    <3>2. \A t \in Tasks : t # q.task => task'[t] = task[t]
      BY <2>1, <3>1 DEF TypeOK
    <3>3. /\ task'[q.task].row = task[q.task].row
          /\ task'[q.task].title = IF q.new.title # q.read.title THEN q.new.title
                                   ELSE task[q.task].title
      BY <2>1, <3>1, UpdatedTask DEF TypeOK
    <3>4. CASE ~WritesTitle(q)
      <4>1. \A t \in Tasks : Live(t)' => Live(t) /\ task'[t].title = task[t].title
        BY <2>1, <3>2, <3>3, <3>4 DEF Live, WritesTitle
      <4>2. QED
        BY <1>1, <1>2, <2>1, <4>1
    <3>5. CASE WritesTitle(q)
      <4>1. task'[q.task].title = q.new.title
        BY <2>1, <3>3, <3>5 DEF WritesTitle
      <4>2. TitlesUnique'
        BY <1>0, <2>1, <3>2, <3>3, <3>5, <4>1 DEF TitlesUnique, Live
      <4>3. \A s \in Requests : ~WritesTitle(req'[s])
        BY <1>0, <1>2, <2>1, <3>5, RequestSet
      <4>4. QED
        BY <4>2, <4>3 DEF TitlesApart
    <3>6. QED
      BY <3>4, <3>5
  <2>4. QED
    BY <2>2, <2>3
<1>9. ASSUME NEW r \in Requests, CommitDelete(r)
      PROVE  TitlesUnique' /\ TitlesApart'
  <2>1. req[r].task \in Tasks /\ task[req[r].task] \in Task
    BY <1>9, RequestShape DEF CommitDelete, TypeOK
  <2>2. \A t \in Tasks : t # req[r].task => task'[t] = task[t]
    BY <1>9, <2>1 DEF CommitDelete, TypeOK
  <2>3. task'[req[r].task].row = "deleted"
    BY <1>9, <2>1 DEF CommitDelete, TypeOK, Task
  <2>4. QED
    BY <1>1, <1>2, <1>9, <2>1, <2>2, <2>3 DEF CommitDelete, Ends, Live
<1>10. ASSUME NEW r \in Requests,
              CommitAdd(r) \/ CommitRemove(r) \/ Notify(r) \/ Fail(r)
       PROVE  TitlesUnique' /\ TitlesApart'
  BY <1>1, <1>2, <1>3, <1>10
     DEF CommitAdd, CommitRemove, Notify, Fail, Ends, Notifies
<1>11. CASE Finish \/ DeleteEvent \/ UNCHANGED vars
  BY <1>0, <1>11 DEF Finish, DeleteEvent, vars, TitlesUnique, TitlesApart, Taken, Live
<1>12. QED
  BY <1>5, <1>6, <1>7, <1>8, <1>9, <1>10, <1>11 DEF Next

-----------------------------------------------------------------------------
(* Finished events. *)

LEMMA ThawStep == TypeOK /\ NothingThaws /\ [Next]_vars => NothingThaws'
<1> SUFFICES ASSUME TypeOK, NothingThaws, [Next]_vars, "freeze" \notin raced', finished'
             PROVE  \A r \in Requests : ~WritesTask(req'[r])
  BY DEF NothingThaws
<1>1. finished => \A r \in Requests : ~WritesTask(req[r])
  BY RacedGrows DEF NothingThaws
<1>2. ASSUME NEW r \in Requests, NEW q, req' = [req EXCEPT ![r] = q],
             finished, ~WritesTask(q)
      PROVE  \A s \in Requests : ~WritesTask(req'[s])
  BY <1>1, <1>2, RequestSet
<1>3. ~WritesTask(Idle) /\ \A n : ~WritesTask([op |-> "notify", notice |-> n])
  BY DEF WritesTask, Idle
<1>4. ASSUME NEW r \in Requests, BeginAdd(r) \/ BeginRemove(r) \/ BeginDelete(r)
      PROVE  \A s \in Requests : ~WritesTask(req'[s])
  BY <1>2, <1>4 DEF BeginAdd, BeginRemove, BeginDelete, Begin, WritesTask
<1>5. ASSUME NEW r \in Requests, BeginCreate(r) \/ BeginUpdate(r)
      PROVE  FALSE
  <2>1. CASE BeginCreate(r)
    BY <2>1 DEF BeginCreate, Begin, Closed
  <2>2. CASE BeginUpdate(r)
    BY <2>2, UpdateBegins DEF Updating, Begin, Closed
  <2>3. QED
    BY <1>5, <2>1, <2>2
<1>6. ASSUME NEW r \in Requests,
             CommitAdd(r) \/ CommitRemove(r) \/ CommitCreate(r) \/ CommitUpdate(r)
               \/ CommitDelete(r) \/ Notify(r) \/ Fail(r)
      PROVE  \A s \in Requests : ~WritesTask(req'[s])
  BY <1>2, <1>3, <1>6 DEF CommitAdd, CommitRemove, CommitCreate, CommitUpdate,
     CommitDelete, Notify, Fail, Ends, Notifies
<1>7. CASE Finish
  BY <1>7 DEF Finish
<1>8. CASE DeleteEvent \/ UNCHANGED vars
  BY <1>1, <1>8 DEF DeleteEvent, vars
<1>9. QED
  BY <1>4, <1>5, <1>6, <1>7, <1>8 DEF Next

LEMMA FrozenStep ==
    ASSUME TypeOK, NothingThaws, [Next]_vars, finished, "freeze" \notin raced,
           NEW t \in Tasks
    PROVE  task'[t] = task[t] \/ task'[t].row = "deleted"
<1>1. \A r \in Requests : ~WritesTask(req[r])
  BY DEF NothingThaws
<1>2. ASSUME NEW r \in Requests, CommitDelete(r)
      PROVE  task'[t] = task[t] \/ task'[t].row = "deleted"
  BY <1>2, RequestShape DEF CommitDelete, TypeOK, Task
<1>3. ASSUME NEW r \in Requests, NEW q, Begin(r, q)
      PROVE  task' = task
  BY <1>3 DEF Begin
<1>4. ASSUME NEW r \in Requests, CommitCreate(r) \/ CommitUpdate(r)
      PROVE  FALSE
  BY <1>1, <1>4 DEF CommitCreate, CommitUpdate, WritesTask
<1>5. QED
  BY <1>2, <1>3, <1>4, BeginsWith DEF Next, CommitAdd, CommitRemove,
     Notify, Fail, Finish, DeleteEvent, vars

-----------------------------------------------------------------------------
(* The assignees. *)

\* The user u has been told of the task t, is going to be, or never will.
Knows(u, t) ==
    \/ <<u, t>> \in notices \cup lost
    \/ \E r \in Requests : req[r].op = "notify" /\ req[r].notice = <<u, t>>

LEMMA KnowStep ==
    TypeOK /\ RowsKept /\ AssigneesKnow /\ [Next]_vars => AssigneesKnow'
<1> SUFFICES ASSUME TypeOK, RowsKept, AssigneesKnow, [Next]_vars,
                    NEW t \in Tasks, Live(t)', task'[t].assignee # Nobody
             PROVE  Knows(task[t].assignee, t)'
  BY DEF AssigneesKnow, Knows
<1> DEFINE u == task[t].assignee
<1>0. Live(t) /\ u # Nobody => Knows(u, t)
  BY DEF AssigneesKnow, Knows
<1>1. ASSUME NEW r \in Requests, NEW q, req' = [req EXCEPT ![r] = q],
             req[r].op # "notify", notices \subseteq notices', UNCHANGED lost, NEW v,
             Knows(v, t)
      PROVE  Knows(v, t)'
  BY <1>1, RequestSet DEF Knows
<1>2. UNCHANGED task => Knows(u, t)
  BY <1>0 DEF Live
<1>3. ASSUME NEW r \in Requests, NEW q, Begin(r, q)
      PROVE  Knows(task[t].assignee, t)'
  <2>1. /\ req' = [req EXCEPT ![r] = q] /\ req[r].op # "notify"
        /\ UNCHANGED <<task, notices, lost>>
    BY <1>3 DEF Begin, Idle
  <2>2. Knows(task[t].assignee, t)
    BY <1>2, <2>1
  <2>3. QED
    BY <1>1, <2>1, <2>2
<1>4. ASSUME NEW r \in Requests, CommitAdd(r) \/ CommitRemove(r)
      PROVE  Knows(task[t].assignee, t)'
  BY <1>1, <1>2, <1>4 DEF CommitAdd, CommitRemove, Ends, Notifies
<1>5. ASSUME NEW r \in Requests, CommitCreate(r)
      PROVE  Knows(task[t].assignee, t)'
  <2> DEFINE q == req[r]
  <2>1. /\ q.task \in Tasks /\ q.op # "notify"
        /\ task' = [task EXCEPT ![q.task] = q.new]
    BY <1>5, RequestShape DEF CommitCreate
  <2>2. CASE t = q.task
    <3>1. task'[t] = q.new
      BY <2>1, <2>2 DEF TypeOK
    <3>2. Notifies(r, <<q.new.assignee, t>>)
      BY <1>5, <2>2, <3>1 DEF CommitCreate
    <3>3. req'[r] = [op |-> "notify", notice |-> <<q.new.assignee, t>>]
      BY <3>2, RequestSet DEF Notifies
    <3>4. QED
      BY <3>1, <3>3 DEF Knows
  <2>3. CASE t # q.task
    <3>1. task'[t] = task[t]
      BY <2>1, <2>3 DEF TypeOK
    <3>2. Knows(u, t)
      BY <1>0, <3>1 DEF Live
    <3>3. QED
      BY <1>1, <1>5, <2>1, <3>1, <3>2 DEF CommitCreate, Ends, Notifies
  <2>4. QED
    BY <2>2, <2>3
<1>6. ASSUME NEW r \in Requests, CommitUpdate(r)
      PROVE  Knows(task[t].assignee, t)'
  <2> DEFINE q == req[r]
  <2>1. /\ q.op = "update" /\ q.task \in Tasks /\ q.new \in Task /\ q.read \in Task
        /\ q.new.row = q.read.row
    BY <1>6, RequestShape DEF CommitUpdate, RowsKept
  <2>2. notices \subseteq notices' /\ UNCHANGED lost /\ Ends(r)
    BY <1>6 DEF CommitUpdate
  <2>3. CASE task'[t].assignee = u /\ Live(t)
    <3>1. Knows(u, t)
      BY <1>0, <2>3
    <3>2. QED
      BY <1>1, <2>1, <2>2, <2>3, <3>1 DEF Ends
  <2>4. CASE ~(task'[t].assignee = u /\ Live(t))
    <3>1. Live(q.task) /\ t = q.task
      BY <1>6, <2>1, <2>4 DEF CommitUpdate, TypeOK, Live
    <3>2. task'[t] = Updated(task[t], q)
      BY <1>6, <2>1, <3>1 DEF CommitUpdate, Updated, TypeOK
    <3>3. task'[t].assignee = q.new.assignee /\ q.new.assignee # q.read.assignee
      BY <2>1, <2>4, <3>1, <3>2, UpdatedTask DEF TypeOK
    <3>4. <<q.new.assignee, t>> \in notices'
      BY <1>6, <3>1, <3>3 DEF CommitUpdate
    <3>5. QED
      BY <3>3, <3>4 DEF Knows
  <2>5. QED
    BY <2>3, <2>4
<1>7. ASSUME NEW r \in Requests, CommitDelete(r)
      PROVE  Knows(task[t].assignee, t)'
  <2>1. req[r].task \in Tasks /\ task[req[r].task] \in Task
    BY <1>7, RequestShape DEF CommitDelete, TypeOK
  <2>2. task'[t] = task[t]
    BY <1>7, <2>1 DEF CommitDelete, TypeOK, Task, Live
  <2>3. Knows(u, t)
    BY <1>0, <2>2 DEF Live
  <2>4. QED
    BY <1>1, <1>7, <2>2, <2>3 DEF CommitDelete, Ends
<1>8. ASSUME NEW r \in Requests, Notify(r) \/ Fail(r)
      PROVE  Knows(task[t].assignee, t)'
  <2>1. Knows(u, t) /\ task' = task
    BY <1>2, <1>8 DEF Notify, Fail
  <2>2. \A s \in Requests : s # r => req'[s] = req[s]
    BY <1>8, RequestSet DEF Notify, Fail, Ends
  <2>3. req[r].op = "notify" => req[r].notice \in notices' \cup lost'
    BY <1>8 DEF Notify, Fail
  <2>4. notices \cup lost \subseteq notices' \cup lost'
    BY <1>8 DEF Notify, Fail
  <2>5. QED
    BY <2>1, <2>2, <2>3, <2>4 DEF Knows
<1>9. CASE Finish \/ DeleteEvent \/ UNCHANGED vars
  BY <1>2, <1>9 DEF Finish, DeleteEvent, vars, Knows
<1>10. QED
  BY <1>3, <1>4, <1>5, <1>6, <1>7, <1>8, <1>9, BeginsWith DEF Next

-----------------------------------------------------------------------------

LEMMA TeamStep == TeamInv /\ [Next]_vars => TeamInv'
  BY TypeStep, RowsStep, OrganizerStep, TitleStep, ThawStep, KnowStep DEF TeamInv

THEOREM TeamInvariant == Spec => []TeamInv
  BY InitTeam, TeamStep, PTL DEF Spec

\* An event keeps an organizer unless two removals overlap, however many
\* requests of other kinds they overlap with.
THEOREM OrganizersRemain == Spec => []OrganizerRemains
<1>1. TeamInv => OrganizerRemains
  BY DEF TeamInv
<1>2. QED
  BY <1>1, TeamInvariant, PTL

\* The live tasks of an event have different titles unless two requests that
\* write titles overlap, and nobody is assigned a task without being told of it.
THEOREM TasksStaySound == Spec => []TasksSound
<1>1. TeamInv => TasksSound
  BY DEF TeamInv, TasksSound
<1>2. QED
  BY <1>1, TeamInvariant, PTL

\* The tasks of an event that has ended are at most deleted.
THEOREM FinishedStaysFrozen == Spec => FinishedFrozen
<1>1. TeamInv /\ [Next]_vars =>
        [finished /\ "freeze" \notin raced =>
            \A t \in Tasks : task'[t] = task[t] \/ task'[t].row = "deleted"]_vars
  BY FrozenStep DEF TeamInv
<1>2. QED
  BY <1>1, TeamInvariant, PTL DEF Spec, FinishedFrozen

=============================================================================
