----------------------------- MODULE EventTeam -----------------------------
(***************************************************************************)
(* The organizers of one event and its tasks.  A request reads and checks  *)
(* everything first and writes at its commit, so other requests fit in     *)
(* between; nothing but primary keys is checked again by the database.     *)
(***************************************************************************)
EXTENDS Naturals, FiniteSets

CONSTANTS
    Users,        \* those whose role lets them be organizers
    Admins,       \* the admins among them
    Creator,      \* created_by of the event
    Tasks,        \* the tasks that are created
    Titles,       \* the titles of tasks
    Requests,     \* the requests that may run at the same time
    MaxRequests,  \* bound: the requests in a behaviour
    Nobody        \* no assignee

ASSUME TeamAssumption ==
    /\ Creator \in Users /\ Admins \subseteq Users /\ Nobody \notin Users
    /\ IsFiniteSet(Users) /\ Titles # {}
    /\ MaxRequests \in Nat

VARIABLES
    organizers,  \* the rows of event_organizers
    task,        \* the row of each task
    finished,    \* the event is COMPLETED or CANCELLED
    deleted,     \* the event is deleted
    notices,     \* who was notified of which task (or of joining the team)
    req,         \* the request in progress
    served,      \* requests begun so far
    lost,        \* history: notices whose request died before storing them
    raced        \* history: which kinds of writes have overlapped

vars == <<organizers, task, finished, deleted, notices, req, served, lost, raced>>

Task == [row : {"none", "live", "deleted"}, title : Titles,
         assignee : Users \cup {Nobody}, completed : BOOLEAN]

Team == "team"
Notice == Users \X (Tasks \cup {Team})
Idle == [op |-> "idle"]

Request ==
    {Idle}
    \cup [op : {"add", "remove"}, user : Users]
    \cup [op : {"create"}, task : Tasks, new : Task]
    \cup [op : {"update"}, task : Tasks, read : Task, new : Task]
    \cup [op : {"delete"}, task : Tasks]
    \cup [op : {"notify"}, notice : Notice]

TypeOK ==
    /\ organizers \subseteq Users
    /\ task \in [Tasks -> Task]
    /\ finished \in BOOLEAN /\ deleted \in BOOLEAN
    /\ notices \subseteq Notice /\ lost \subseteq Notice
    /\ DOMAIN req = Requests /\ \A r \in Requests : req[r] \in Request
    /\ served \in 0 .. MaxRequests
    /\ raced \subseteq {"removal", "title", "freeze"}

\* create_event makes the creator an organizer.
Init ==
    /\ organizers = {Creator}
    /\ task \in [Tasks -> {[row |-> "none", title |-> t, assignee |-> Nobody,
                            completed |-> FALSE] : t \in {CHOOSE t \in Titles : TRUE}}]
    /\ finished = FALSE /\ deleted = FALSE
    /\ notices = {}
    /\ req = [r \in Requests |-> Idle]
    /\ served = 0
    /\ lost = {}
    /\ raced = {}

\* check_event_permission and require_resource_ownership.
Manages(u) == u \in Admins \/ u = Creator \/ u \in organizers
Owns(u) == u \in Admins \/ u = Creator

Live(t) == task[t].row = "live"

Taken(title) == \E t \in Tasks : Live(t) /\ task[t].title = title

\* Mutant: the tasks of deleted events are frozen instead.
ClosedIfDeleted == deleted

\* The status lets no task be created or modified.
Closed == finished

\* An admin's membership is an admin's business.
MayMove(u, who) == who \in Admins => u \in Admins

-----------------------------------------------------------------------------

WritesTask(q) == q.op \in {"create", "update"}
WritesTitle(q) == q.op = "create" \/ (q.op = "update" /\ q.new.title # q.read.title)

\* What the request q writes next to another request that writes the same.
Overlaps(q) ==
    (IF q.op = "remove" /\ \E r \in Requests : req[r].op = "remove"
       THEN {"removal"} ELSE {})
    \cup
    (IF WritesTitle(q) /\ \E r \in Requests : WritesTitle(req[r])
       THEN {"title"} ELSE {})

\* The request q has passed its checks.
Begin(r, q) ==
    /\ req[r] = Idle
    /\ served < MaxRequests
    /\ served' = served + 1
    /\ req' = [req EXCEPT ![r] = q]
    /\ raced' = raced \cup Overlaps(q)
    /\ UNCHANGED <<organizers, task, finished, deleted, notices, lost>>

\* add_organizer also finds deleted events.
BeginAdd(r) ==
    \E u, who \in Users :
        /\ Owns(u) /\ MayMove(u, who)
        /\ who \notin organizers
        /\ Begin(r, [op |-> "add", user |-> who])

\* Mutant: the count is compared with one too few.
BeginRemoveLast(r) ==
    \E u, who \in Users :
        /\ Owns(u) /\ MayMove(u, who)
        /\ Cardinality(organizers) >= 1
        /\ Begin(r, [op |-> "remove", user |-> who])

BeginRemove(r) ==
    \E u, who \in Users :
        /\ Owns(u) /\ MayMove(u, who)
        /\ Cardinality(organizers) > 1
        /\ Begin(r, [op |-> "remove", user |-> who])

BeginCreate(r) ==
    \E u \in Users, t \in Tasks, title \in Titles, a \in Users \cup {Nobody} :
        /\ ~deleted
        /\ Manages(u)
        /\ ~Closed
        /\ a # Nobody => Manages(a)
        /\ ~Taken(title)
        /\ task[t].row = "none"
        /\ ~\E o \in Requests : req[o].op = "create" /\ req[o].task = t
        /\ Begin(r, [op |-> "create", task |-> t,
                     new |-> [row |-> "live", title |-> title, assignee |-> a,
                              completed |-> FALSE]])

\* update_task: the team changes everything but the completion, which is the
\* assignee's and the admins'.  None leaves a column as it is, so a task does
\* not become unassigned.
BeginUpdateOf(r, u, t, new) ==
    LET old == task[t] IN
    /\ Live(t)
    /\ Manages(u) \/ (old.assignee = u /\ new.title = old.title
                        /\ new.assignee = old.assignee)
    /\ ~Closed
    /\ new.completed # old.completed => u \in Admins \/ old.assignee = u
    /\ new.title # old.title => ~Taken(new.title)
    /\ new.assignee # old.assignee => Manages(new.assignee)
    /\ Begin(r, [op |-> "update", task |-> t, read |-> old, new |-> new])

BeginUpdate(r) ==
    \E u \in Users, t \in Tasks, title \in Titles, done \in BOOLEAN :
    \E a \in Users \cup {task[t].assignee} :
        BeginUpdateOf(r, u, t, [row |-> task[t].row, title |-> title,
                                assignee |-> a, completed |-> done])

\* delete_task looks neither at the status nor at is_deleted.
BeginDelete(r) ==
    \E u \in Users, t \in Tasks :
        /\ Live(t)
        /\ Manages(u)
        /\ Begin(r, [op |-> "delete", task |-> t])

-----------------------------------------------------------------------------

Ends(r) == req' = [req EXCEPT ![r] = Idle]
Notifies(r, notice) == req' = [req EXCEPT ![r] = [op |-> "notify", notice |-> notice]]

\* The primary key rejects an organizer whom another request has added.
CommitAdd(r) ==
    /\ req[r].op = "add"
    /\ \/ /\ req[r].user \notin organizers
          /\ organizers' = organizers \cup {req[r].user}
          /\ Notifies(r, <<req[r].user, Team>>)
       \/ /\ req[r].user \in organizers
          /\ Ends(r) /\ UNCHANGED organizers
    /\ UNCHANGED <<task, finished, deleted, notices, served, lost, raced>>

CommitRemove(r) ==
    /\ req[r].op = "remove"
    /\ organizers' = organizers \ {req[r].user}
    /\ Ends(r)
    /\ UNCHANGED <<task, finished, deleted, notices, served, lost, raced>>

\* Mutant: the assignee of a new task is not told.
CommitCreateQuietly(r) ==
    /\ req[r].op = "create"
    /\ task' = [task EXCEPT ![req[r].task] = req[r].new]
    /\ Ends(r)
    /\ UNCHANGED <<organizers, finished, deleted, notices, served, lost, raced>>

\* The assignee is notified in a transaction of its own.
CommitCreate(r) ==
    LET q == req[r] IN
    /\ q.op = "create"
    /\ task' = [task EXCEPT ![q.task] = q.new]
    /\ \/ q.new.assignee = Nobody /\ Ends(r)
       \/ q.new.assignee # Nobody /\ Notifies(r, <<q.new.assignee, q.task>>)
    /\ UNCHANGED <<organizers, finished, deleted, notices, served, lost, raced>>

\* The changed columns and the notice are committed together; a task that has
\* been deleted meanwhile makes the UPDATE fail.
CommitUpdate(r) ==
    LET q == req[r] IN
    /\ q.op = "update"
    /\ \/ /\ Live(q.task)
          /\ task' = [task EXCEPT ![q.task] =
                        [c \in DOMAIN @ |-> IF q.new[c] # q.read[c] THEN q.new[c] ELSE @[c]]]
          /\ notices' = IF q.new.assignee = q.read.assignee THEN notices
                        ELSE notices \cup {<<q.new.assignee, q.task>>}
       \/ /\ ~Live(q.task)
          /\ UNCHANGED <<task, notices>>
    /\ Ends(r)
    /\ UNCHANGED <<organizers, finished, deleted, served, lost, raced>>

CommitDelete(r) ==
    /\ req[r].op = "delete"
    /\ task' = [task EXCEPT ![req[r].task].row = "deleted"]
    /\ Ends(r)
    /\ UNCHANGED <<organizers, finished, deleted, notices, served, lost, raced>>

\* create_notification after the commit of the request.
Notify(r) ==
    /\ req[r].op = "notify"
    /\ notices' = notices \cup {req[r].notice}
    /\ Ends(r)
    /\ UNCHANGED <<organizers, task, finished, deleted, served, lost, raced>>

\* The process or its connection dies; what is not committed is undone.
Fail(r) ==
    /\ req[r] # Idle
    /\ lost' = IF req[r].op = "notify" THEN lost \cup {req[r].notice} ELSE lost
    /\ Ends(r)
    /\ UNCHANGED <<organizers, task, finished, deleted, notices, served, raced>>

\* update_event with status COMPLETED or CANCELLED.
Finish ==
    /\ ~deleted /\ ~finished
    /\ finished' = TRUE
    /\ raced' = IF \E r \in Requests : WritesTask(req[r])
                THEN raced \cup {"freeze"} ELSE raced
    /\ UNCHANGED <<organizers, task, deleted, notices, req, served, lost>>

DeleteEvent ==
    /\ ~deleted
    /\ deleted' = TRUE
    /\ UNCHANGED <<organizers, task, finished, notices, req, served, lost, raced>>

Next ==
    \/ \E r \in Requests :
         \/ BeginAdd(r) \/ BeginRemove(r)
         \/ BeginCreate(r) \/ BeginUpdate(r) \/ BeginDelete(r)
         \/ CommitAdd(r) \/ CommitRemove(r)
         \/ CommitCreate(r) \/ CommitUpdate(r) \/ CommitDelete(r)
         \/ Notify(r) \/ Fail(r)
    \/ Finish \/ DeleteEvent

Spec == Init /\ [][Next]_vars

-----------------------------------------------------------------------------

\* The event keeps an organizer as long as no two removals overlap, whatever
\* else does (services.py:409).
OrganizerRemains == "removal" \notin raced => organizers # {}

\* Two tasks have the same title only if two requests that write titles have
\* overlapped (tasks/services.py:68, :161).
TitlesUnique ==
    "title" \notin raced =>
        \A t, s \in Tasks : Live(t) /\ Live(s) /\ task[t].title = task[s].title => t = s

\* The tasks of a finished event are at most deleted, unless a request that
\* writes one was in progress when the event finished (tasks/services.py:142).
FinishedFrozen ==
    [][finished /\ "freeze" \notin raced =>
          \A t \in Tasks : task'[t] = task[t] \/ task'[t].row = "deleted"]_vars

\* Everybody who is assigned a task has been told, whatever overlaps; only a
\* request that dies after its commit leaves somebody without the notice.
AssigneesKnow ==
    \A t \in Tasks :
        Live(t) /\ task[t].assignee # Nobody =>
            LET notice == <<task[t].assignee, t>>
            IN  \/ notice \in notices \cup lost
                \/ \E r \in Requests : req[r].op = "notify" /\ req[r].notice = notice

\* The tasks of an event have titles of their own and assignees who know.
TasksSound == TypeOK /\ TitlesUnique /\ AssigneesKnow

=============================================================================
