# Gatherly-Backend in TLA+

This directory specifies Gatherly-Backend, the FastAPI service in `src/app`:
registrations and the waitlist of an event, its team and tasks, its pages, tags
and media, accounts with their sessions, second factor, moderation, profiles
and followers, what admins do, and notifications over websockets. The modules
are checked with TLC on small instances. Every safety property that a passing
run checks is also a theorem, proved with TLAPS for every value of the
constants; liveness is model-checked.

Contents: [inventory](#the-system) · [the database](#how-requests-meet) ·
[modules](#modules) · [runs](#runs) · [fairness](#fairness) ·
[proofs](#proofs) · [what the code does not keep](#where-code-and-documents-disagree) ·
[not modelled](#not-modelled) · [plan](#plan)

## The system

One process runs an asyncio event loop that serves HTTP and websockets; several
such processes may share one PostgreSQL database. Celery runs one periodic task
in another process. Redis holds the rate limiter's counters, a cache of event
lists, and Celery's queue.

| Component | State it keeps | Operations that change it | Talks to |
|---|---|---|---|
| Registration and waitlist (`attendees/`, parts of `events/services.py`) | `events.status, capacity, current_attendees, is_deleted`; one `attendees` row per event and user with `status` and `registered_at` | register, unregister (with promotion), update, publish and delete the event | notifications, after the commit |
| Event team and tasks (`events/services.py`, `tasks/`) | `event_organizers`, `tasks` | add and remove organizers; create, update, delete tasks | notifications: after the commit, or as the commit |
| Notifications (`notifications/`) | `notifications` rows; `ConnectionManager.active_connections` in memory | `create_notification`, mark one or all read, connect, disconnect, push | every component that notifies |
| Accounts, sessions, moderation (`users/services/users.py`, `users/services/profile.py`, `users/routes/auth.py`, `admin/services/admin_users.py`, `worker/`) | the `users` row, refresh tokens, `UserSession` rows, reset tokens, password history | login, email verification, logout, password change and reset, suspend, ban, unsuspend, delete, admin reset, revoke sessions, lift expired suspensions | mail; `get_current_user` guards every other component |
| Two-factor authentication (`users/services/twofa.py`) | secret, hashed backup codes, enabled flag | set up, verify, disable, new codes; asked for at login | both logins |
| Admin login, permissions, audit, bulk (`admin/`) | roles, permission rows, audit rows, notes, impersonation rows | admin login, grant, revoke, update, verify, impersonate, notes, bulk actions | accounts, notifications |
| Media, avatars, storage (`events/routes/media.py`, `users/services/avatar.py`, `core/storage.py`) | files on disk or S3 and the rows that name them | upload, delete, make cover, reorder; set and delete profile pictures | file system, S3; profiles |
| Profiles, preferences, social (`users/services/`, `social/`) | unique user columns, the profile and preferences rows, follows | rename, change the address, edit, follow, unfollow | media, by the profile's row |
| Search, slugs, list cache (`events/selectors.py`, `common/cache.py`) | `views_count`, 60 second copies of event lists in Redis | list, open, count a view | Redis |
| Tags, categories (`events/routes/tags.py`, `categories.py`) | `tags`, `event_tags` | add tags, remove a tag | – |
| Activity, dashboard, public profiles, analytics | none | read only | – |
| Ticketing | tables without handlers | – | – |
| Frame (`main.py`, `core/`, `common/`) | settings, the session of each request | rollback and answer on an exception | all |

What is hard about them, and what makes them correct:

* **Registration.** `register_for_event` decides from a copy of the counter and
  writes that copy plus one; `unregister_from_event` promotes the earliest
  waitlisted row and gives the seat on. Overlapping requests, resubmitted
  requests, deadlocks between the event's row and the attendees' rows, and
  deaths between two statements are the hazards. Correct means: the counter is
  the number of registered rows, never above the capacity; nobody waits next to
  a free seat; the waitlist is served in order; every request is answered.
* **Team and tasks.** Every check precedes the write and no constraint stands
  behind it. Correct means: an organizer remains, titles are unique, the tasks
  of finished events are frozen, and an assignee is told.
* **Notifications.** A push iterates by index over a list that handlers change
  while each send is awaited, and both handlers and pushes clean that list up.
  Correct means: the list holds the open connections, each exactly once; a push
  ends, reaches every open connection, none of them twice, and never announces
  what is not stored.
* **Accounts.** Five handlers and a Celery task write the same three columns,
  each a different subset; tokens and sessions are inserted by one transaction
  and deleted by another. Correct means: `is_active` agrees with `status`, a
  banned account is locked, tokens end with the password they were issued
  under, sessions have tokens, an expired suspension is lifted, and nothing but
  an account that an admin suspended for a time is taken up for that.
* **Second factor and admins.** A set-up replaces a secret that a verification
  is about to enable; a bulk request goes on in a session that a failed
  statement has broken; an action and its audit row are one commit or two.
  Correct means: nobody is locked out by a secret that was never shown, an
  admin who was let in has a second factor, admins are not moderated, the changes
  that are audited have one row each, and a bulk answer counts what was done.
* **Media and profiles.** The storage takes part in no transaction, and rows
  that are made on first use are made twice. Correct means: rows and files fit
  each other, an event has one cover, no request takes back what another has
  written, and what was answered is stored.
* **Pages and tags.** Copies of pages live for a minute, lists are counted and
  read by two SELECTs, and a request for tags inserts several rows that others
  may insert at the same time. Correct means: answers are recent, lists keep
  drafts to themselves (look-ups of single events do not), totals fit, views are
  counted, and tags come all or not at all.

## How requests meet

The models share one reading of the stack. A request owns one `AsyncSession`
(`common/dependencies.py:12`), hence one transaction at PostgreSQL's default
READ COMMITTED. A row that was read stays as it was read, in the session's
identity map. An UPDATE names the columns whose values differ from those read,
with values computed from the copy. It takes the row's lock until COMMIT or
ROLLBACK; sessions autoflush (`core/database.py:17`), so pending changes are
written before the next SELECT of the same session. Unique constraints and
foreign keys are checked by the database at the write. An exception closes the
session and rolls back. The lock manager, the deadlock detector and the unit of
work are outside `src/`; `map` marks the definitions for them as external.

Statements are separate steps where another request can tell the difference.
A statement that only reads what the request has locked, and a COMMIT that
follows its last write, are one step with it.

## Modules

| Module | Extends | Models |
|---|---|---|
| `Registration` | | the requests on one event's registrations, each an atomic step: the abstract specification |
| `RegistrationTx` | | the same requests as transactions, statement by statement, with locks, deadlocks and crashes; shown to implement `Registration` when they do not overlap, with a history of the overlaps that do harm |
| `EventTeam` | | organizers and tasks of one event: read and check, then commit, then notify |
| `Notifications` | | one user's notifications and websockets, at the grain of `await` |
| `Accounts` | | one user's account, tokens and sessions, under logins, password changes, moderation and the Celery task |
| `TwoFactor` | | the row of one user's second factor under all its requests and both logins |
| `AdminAccess` | `TwoFactor` | roles, permissions, the audit log, the bulk loop; the admins' login is `TwoFactor`'s |
| `Media` | | media of an event, pictures of a profile, and the storage |
| `Profiles` | `Media` | users' unique columns, profile, preferences and followers; the profile's row is `Media`'s |
| `EventTags` | | tags and their links, statement by statement |
| `EventPages` | `EventTags` | lists, pages, their copies in Redis, views, next to edits of events |
| `MCRegistration`, `MCRegistrationTx`, `MCEventTeam`, `MCNotifications`, `MCAdminAccess`, `MCProfiles`, `MCEventPages` | | symmetry sets and constants for TLC |
| `RegistrationProofs`, `TxProofs`, `AccountsProofs`, `EventTeamProofs`, `NotificationsProofs`, `AdminProofs`, `PagesProofs`, `ProfilesProofs` | their modules (`PagesProofs`: `EventPages` with `EventTags`; `ProfilesProofs`: `Profiles` with `Media`; `AdminProofs`: `AdminAccess` with `TwoFactor`) | theorems |

### `Registration`

`status`, `capacity`, `current_attendees`, `is_deleted` are the event's columns
and `attendee[u]` is the status of the row of user `u` (`"none"`: no row).
Timestamps are abstracted to their order: `before` holds `<<u, v>>` when
`registered_at` of `u` is the earlier. One event is enough: the handlers join
the rows of no two events. `Register` is `register_for_event`, `Unregister`
is `unregister_from_event` with the promotion (`LeaveSeat`, `NextInLine`),
`UpdateEvent`, `PublishEvent` and `DeleteEvent` are the handlers of the event
as far as they touch these columns. A rejected request changes nothing.
Deleting is possible again and again, as in the code, so the model never stops.

### `RegistrationTx`

`event`, `row` and `registered_at` are committed rows; `lock` says which
transaction holds which row; `tx[w]` is the request that worker `w` runs: its
program counter, the copy of the event (`seen`), the copy as an edit changed it
(`edit`), the attendee status it read, the timestamp it took and the user it
promotes. The endpoint's SELECT and its checks are `BeginAttendance`; the
SELECT of the attendee's row is `SelectForRegister` or `SelectForUnregister`;
a counter update waits for the event's row (`TakeSeat`); the INSERT or UPDATE
of the attendee and the COMMIT are `InsertRow`, `InsertConflicts` (the loser of
`uq_event_user`) and `ReuseRow`. A cancellation flushes the attendee
(`CancelRegistered`), then the autoflush before the query for the waitlist
writes the counter (`ReleaseSeat`, `ChooseNext`), then the promoted row is
written by its key (`Promote`). Edits are `BeginUpdate`, `BeginPublish`,
`BeginDelete` and `ApplyEdit`. `DeadlockAbort` and `Crash` roll back.

`Init` is any state before the end of an event that a serial history leads to; `FreshInit` a new event;
`SeatedInit` an event whose clients hold seats and that is full if anybody
waits. `R` maps the rows to `Registration`; `ApartSpec` are the behaviours in
which requests overlap only if they are copies of one registration, and those
implement it. Other overlaps do not: two users registering for one seat, or two
copies of a cancellation, overbook the event.

`Submit` adds to `raced` what the overlap of a request that begins with those
that run may break: `"seats"`, two requests for seats; `"capacity"`, a cut of
the capacity with a registration; `"closing"`, the end of the event with a
request for a seat; `"status"`, two changes of the status; `"leaving"`, two
users who cancel at once. The properties name the overlap that breaks them, so
they say of every other interleaving that it does no harm. Two copies of one
registration do none, unless the event changed between their reads: after a
raise, the copy that waitlists may overwrite the one that registers.

### `EventTeam`

`organizers`, `task`, `finished` and `deleted` are rows; `req[r]` is a request
that has passed its checks and has not committed. `Begin...` are the checks,
`Commit...` the writes, `Notify` the call of `create_notification` that follows
the commit. `CommitUpdate` stores the notice in the same step because
`update_task` leaves the COMMIT to `create_notification`; `create_task` and
`add_organizer` commit first. `raced` remembers which kinds of writes have
overlapped: `"removal"` two removals of organizers, `"title"` two writes of
titles, `"freeze"` the event's end with a write of a task. Descriptions and the
listing are left out.

### `Notifications`

`active` is the list under the user's key, `lists` counts how often that key
was made anew (a running push keeps iterating over the old list). `push[n]` is
where `create_notification` of `n` is: index, awaited connection, failed
connections, and those present at the start. `Continue` is the code between
two awaits: next element, or the clean-up and the end. `Connect` appends,
`HandlerReturns` removes, `Lose` is a peer that goes away unseen. The text of
notices and the unread counts in them are left out.

### `Accounts`

`user` has the three columns moderation writes, `token[l]` and `session` the
rows of login `l`, `login[l]` how far it is, `change` the owner's password
change, `resets` the unused reset tokens, `tx[m]` the moderation request or
Celery run `m` between its read and its commit, with what it read and what it
assigned. `Commit` writes the columns that `Dirty` names. `RowFree` is the row
lock that a password change holds from its autoflush to its commit. `changes`,
`issued`, `raced` and `decided` are history variables; `decided` is what the
last admin who committed meant the three columns to say, whatever his UPDATE
wrote of them. `LiftsOnlyTimed` compares it with what the Celery task takes up. Roles and notes are in
`AdminAccess`, profiles and preferences in `Profiles`; login history and
exports are left out. The owner makes one password change at a time; accounts
of admins are not moderated in this model, as `suspend_user` and its siblings
refuse them.

### `TwoFactor` and `AdminAccess`

`twofa` is the row: secrets and batches of backup codes are named by the
request that generated them, and `enabled` decides whether a login asks for a
code. `Setup`, `Verify`, `Regenerate`, `Disable`, `Login` and `AdminLogin` read
the row, their `Commit...` actions write the columns that differ. `shown` is
what answers have told the user; a request that dies between its commit and its
answer leaves a secret that nobody knows. `crossed` are the set-ups that were
let in before a verification ended, the one overlap that replaces the secret of
an enabled factor; `EnabledStays` names it, each set-up by itself. Disabling
always ends in `DisableRefused`, since the column `secret_key` takes no NULL:
that is a fault of the code (see below), and `EnabledStays`, which allows a
request to disable the factor, does not rest on it.

`AdminAccess` keeps the targets' `role`, what was done to them (`touched`), the
permission rows and the number of audit rows and of changes by action.
`BeginAction` reads and checks, `CommitAction` commits the change with its
audit row. Not every change has one: granting and revoking a permission and the
notices of a bulk request are committed without (`Unaudited`, in
`admin/services/__init__.py:313`, `:348` and `admin_bulk.py`), and `RecordsRight`
says that those have no row and all others exactly one.

`bulk` is the loop of `execute_bulk_action` over a list of ids, in which an id
may occur again. Three of its six actions call the handlers of single users
(`BulkBegin`, `BulkCommit`, `BulkRefused`), `notify` commits a notice
(`BulkNotify`), `export` and `email` change nothing and count successes
(`BulkChangesNothing`). All share one session: a statement the database refuses,
before a commit or in a SELECT after it (`BulkBreaks`), leaves the session broken,
every later id fails (`BulkStaysBroken`) and the audit row cannot be written
(`BulkCannotLog`).

### `Media` and `Profiles`

A row of `media` and the file it names share a number. `BeginImage` reads,
`Store` uploads, `Flush` clears the flags of the covers it sees, `Insert`
inserts and commits; deletions unlink the file before they delete the row,
pictures delete the old file (`UnlinkOld`) before they store the new one and
name it. `Fail` rolls rows back and leaves files as they are. `S3` selects the
storage; with it nothing is ever deleted, see below.

`Profiles` adds the user's unique columns (`row`), `bio`, `theme` and
`follows`. A request looks names up, flushes them (`FlushName`), which locks the
user, then changes or inserts the profile. `entry` is the uncommitted first row
of `user_profiles`; whoever inserts the same key waits for it, and a new row
waits for the renamed user it refers to. `Waits` and `InCycle` are that graph,
`DeadlockAbort` ends a cycle. `NamesUnique` is the database's constraint, seen
through the handlers: one looks names up before, the other does not.

### `EventTags` and `EventPages`

A request for tags does for each name in turn: look the tag up or insert it,
look the link up or insert it; one commit at the end. Uncommitted rows are in
the request (`new_tags`, `new_links`) and make others wait (`WaitsFor`).

`EventPages` reads a list in two steps, `CountRows` and `ReadPage`, with an
edit possible in between (`mixed`). `Key` is the key of a page in Redis: viewer,
page and the filter `is_archived`, the only filter that lets other rows into a
list instead of taking some away. `was` remembers when a page was last as it no longer is,
`slow` how long a reader took from its SELECT to `StorePage`; a copy is at most
TTL plus that old. `members` is who has ever been on an event's team, since a
copy may show somebody a draft whose team they have left. `DraftsStayUnlisted`
is about lists: `OpenSlug`, like the look-up by id, gives a draft to anybody, as
the code does. `ViewsCounted` compares the counter, read by one statement and
incremented by another, with the look-ups that have committed. `Mine` and
`Organized` are two lists with other conditions: as in the code, neither looks
at `is_deleted`.

## Runs

Bounds are set in the `.cfg` files. Deadlock checking is off where behaviours
end because the bound on requests is reached or all sockets have closed.

| Run | Question | Bounds, and why they are enough |
|---|---|---|
| `registration` | Do requests served one at a time keep `CountMatches` and `NotOverbooked`, and does a fair queue stay fair (`SeatsStayTaken`, `NobodyOvertakes`) except when the capacity is raised? | 4 users, capacity up to 3: two seated and two waiting users, the least at which one can overtake another; the theorems cover the rest |
| `tx_refines` | Do the transactions implement `Registration` (`ImplementsRegistration`), crashes included, when one follows the other, except that a registration may be submitted several times at once? | 3 workers, 3 users, capacity up to 2, 6 requests from a new event: fill, wait, cancel, promote, rejoin, and three copies of one registration |
| `tx_cancellations` | Do seated users who cancel at once hand their seats to different users (`SeatsStayFilled`, `OnePromotionAtATime`), without waiting in a cycle (`NeverDeadlocked`)? | 5 users, 2 of them seated and cancelling, also twice, 2 workers, with status and capacity edits: one seat can be lost only if two are given back and two users wait, and with a third waiting user the event stays full when a seat is given twice. The capacity starts at its bound, so it is never raised |
| `tx_progress` | With all kinds of requests overlapping: are locks held exactly where the steps need them (`LocksMatchSteps`), does every request end (`RequestsFinish`), and which overlaps can break the counter and the seats (`SeatsRight`), the status (`StatusRespected`), or bring back a user who has left (`LeftStaysOut`)? | 2 users, 2 workers, 3 requests, capacity up to 2: cycles of locks need two, an overlap needs two and a third to see or undo it |
| `tx_overbooking` | Do two overlapping registrations respect the capacity? They do not. | 2 users, 1 seat |
| `team` | Which overlaps can take the last organizer (`OrganizerRemains`), repeat a title, leave an assignee without notice (`TasksSound`) or change a finished event's task (`FinishedFrozen`)? | creator, admin and one more user, 2 tasks, 2 titles, 2 requests at once, 3 in all: one to prepare and two to overlap |
| `notifications` | Is the registry exact (`RegistryExact`) while the list changes under pushes, is a notice delivered once, after it is stored, to everybody unless the list shrank (`PushSound`), and do pushes end (`PushesEnd`)? | 2 notices, 2 websockets: two pushes clean up after the same connection, a list is dropped and made anew |
| `accounts` | Do columns agree (`StatusesAgree`), do tokens end with the password (`ChangeEndsTokens`), do sessions keep their tokens (`SessionsHaveTokens`), does the Celery task take up only what the last admin suspended for a time (`LiftsOnlyTimed`), and does lifting come (`ExpiredIsLifted`)? | a password login and an email verification, two admins and Celery at a time, 3 units of work: suspend for a time, ban or lift or suspend for good, and the task or a failure. An old `suspended_until` needs two moderations to be left behind |
| `admin` | Is the second factor sound for its owner and for admins (`FactorSound`, `EnabledStays`), do audit and permission rows match what was done (`RecordsRight`), are admins left alone (`AdminsUntouched`), does the bulk answer count what was done, with repeated ids and a failing database (`BulkToldRight`)? | 3 requests on the factor, 4 units of work: set up, verify, and another set-up, disable or login; 2 handlers and a bulk request of at most 2 ids, the same twice or one that nobody has. Two ids are enough for one that breaks the session and one that suffers from it |
| `media` | Do an event's media keep a cover and their order (`CoverKept`), do rows and files fit (`RowsSound`), does no request change what it was not asked (`OnlyAskedChanges`) or answer what it did not store (`AskedIsStored`), and when do requests deadlock (`DeadlockNeedsFirstProfile`)? | 2 requests on media and 2 on profiles at once, an old image or none, 3 units of work: two that overlap, and one before, after, or a failure. Two covers need the old one and a new one; the theorems have any number |
| `media_s3` | Is the file of a deleted image gone from S3? It is not. | 1 request at a time |
| `pages` | Are lists recent (`AnswersRecent`) and sound: drafts listed to their teams only, totals that fit, no committed look-up uncounted (`AnswersSound`)? Do tags come all or not at all (`AllOrNothing`, `AskedTagsLinked`), and when do requests for tags deadlock (`DeadlockNeedsOppositeOrders`)? | 2 events, pages of 1, archived or not, 2 readers, 2 requests for 2 tags, 3 units of work: one reader fills the cache, one edit makes it stale, another reads it; one tick of a TTL of one is enough to expire a copy. The constraint `TagsOrLists` leaves out behaviours with both requests for tags and readers, which share the bound and no other variable; the theorems have no such bound |

`MaxCapacity`, `MaxRequests`, `MaxWork`, `MaxTime` and `MaxIds` are the bounds in
the guards; every other quantity is finite by itself. `MaxWork` is shared by the composed modules
(`TwoFactor` and `AdminAccess`, `Media` and `Profiles`, `EventTags` and
`EventPages`): their requests mix freely, up to that many, except in `pages`. Symmetry is used in runs of safety
properties only, over sets that the properties do not tell apart. Where a run
has no `TypeOK` of its own, a property named above includes it, or a theorem
proves it (`RegistrationTx`, `Accounts`).

Each property of a passing run has a mutant: a variant of one definition with a
plausible bug (a dropped guard, a lost lock, a missing reset) that stands just
above the definition it replaces and is marked "Mutant". With it in place TLC
finds the property violated in the same run.

## Fairness

* `RegistrationTx`: each running request takes its next step
  (`WF_vars(Advance(w))`). asyncio schedules every ready task, PostgreSQL grants
  free locks in the order of the queue and aborts one transaction of a cycle.
  Arrivals and crashes are not fair.
* `Notifications`: handlers of lost peers return, the steps of a push run, and
  an awaited send returns or fails, with the transport's time limit at the
  latest. Nobody is obliged to connect, to mark as read, or to leave.
* `Accounts`: Celery Beat sends `lift_expired_suspensions` every five
  minutes (`core/celery_app.py:25`), and a moderation or a password change that has
  begun commits or fails. Since failures are bounded by `MaxWork`, a failing
  task is retried until it succeeds.

## Proofs

TLAPS checks eight modules of theorems, one for each component or composition.
The assumptions are the named ones of the component modules, which TLC evaluates
in the runs: sets that are counted are finite (users, workers, slugs, events),
bounds are natural numbers, the model values that stand for nobody, for the
guest, the bulk loop or Celery are none of the others, admins and creators are
users. Nothing is assumed of how many requests overlap.

Each section below says which property is proved and what the inductive
invariant adds to it, since none of the properties is inductive as it stands.

* **`RegistrationProofs`** (`TypeCorrect`, `CounterCorrect`, `NeverOverbooked`,
  `DraftStaysEmpty`, `QueueOrdered`, `SeatsTaken`, `NoOvertaking`,
  `FirstComeFirstServed`). `NotOverbooked` speaks of the rows, but a
  registration looks at the counter: `SeatsInv` adds that the counter is the
  number of seats and at most the capacity. Of a fair queue (`WaitInv`: the event is
  full while somebody waits, and nobody is seated before an earlier waiting user)
  every step that does not raise the capacity makes a fair queue. Both action
  properties follow, and so does first come, first served for behaviours without
  raises.
* **`TxProofs`**, in three parts. *Locks* (`TxTypeCorrect`, `LocksAccounted`,
  `PromotionsSerialized`): `TxInv` is the type invariant with `LocksMatchSteps`;
  one promotion at a time follows, since a row has one lock. *Overlaps*
  (`SeatsStayRight`, `StatusHolds`, `LeftHolds`, `SeatedNeverDeadlock`,
  `SeatedStayFilled`): `RaceInv` says, for each overlap that `raced` can name,
  what the copy of the event that a request works with still has to do with the
  committed row as long as that overlap has not happened. In particular copies
  of one registration have read what is still there, or one of them has been
  committed and the others would write the same. `SeatedInv` adds that those who
  wait are not those who cancel; its two theorems hold of `SeatedSpec` for
  `Kinds` without `"register"`, `SeatedStayFilled` moreover while nobody raises
  the capacity over a waiting list (`NotRaised`), as promotion is left to the
  next cancellation. *Refinement* (`RequestsImplement`): `ApartSpec` implements
  `Registration`. `Apart` says that requests which overlap are copies of one
  registration; `Agrees` what each has read; `Stamped` that `registered_at` is
  not ahead of the clock. A COMMIT maps to the request; every other statement, a
  rejection, a crash, and the COMMIT of a second copy that reuses the row map to
  a stuttering step, because `StampsLast` and `StampsAgain` show what a new
  timestamp does to the order of the queue.
* **`AccountsProofs`** (`AccountTypes`, `TokensStay`, `OldTokensEnd`,
  `ActiveMeansActive`, `OnlyTimedLifted`). The type of `resets` needs that a
  running reset holds one (`ResetInv`). `TokenInv` adds that a token under way
  has no session yet; `ChangeInv` that, once the row is flushed, the live
  tokens of password logins are among those selected; `AgreeInv` ties what a
  moderation has read and assigned to the row as long as it is alone.
  `DecidedInv` is for `LiftsOnlyTimed`, which excepts two admins at once and
  nothing else: an overlapping run of the task writes only the columns it saw
  change, so that a row which says suspended until an instant was made so by the
  last admin, or is about to be lifted by a task that read it.
* **`EventTeamProofs`** (`OrganizersRemain`, `TasksStaySound`,
  `FinishedStaysFrozen`). `TeamInv` says what is still true of the check that
  each request in progress has passed: while no two removals have overlapped, at
  most one is in progress and somebody else is an organizer; while no two writes
  of titles have, no other task has the title that is about to be written; while
  none overlapped the event's end, the event has not ended.
* **`NotificationsProofs`** (`RegistryStaysExact`, `PushesStaySound`). A push
  iterates by index over a list that shrinks under it. The first section shows
  what a removal does to a list (`Without`): the rest keeps its order and moves
  up only, by a least-number argument on the places that are kept. `PushInv` says
  of a push that nobody from its index on has been sent the notice (`Ahead`),
  and that whoever was there at the start and is still open has got it or stands
  from the index on (`Served`), unless the list shrank.
* **`AdminProofs`** (`FactorStaysSound`, `RecordsStayRight`, `BulkToldStaysRight`,
  `EnabledFactorStays`, `AdminsStayUntouched`). `CopyInv` says what the copies
  of the second factor's row still have to do with it, `Apart` what the overlap of a
  set-up and a verification is, `SecretKept` who knows the secret. `LoginInv`
  counts: the admins' logins done are those audited and those under way, and the
  latter are finitely many, which is an invariant of its own. `BulkInv` follows
  the loop of the bulk request through a list of any length with any repeats;
  `GrantInv`, for each scope of a permission by itself, and `RoleInv` follow the
  handlers beside it.
* **`PagesProofs`** (`TagsAllOrNothing`, `DeadlocksContradict`,
  `TagsAskedAreLinked`, `AnswersStaySound`, `AnswersStayRecent`). `HeldInv` says
  how far a request for tags has come and `RowsInv` that what it has passed is
  in the tables, inserted by itself, or lost to a removal. Whoever waits for a tag has not
  inserted it and whoever inserted it holds it (`WaitersHoldFirst`), so
  requests that follow one order of the tags never wait in a circle.
  `ReadInv` and `CopyInv` carry `Since` (the page was as shown until a certain
  time), `Private` (its drafts are the viewer's to see) and `AddsUp` from the
  SELECTs through Redis to the answer; `PageFits` counts what a page
  can hold. `ViewsInv` keeps the committed look-ups finite, to count them.
* **`ProfilesProofs`** (`FilesAndRows`, `RowsNameFiles`, `CoversKept`,
  `OnlyAskedIsChanged`, `AnsweredIsStored`, `CirclesNeedAFirstProfile`).
  `IdsApart`, `IdsUsed` and `ColumnsApart` say that a file belongs to one row,
  one picture or one running request. `FilesInv` follows a file from
  the upload to the row, `OrphansInv` from the row to the deletion; the latter
  holds for files on the disk, hence `FilesAndRows` assumes `~S3`, and
  `RowsNameFiles` is what is left for both storages. `CoverInv` and `OrderInv`
  say what a request that sets a cover or appends has read; the highest position
  exists because positions are bounded (`Bounded`, by a least-number argument;
  it quantifies over all numbers, so TLC cannot evaluate it). `EditInv`,
  `RenamingInv` and `PictureInv` do the same for profiles, preferences and names.

What the proofs changed in the models:

* Copies of one registration were taken to be harmless to each other. They are
  not if the event changed between their reads; `Harms` says so now.
* `OnlyAskedChanges` said nothing of pictures that a request had already given
  up; it speaks of every change of a picture now.
* `DeadlockNeedsOppositeOrders` is stated for circles of any number of
  requests, with the order of the tags that they agree on (`Circle`, `Follows`).
* Two arms of a CASE in `RemoveTag` overlapped, which leaves the value open.

All 36 safety and action properties of the passing runs are theorems, and so is
the refinement. Also proved, without a run of their own: that draft events are
empty, that `registered_at` orders the rows, first come first served, the types
of `RegistrationTx` and `Accounts`, and the invariants named above.

Not proved, only model-checked: `RequestsFinish`, `PushesEnd` and
`ExpiredIsLifted`. They are liveness properties under fairness, which needs
ENABLED, beyond this prover.

## Where code and documents disagree

With a run that is violated by it:

| Run | The text | The code |
|---|---|---|
| `tx_overbooking` | README.md:31, "Automatic waitlist when event is full" | two registrations that read the same counter both take the last seat (`attendees/services.py:52`) |
| `media_s3` | events/routes/media.py:162, "Images are also removed from storage" | `S3Storage.delete` looks for a host that the URLs it is given do not have, and deletes a key that does not exist (`core/storage.py:126`) |

In the model of a passing run, as steps that its properties except and name; the
findings of `PROJECT.json` quote the texts:

| Run | The text | The code |
|---|---|---|
| `accounts` | admin_users.py:488, "Ban a user account permanently" | a ban committed between the SELECT and the COMMIT of the Celery task is overwritten with ACTIVE (`worker/suspension_tasks.py:43`) |
| `admin` | users/routes/twofa.py:67, "Two-factor authentication disabled successfully" | every request to disable an enabled factor fails with 409: `secret_key` is NOT NULL (`users/services/twofa.py:216`) |
| `admin` | admin/routes/admin_users.py:191, "Perform bulk operations (suspend, verify, export, email)" | a bulk mail counts a success for every id and sends nothing, a bulk export throws its results away (`admin_bulk.py:58`) |
| `pages` | events/selectors.py:96, "Anonymous users only see public events" | look-ups by slug and by id show drafts to anybody (`events/selectors.py:22-49`) |

Also met while modelling, kept by the models as the code has it, or met in reads
that are not modelled; no run is spent on them:

* *Registration.* Raising the capacity promotes nobody (README.md:318,
  "Automatic promotion from waitlist when spots available"). A cancellation
  submitted twice at once promotes two users (`attendees/services.py:124`).
* *Notifications.* A push passes over a connection when another one leaves the
  list under it (websocket.py:28, "to all active connections").
* *Moderation.* A ban that overlaps the lift of an expired suspension leaves the
  account BANNED with `is_active` TRUE (admin_users.py:488).
* *Second factor.* Backup codes can be used again and again, because the list in
  the JSONB column is changed in place (schemas/twofa.py:11, "One-time backup
  codes").
* *Admins.* Grants, revocations and bulk notices leave no audit row.
  `list_audit_logs` always raises; `check_admin_permission` raises
  for an admin who has both a general and a specific grant; one unknown id in a bulk
  notification breaks the session for all later targets and the audit row.
  `admin/middleware.py` is registered nowhere.
* *Media and profiles.* The route that deletes a cover photo raises a NameError.
  Two PATCHes can leave an event without a cover. `PUT /profile/me/preferences`
  takes a schema without `profile_visibility` and `show_attending_events`, so
  neither can be set. The answer to the first PUT of a profile shows an empty
  profile (`profile.py:79`). Two first reads of the preferences overlap: one is
  answered 409.
* *Pages.* The lists of a user's own
  and of organized events include deleted ones. A list with `size=0` divides by
  zero; `organizer_id` of a logged-in plain user joins `event_organizers` twice.
  A private profile hides the profile only, not its lists (public_profile.py,
  "respects privacy settings"). Later pages of the activity timeline are wrong.

## Not modelled

* Search, filters (except `is_archived`), other orders, statistics, analytics, activity, dashboard,
  public profiles, exports: SELECTs over state that the models have, without a
  decision of their own.
* Ticketing, reviews, comments, saved events, messages, settings and feature
  flags: tables without handlers.
* Mail, token encoding, password hashing, settings, headers, the rate limiter:
  I/O and libraries. A token is good or not; a mail that is lost is a token
  that nobody uses.
* Two password resets with one token that overlap: the model has one change at
  a time (`PROJECT.json`, hazards).
* Migrations, the sample module and the tests: no behaviour of the service.

## Plan

Every component with a behaviour of its own is modelled, and every safety
property is proved. What is left:

1. `DeletedFromStorage` for files on the disk, as the counterpart of the run
   `media_s3`: needs that a number that was deleted is never stored again.
2. From `RequestsImplement`, what `Registration` guarantees of requests one
   after the other (the order of the waitlist) as theorems of `ApartSpec`.
   tlapm 1.4.5 keeps the definitions of an `INSTANCE` opaque here, so the step
   lemmas have to be stated again over the mapped state.
3. The hazards without a property: resets with one token that overlap, and
   sessions that outlive their revoked tokens.
