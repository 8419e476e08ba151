----------------------------- MODULE AdminAccess -----------------------------
(***************************************************************************)
(* What admins do to accounts and to each other's permissions, with the    *)
(* audit rows that go with it, and the login that lets an admin in: the    *)
(* second factor of that login is TwoFactor's row.                         *)
(*                                                                         *)
(* A handler reads the target, decides, and commits its change together    *)
(* with the audit row, because log_admin_action commits the session.  The  *)
(* bulk handler calls the handlers one after the other in ONE session.     *)
(***************************************************************************)
EXTENDS TwoFactor, Sequences

CONSTANTS
    Targets,    \* the accounts
    Missing,    \* ids in a bulk request that no account has
    Handlers,   \* requests of admins that may run at the same time
    Bulk,       \* the bulk request's place among them
    MaxIds      \* bound: the ids in a bulk request, 100 in the code

ASSUME AdminAssumption ==
    /\ Missing \subseteq Targets
    /\ Bulk \notin Handlers
    /\ MaxIds \in Nat

VARIABLES
    role,       \* users.role of each target
    touched,    \* what admins have done to each target
    permission, \* the number of rows of one permission, by resource_type
    audit,      \* the number of audit rows, by action
    done,       \* history: the number of committed changes, by action
    tx,         \* the request that each handler runs
    bulk,       \* the bulk request
    raced       \* history: the overlaps that matter below

adminVars == <<role, touched, permission, audit, done, tx, bulk, raced>>
vars == <<twofa, req, work, shown, verified, crossed, died, role, touched,
          permission, audit, done, tx, bulk, raced>>

\* resource_type NULL is "any".
Scopes == {"any", "event"}
\* Actions refused to an admin's account, and those allowed on every account.
Guarded == {"suspend_user", "impersonate_user"}
Free == {"unsuspend_user", "verify_user", "add_note", "delete_note"}

\* Changes for which the code writes no audit row.
Unaudited == {"grant", "revoke", "notify"}
Actions == Guarded \cup Free \cup Unaudited \cup {"update_user", "login", "bulk"}

\* The bulk request calls the handlers of single users, sends notifications,
\* or does nothing that stays: exports are thrown away, emails are not sent.
Calls == {"suspend_user", "unsuspend_user", "verify_user"}
Changing == Calls \cup {"notify"}
BulkActions == Changing \cup {"export", "email"}

NoTx == [op |-> "none"]
Tx == [op : Guarded \cup Free \cup {"update_user"}, target : Targets]
        \cup [op : {"grant"}, scope : Scopes] \cup {NoTx}

\* asked: how many ids the request had; reason: it gives one; changes: how
\* often it has committed a change.
NoBulk == [pc |-> "idle", action |-> "none", reason |-> TRUE, todo |-> <<>>,
           asked |-> 0, success |-> 0, failed |-> 0, changes |-> 0, broken |-> FALSE]
BulkRequest == [pc : {"idle", "loop", "logged", "error"},
                action : BulkActions \cup {"none"}, reason : BOOLEAN,
                todo : Seq(Targets), asked : Nat, success : Nat, failed : Nat,
                changes : Nat, broken : BOOLEAN]

TypeOK ==
    /\ TwoFactorTypeOK
    /\ role \in [Targets -> {"user", "admin"}]
    /\ touched \in [Targets -> SUBSET (Guarded \cup Free)]
    /\ permission \in [Scopes -> Nat]
    /\ audit \in [Actions -> Nat]
    /\ done \in [Actions -> Nat]
    /\ tx \in [Handlers \cup {Bulk} -> Tx]
    /\ bulk \in BulkRequest
    /\ raced \subseteq {"role"} \cup Scopes

Init ==
    /\ TwoFactorInit
    /\ role \in {f \in [Targets -> {"user", "admin"}] : \A t \in Missing : f[t] = "user"}
    /\ touched = [t \in Targets |-> {}]
    /\ permission = [s \in Scopes |-> 0]
    /\ audit = [a \in Actions |-> 0]
    /\ done = [a \in Actions |-> 0]
    /\ tx = [h \in Handlers \cup {Bulk} |-> NoTx]
    /\ bulk = NoBulk
    /\ raced = {}

Work == work < MaxWork /\ work' = work + 1
Factors == <<twofa, req, shown, verified, crossed, died>>

\* A change and its audit row are committed together.
Audited(a) ==
    /\ done' = [done EXCEPT ![a] = @ + 1]
    /\ audit' = [audit EXCEPT ![a] = @ + 1]

-----------------------------------------------------------------------------
(* Moderation, roles and notes. *)

\* Mutant: the bulk loop reaches the UPDATE of an admin, too.
NotAnAdminUnlessBulk(h, t) == role[t] = "user" \/ h = Bulk

\* "Cannot suspend an admin user", "Cannot impersonate an admin user".
NotAnAdmin(h, t) == role[t] = "user"

\* Handler h has read target t and passed the checks.
BeginOn(h, op, t) ==
    /\ tx[h] = NoTx
    /\ t \notin Missing
    /\ op \in Guarded => NotAnAdmin(h, t)
    /\ op = "delete_note" => "add_note" \in touched[t]
    /\ op = "unsuspend_user" => "suspend_user" \in touched[t]
    /\ tx' = [tx EXCEPT ![h] = [op |-> op, target |-> t]]
    /\ raced' = raced \cup
         {"role" : o \in {o \in DOMAIN tx \ {h} :
             /\ tx[o].op \in Guarded \cup {"update_user"}
             /\ tx[o].target = t
             /\ (op = "update_user") # (tx[o].op = "update_user")}}

BeginAction(h) ==
    /\ Work
    /\ \E op \in Guarded \cup Free \cup {"update_user"}, t \in Targets :
         BeginOn(h, op, t)
    /\ UNCHANGED <<Factors, role, touched, permission, audit, done, bulk>>

Effect(h) ==
    LET t == tx[h] IN
    /\ role' \in IF t.op = "update_user"
                 THEN {[role EXCEPT ![t.target] = r] : r \in {"user", "admin"}}
                 ELSE {role}
    /\ touched' = CASE t.op = "update_user" -> touched
                    [] t.op = "delete_note" ->
                         [touched EXCEPT ![t.target] = @ \ {"add_note"}]
                    [] t.op = "unsuspend_user" ->
                         [touched EXCEPT ![t.target] = @ \ {"suspend_user"}]
                    [] OTHER -> [touched EXCEPT ![t.target] = @ \cup {t.op}]
    /\ tx' = [tx EXCEPT ![h] = NoTx]

\* Mutant: the change is committed before the audit row is written.
CommitActionFirst(h) ==
    /\ "target" \in DOMAIN tx[h]
    /\ Effect(h)
    /\ done' = [done EXCEPT ![tx[h].op] = @ + 1]
    /\ \/ audit' = [audit EXCEPT ![tx[h].op] = @ + 1] /\ UNCHANGED <<work, died>>
       \/ Work /\ died' = TRUE /\ UNCHANGED audit
    /\ UNCHANGED <<twofa, req, shown, verified, crossed, permission, bulk, raced>>

\* Of what update_user may change only the role matters.  A note that is already
\* gone is deleted with a warning, and audited.
CommitAction(h) ==
    /\ "target" \in DOMAIN tx[h]
    /\ Effect(h)
    /\ Audited(tx[h].op)
    /\ UNCHANGED <<Factors, work, permission, bulk, raced>>

\* The request fails before its commit.
ActionFails(h) ==
    /\ Work
    /\ tx[h] # NoTx
    /\ tx' = [tx EXCEPT ![h] = NoTx]
    /\ UNCHANGED <<Factors, role, touched, permission, audit, done, bulk, raced>>

-----------------------------------------------------------------------------
(* Permissions. *)

NotGranted(s) == permission[s] = 0

\* grant_admin_permission finds no row, otherwise it returns the one it found;
\* two rows make scalar_one_or_none raise.
BeginGrant(h, s) ==
    /\ Work
    /\ tx[h] = NoTx
    /\ NotGranted(s)
    /\ tx' = [tx EXCEPT ![h] = [op |-> "grant", scope |-> s]]
    /\ raced' = raced \cup
         {s : o \in {o \in Handlers : tx[o] = [op |-> "grant", scope |-> s]}}
    /\ UNCHANGED <<Factors, role, touched, permission, audit, done, bulk>>

CommitGrant(h) ==
    /\ tx[h].op = "grant"
    /\ permission' = [permission EXCEPT ![tx[h].scope] = @ + 1]
    /\ tx' = [tx EXCEPT ![h] = NoTx]
    /\ done' = [done EXCEPT !["grant"] = @ + 1]
    /\ UNCHANGED <<Factors, work, role, touched, audit, bulk, raced>>

\* revoke_admin_permission: without a resource_type the rows of all of them.
Revoke(s) ==
    /\ Work
    /\ permission' = [x \in Scopes |->
                        IF s \in {x, "any"} THEN 0 ELSE permission[x]]
    /\ permission' # permission
    /\ done' = [done EXCEPT !["revoke"] = @ + 1]
    /\ UNCHANGED <<Factors, role, touched, audit, tx, bulk, raced>>

-----------------------------------------------------------------------------
(* The login of an admin: token and login history first, then the audit row. *)

IssueAdminToken(r) ==
    /\ req[r].op = "admin_login" /\ req[r].pc = "in"
    /\ Goto(r, "write")
    /\ done' = [done EXCEPT !["login"] = @ + 1]
    /\ UNCHANGED <<twofa, work, shown, verified, crossed, died, role, touched,
                   permission, audit, tx, bulk, raced>>

LogAdminLogin(r) ==
    /\ req[r].op = "admin_login" /\ req[r].pc = "write"
    /\ Goto(r, "done")
    /\ audit' = [audit EXCEPT !["login"] = @ + 1]
    /\ UNCHANGED <<twofa, work, shown, verified, crossed, died, role, touched,
                   permission, done, tx, bulk, raced>>

-----------------------------------------------------------------------------
(* execute_bulk_action. *)

\* The other variables of a step of the loop that writes no row.
Loop == UNCHANGED <<Factors, role, touched, permission, audit, done>>

\* The ids come as a list, which may name an account twice.  Only suspensions
\* ask for the reason.
Lists == UNION {[1 .. n -> Targets] : n \in 1 .. MaxIds}

StartBulk ==
    /\ Work
    /\ bulk = NoBulk
    /\ \E ids \in Lists, a \in BulkActions, reason \in BOOLEAN :
         /\ a # "suspend_user" => reason
         /\ bulk' = [bulk EXCEPT !.pc = "loop", !.action = a, !.reason = reason,
                                 !.todo = ids, !.asked = Len(ids)]
    /\ UNCHANGED <<tx, raced>>
    /\ Loop

NextTarget(t) ==
    /\ bulk.pc = "loop" /\ bulk.todo # <<>>
    /\ t = Head(bulk.todo)
    /\ tx[Bulk] = NoTx

\* Mutant: success_count is incremented before the call, not after it.
FailedCountedTwice(b) ==
    [b EXCEPT !.todo = Tail(@), !.failed = @ + 1, !.success = @ + 1]

\* The exception is caught and counted.
Failed(b) == [b EXCEPT !.todo = Tail(@), !.failed = @ + 1]
Succeeded(b) == [b EXCEPT !.todo = Tail(@), !.success = @ + 1]
Changed(b) == [b EXCEPT !.changes = @ + 1]

\* Nobody rolls the session back after an error of the database.
Broken(b) == [b EXCEPT !.broken = TRUE]

\* The handler raises before it changes anything: no reason is given, nobody
\* has the id, the account is an admin's or is not suspended.
Refuses(t) ==
    \/ bulk.action = "suspend_user" /\ (~bulk.reason \/ ~NotAnAdmin(Bulk, t))
    \/ bulk.action = "unsuspend_user" /\ "suspend_user" \notin touched[t]
    \/ bulk.action \in Calls \cup {"export"} /\ t \in Missing

BulkRefused(t) ==
    /\ NextTarget(t)
    /\ ~bulk.broken
    /\ Refuses(t)
    /\ bulk' = Failed(bulk)
    /\ UNCHANGED <<work, tx, raced>>
    /\ Loop

\* The handler has read its target.
BulkBegin(t) ==
    /\ NextTarget(t)
    /\ ~bulk.broken
    /\ bulk.action \in Calls
    /\ ~Refuses(t)
    /\ BeginOn(Bulk, bulk.action, t)
    /\ UNCHANGED <<work, bulk>>
    /\ Loop

\* Its change and its own audit row are committed; then the account is read
\* again, and a failure of that counts as one of the call.
BulkCommit ==
    /\ tx[Bulk] # NoTx
    /\ Effect(Bulk)
    /\ Audited(tx[Bulk].op)
    /\ \/ bulk' = Changed(Succeeded(bulk)) /\ UNCHANGED work
       \/ bulk' = Broken(Changed(Failed(bulk))) /\ Work
    /\ UNCHANGED <<Factors, permission, raced>>

\* create_notification commits and reads the row again, which may fail;
\* a failure while it pushes the notification is caught there.
BulkNotify(t) ==
    /\ NextTarget(t)
    /\ ~bulk.broken
    /\ bulk.action = "notify"
    /\ t \notin Missing
    /\ \/ bulk' = Changed(Succeeded(bulk)) /\ UNCHANGED work
       \/ bulk' \in {Broken(Changed(q)) : q \in {Succeeded(bulk), Failed(bulk)}} /\ Work
    /\ done' = [done EXCEPT !["notify"] = @ + 1]
    /\ UNCHANGED <<Factors, role, touched, permission, audit, tx, raced>>

\* export_user_data only reads; for an email nothing is done at all.
BulkChangesNothing(t) ==
    /\ NextTarget(t)
    /\ bulk.action \notin Changing
    /\ bulk.action = "export" => ~bulk.broken /\ ~Refuses(t)
    /\ bulk' = Succeeded(bulk)
    /\ UNCHANGED <<work, tx, raced>>
    /\ Loop

\* The database refuses a statement: the notification of an unknown user, or
\* any statement when the connection fails.
BulkBreaks(t) ==
    /\ \/ NextTarget(t)
       \/ tx[Bulk] # NoTx /\ tx[Bulk].target = t
    /\ ~bulk.broken
    /\ bulk.action # "email"
    /\ bulk.action = "suspend_user" => bulk.reason
    /\ \/ bulk.action = "notify" /\ t \in Missing /\ UNCHANGED work
       \/ Work
    /\ bulk' = Broken(Failed(bulk))
    /\ tx' = [tx EXCEPT ![Bulk] = NoTx]
    /\ UNCHANGED raced
    /\ Loop

\* The session raises PendingRollbackError for every statement.
BulkStaysBroken(t) ==
    /\ NextTarget(t)
    /\ bulk.broken
    /\ bulk' = Failed(bulk)
    /\ UNCHANGED <<work, tx, raced>>
    /\ Loop

BulkLogs ==
    /\ bulk.pc = "loop" /\ bulk.todo = <<>>
    /\ ~bulk.broken
    /\ bulk' = [bulk EXCEPT !.pc = "logged"]
    /\ audit' = [audit EXCEPT !["bulk"] = @ + 1]
    /\ UNCHANGED <<Factors, work, role, touched, permission, done, tx, raced>>

\* log_admin_action raises, too: the request is answered 500.
BulkCannotLog ==
    /\ bulk.pc = "loop" /\ bulk.todo = <<>>
    /\ bulk.broken
    /\ bulk' = [bulk EXCEPT !.pc = "error"]
    /\ UNCHANGED <<work, tx, raced>>
    /\ Loop

-----------------------------------------------------------------------------

Next ==
    \/ \E r \in Requests :
         \/ TwoFactorStep(r) /\ UNCHANGED adminVars
         \/ IssueAdminToken(r) \/ LogAdminLogin(r)
    \/ \E h \in Handlers :
         \/ BeginAction(h) \/ CommitAction(h) \/ ActionFails(h)
         \/ \E s \in Scopes : BeginGrant(h, s)
         \/ CommitGrant(h)
    \/ \E s \in Scopes : Revoke(s)
    \/ StartBulk
    \/ \E t \in Targets :
         \/ BulkRefused(t) \/ BulkBegin(t) \/ BulkNotify(t)
         \/ BulkChangesNothing(t) \/ BulkBreaks(t) \/ BulkStaysBroken(t)
    \/ BulkCommit \/ BulkLogs \/ BulkCannotLog

Spec == Init /\ [][Next]_vars

-----------------------------------------------------------------------------

\* The audit log has one row for every committed change of an account or of its
\* notes, whatever dies or is refused by the database (admin_users.py:290, "with
\* audit logging"), and none for one that was undone.  Grants and revocations of
\* permissions and the notifications of a bulk request are committed without
\* any (admin/services/__init__.py:314, :349; admin_bulk.py:66).
ChangesAudited ==
    /\ \A a \in Guarded \cup Free \cup {"update_user"} : audit[a] = done[a]
    /\ \A a \in Unaudited : audit[a] = 0

\* An admin's token is in the database before the login is audited: rows are
\* missing only for logins under way, or if a login died in between.
LoginsAudited ==
    \/ died
    \/ done["login"] = audit["login"] +
         Cardinality({r \in Requests :
                        req[r].op = "admin_login" /\ req[r].pc = "write"})

\* An admin who was let in has an enabled second factor, and goes on having
\* one, unless a set-up and its verification overlapped.
AdminsHaveFactor == done["login"] > 0 /\ crossed = {} => twofa.enabled

\* The second factor neither lets an admin in without it nor locks its owner out.
FactorSound == TypeOK /\ EnabledIsVerified /\ NotLockedOut /\ AdminsHaveFactor

\* No admin's account is suspended or impersonated, unless it became an
\* admin's while the handler was running (admin_users.py:443).
AdminsUntouched ==
    [][\A t \in Targets :
         role[t] = "admin" /\ "role" \notin raced
            => touched'[t] \cap Guarded \subseteq touched[t]]_vars

\* A permission is granted once for each resource type, so the look-up of a
\* grant never raises, unless two grants of this very one have overlapped: no
\* constraint stops them (admin/services/__init__.py:301).
GrantedOnce == \A s \in Scopes \ raced : permission[s] <= 1

\* The audit log and the permissions hold the rows that they should, once.
RecordsRight == ChangesAudited /\ LoginsAudited /\ GrantedOnce

\* The answer of a bulk request counts every id of the list once, a repeated one
\* as often as it is repeated.  For the actions that change something each
\* success is a committed change, and of the failures at most the one that broke
\* the session has been committed, too; successes of an export or an email
\* change nothing (admin_bulk.py:37-79).  The answer is missing, as is its audit
\* row, only after the database has failed (admin_bulk.py:81).
BulkToldRight ==
    /\ bulk.success + bulk.failed + Len(bulk.todo) = bulk.asked
    /\ bulk.action \in Changing =>
         /\ bulk.changes \in bulk.success .. bulk.success + (IF bulk.broken THEN 1 ELSE 0)
         /\ bulk.changes <= done[bulk.action]
    /\ bulk.action \notin Changing => bulk.changes = 0
    /\ bulk.pc = "logged" <=> audit["bulk"] = 1
    /\ bulk.pc = "error" => bulk.broken

=============================================================================
