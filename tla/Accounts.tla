------------------------------ MODULE Accounts ------------------------------
(***************************************************************************)
(* One user's account: its status, its password, its refresh tokens and    *)
(* its sessions, under logins, password changes, the admins' moderation    *)
(* and the Celery task that lifts suspensions.  The account is not an      *)
(* admin's, those cannot be moderated.                                     *)
(*                                                                         *)
(* A request reads the user's row, decides, and writes later; at the write *)
(* SQLAlchemy updates only the columns whose values differ from those it   *)
(* read.  A handler that has written the row keeps it locked until its     *)
(* commit.  Statements that nobody can separate are one step.              *)
(***************************************************************************)
EXTENDS Naturals, FiniteSets

CONSTANTS
    Logins,       \* login attempts, each with the refresh token it gets
    EmailLogins,  \* those that log in by verifying the email address
    Admins,       \* the moderation requests that may run at the same time
    Beat,         \* the run of lift_expired_suspensions
    MaxWork       \* bound: moderations, password changes and failures

ASSUME AccountsAssumption ==
    /\ EmailLogins \subseteq Logins
    /\ Beat \notin Admins
    /\ MaxWork \in Nat

VARIABLES
    user,     \* the columns of the row that moderation writes
    token,    \* the refresh token of each login
    session,  \* the logins that have a UserSession row
    login,    \* how far each login is
    change,   \* the password change or reset in progress
    resets,   \* the reset tokens that have not been used
    tx,       \* the moderation in progress of each admin and of Beat
    work,     \* how much of MaxWork is done
    changes,  \* history: how often the password has been changed
    issued,   \* history: the value of changes when each token was committed
    raced,    \* history: the kinds of moderations that have overlapped
    decided   \* history: what the last commit of an admin's moderation assigned

vars == <<user, token, session, login, change, resets, tx, work,
          changes, issued, raced, decided>>

Moderators == Admins \cup {Beat}
Status == {"active", "suspended", "banned", "deleted"}
Until == {"null", "future", "past"}
User == [status : Status, is_active : BOOLEAN, suspended_until : Until]

NoChange == [pc |-> "idle", via |-> "password", tokens |-> {}]
NoTx == [op |-> "none"]

\* The columns that a handler sets.
Assigned == [status : Status, is_active : BOOLEAN] \cup User
Tx == [op : {"moderate", "purge"}, read : User, assigned : Assigned]
Change == [pc : {"idle", "read", "flushed"}, via : {"password", "reset"},
           tokens : SUBSET Logins]

TypeOK ==
    /\ user \in User
    /\ token \in [Logins -> {"none", "live", "revoked", "deleted"}]
    /\ session \subseteq Logins
    /\ login \in [Logins -> {"idle", "checked", "issued", "done"}]
    /\ change \in Change
    /\ resets \in Nat
    /\ tx \in [Moderators -> Tx \cup {NoTx}]
    /\ work \in 0 .. MaxWork
    /\ changes \in Nat
    /\ issued \in [Logins -> Nat]
    /\ raced \subseteq {"admins", "task"}
    /\ decided \in Assigned

\* The account after signup.
Init ==
    /\ user = [status |-> "active", is_active |-> TRUE, suspended_until |-> "null"]
    /\ token = [l \in Logins |-> "none"]
    /\ session = {}
    /\ login = [l \in Logins |-> "idle"]
    /\ change = NoChange
    /\ resets = 0
    /\ tx = [m \in Moderators |-> NoTx]
    /\ work = 0
    /\ changes = 0
    /\ issued = [l \in Logins |-> 0]
    /\ raced = {}
    /\ decided = [status |-> "active", is_active |-> TRUE]

Work == work < MaxWork /\ work' = work + 1

Live == {l \in Logins : token[l] = "live"}

\* get_current_user lets a request with a valid access token in.
Admitted == user.is_active /\ session # {}

\* Mutant: the sessions do not autoflush, nothing is locked before the commit.
RowAlwaysFree == TRUE

\* A password change has written the row when it selects the tokens: the
\* autoflush before the SELECT.  Whoever writes the row waits for its commit.
RowFree == change.pc # "flushed"

-----------------------------------------------------------------------------
(* Logins. *)

\* authenticate_user and the two-factor check.
Authenticate(l) ==
    /\ l \notin EmailLogins
    /\ login[l] = "idle"
    /\ user.is_active
    /\ login' = [login EXCEPT ![l] = "checked"]
    /\ UNCHANGED <<user, token, session, change, resets, tx, work, changes,
                   issued, raced, decided>>

\* verify_email_token commits email_verified; is_active is not looked at.
VerifyEmail(l) ==
    /\ l \in EmailLogins
    /\ login[l] = "idle"
    /\ RowFree
    /\ login' = [login EXCEPT ![l] = "checked"]
    /\ UNCHANGED <<user, token, session, change, resets, tx, work, changes,
                   issued, raced, decided>>

\* create_refresh_token.  A password login commits last_login_at with it, and
\* that write of the row comes first; a verified email is one more INSERT.
IssueToken(l) ==
    /\ login[l] = "checked"
    /\ l \notin EmailLogins => RowFree
    /\ login' = [login EXCEPT ![l] = IF l \in EmailLogins THEN "done" ELSE "issued"]
    /\ token' = [token EXCEPT ![l] = "live"]
    /\ issued' = [issued EXCEPT ![l] = changes]
    /\ UNCHANGED <<user, session, change, resets, tx, work, changes, raced, decided>>

\* Mutant: no foreign key from the session to its token.
CreateSessionUnchecked(l) ==
    /\ login[l] = "issued"
    /\ login' = [login EXCEPT ![l] = "done"]
    /\ session' = session \cup {l}
    /\ UNCHANGED <<user, token, change, resets, tx, work, changes, issued, raced, decided>>

\* The second commit of login; the foreign key rejects a deleted token.
CreateSession(l) ==
    /\ login[l] = "issued"
    /\ login' = [login EXCEPT ![l] = "done"]
    /\ session' = session \cup ({l} \ {k \in Logins : token[k] = "deleted"})
    /\ UNCHANGED <<user, token, change, resets, tx, work, changes, issued, raced, decided>>

\* The second factor is wrong, or the process or the connection fails.
LoginFails(l) ==
    /\ login[l] \in {"checked", "issued"}
    /\ login' = [login EXCEPT ![l] = "done"]
    /\ UNCHANGED <<user, token, session, change, resets, tx, work, changes,
                   issued, raced, decided>>

Revoke(l) ==
    /\ token[l] = "live"
    /\ login[l] = "done"
    /\ token' = [token EXCEPT ![l] = "revoked"]
    /\ UNCHANGED <<user, session, login, change, resets, tx, work, changes,
                   issued, raced, decided>>

\* The session's row stays.
Logout(l) == Revoke(l)
RevokeOwnSession(l) == Admitted /\ l \in session /\ Revoke(l)

-----------------------------------------------------------------------------
(* The owner's password changes; the owner makes one at a time. *)

\* generate_password_reset_token.
ForgotPassword ==
    /\ Work
    /\ user.is_active
    /\ resets' = resets + 1
    /\ UNCHANGED <<user, token, session, login, change, tx, changes, issued, raced, decided>>

ResetExpires ==
    /\ resets > 0
    /\ change.via = "password"
    /\ resets' = resets - 1
    /\ UNCHANGED <<user, token, session, login, change, tx, work, changes,
                   issued, raced, decided>>

\* change_user_password for a user who is logged in, or
\* reset_password_with_token for one who has a reset token.
BeginChange ==
    /\ Work
    /\ change.pc = "idle"
    /\ \E via \in {"password", "reset"} :
         /\ via = "password" => Admitted
         /\ via = "reset" => resets > 0
         /\ change' = [pc |-> "read", via |-> via, tokens |-> {}]
    /\ UNCHANGED <<user, token, session, login, resets, tx, changes, issued, raced, decided>>

\* The row is written, then the tokens to revoke are selected.
SelectTokens ==
    /\ change.pc = "read"
    /\ change' = [change EXCEPT !.pc = "flushed", !.tokens = Live]
    /\ UNCHANGED <<user, token, session, login, resets, tx, work, changes,
                   issued, raced, decided>>

\* The selected tokens are updated one by one ...
CommitChange ==
    /\ change.pc = "flushed"
    /\ \A l \in change.tokens : token[l] # "deleted"
    /\ change' = NoChange
    /\ changes' = changes + 1
    /\ token' = [l \in Logins |->
                   IF l \in change.tokens THEN "revoked" ELSE token[l]]
    /\ resets' = IF change.via = "reset" THEN resets - 1 ELSE resets
    /\ UNCHANGED <<user, session, login, tx, work, issued, raced, decided>>

\* ... if an admin has deleted one meanwhile, its UPDATE matches no row and
\* everything is rolled back; the process or the connection may also fail.
ChangeFails ==
    /\ \/ change.pc # "idle" /\ Work
       \/ /\ change.pc = "flushed"
          /\ \E l \in change.tokens : token[l] = "deleted"
          /\ UNCHANGED work
    /\ change' = NoChange
    /\ UNCHANGED <<user, token, session, login, resets, tx, changes, issued, raced, decided>>

-----------------------------------------------------------------------------
(* Moderation. *)

\* The request m has read the row and assigned to its columns.
Begin(m, op, assigned) ==
    /\ tx[m] = NoTx
    /\ tx' = [tx EXCEPT ![m] = [op |-> op, read |-> user, assigned |-> assigned]]
    /\ raced' = raced \cup {IF Beat \in {m, o} THEN "task" ELSE "admins" :
                              o \in {o \in Moderators : tx[o] # NoTx}}
    /\ UNCHANGED <<user, token, session, login, change, resets, changes, issued, decided>>

\* Mutant: suspended_until is assigned only if there is a duration.
SuspendKeepsUntil(a) ==
    \E until \in {"null", "future"} :
        /\ Work
        /\ Begin(a, "purge",
                 [status |-> "suspended", is_active |-> FALSE,
                  suspended_until |-> IF until = "null" THEN user.suspended_until
                                      ELSE until])

\* suspend_user: for good, or until an instant; whatever the status was.
Suspend(a) ==
    \E until \in {"null", "future"} :
        /\ Work
        /\ Begin(a, "purge", [status |-> "suspended", is_active |-> FALSE,
                              suspended_until |-> until])

\* Mutant: ban_user relies on the status alone.
BanStatusOnly(a) ==
    /\ Work
    /\ Begin(a, "purge", [status |-> "banned", is_active |-> user.is_active])

Ban(a) ==
    /\ Work
    /\ Begin(a, "purge", [status |-> "banned", is_active |-> FALSE])

\* suspended_until keeps its value.
Unsuspend(a) ==
    /\ Work
    /\ user.status \in {"suspended", "banned"}
    /\ Begin(a, "moderate", [status |-> "active", is_active |-> TRUE])

SoftDelete(a) ==
    /\ Work
    /\ Begin(a, "purge", [status |-> "deleted", is_active |-> FALSE])

\* Mutant: the query skips locked accounts.
ExpiredAndActive(u) ==
    u.status = "suspended" /\ u.suspended_until = "past" /\ u.is_active

Expired(u) == u.status = "suspended" /\ u.suspended_until = "past"

LiftExpired ==
    /\ Expired(user)
    /\ Begin(Beat, "moderate", [status |-> "active", is_active |-> TRUE,
                                suspended_until |-> "null"])
    /\ UNCHANGED work

\* The columns of the UPDATE; a new instant differs from every earlier one.
Dirty(t) ==
    {c \in DOMAIN t.assigned :
        \/ t.assigned[c] # t.read[c]
        \/ c = "suspended_until" /\ t.assigned[c] = "future"}

Flushed(t) ==
    [c \in DOMAIN user |-> IF c \in Dirty(t) THEN t.assigned[c] ELSE user[c]]

\* invalidate_user_sessions: revoked tokens stay.
Purge ==
    /\ session' = {}
    /\ token' = [l \in Logins |-> IF l \in Live THEN "deleted" ELSE token[l]]

\* The row is updated, and the tokens and sessions that are there are deleted.
Commit(m) ==
    /\ tx[m] # NoTx
    /\ RowFree
    /\ user' = Flushed(tx[m])
    /\ \/ tx[m].op = "purge" /\ Purge
       \/ tx[m].op = "moderate" /\ UNCHANGED <<session, token>>
    /\ tx' = [tx EXCEPT ![m] = NoTx]
    /\ decided' = IF m = Beat THEN decided ELSE tx[m].assigned
    /\ UNCHANGED <<login, change, resets, work, changes, issued, raced>>

\* The connection is lost, or Celery retries the task later.
ModerationFails(m) ==
    /\ Work
    /\ tx[m] # NoTx
    /\ tx' = [tx EXCEPT ![m] = NoTx]
    /\ UNCHANGED <<user, token, session, login, change, resets, changes, issued, raced, decided>>

\* admin_reset_password.
AdminResetPassword ==
    /\ Work
    /\ RowFree
    /\ Purge
    /\ resets' = resets + 1
    /\ changes' = changes + 1
    /\ UNCHANGED <<user, login, change, tx, issued, raced, decided>>

RevokeAllSessions ==
    /\ Work
    /\ Purge
    /\ UNCHANGED <<user, login, change, resets, tx, changes, issued, raced, decided>>

\* The admin's revoke_user_session: the token stays.
RevokeSession(l) ==
    /\ l \in session
    /\ session' = session \ {l}
    /\ UNCHANGED <<user, token, login, change, resets, tx, work, changes,
                   issued, raced, decided>>

TimePasses ==
    /\ user.suspended_until = "future"
    /\ user' = [user EXCEPT !.suspended_until = "past"]
    /\ UNCHANGED <<token, session, login, change, resets, tx, work, changes,
                   issued, raced, decided>>

-----------------------------------------------------------------------------

Next ==
    \/ \E l \in Logins :
         \/ Authenticate(l) \/ VerifyEmail(l) \/ IssueToken(l)
         \/ CreateSession(l) \/ LoginFails(l)
         \/ Logout(l) \/ RevokeOwnSession(l) \/ RevokeSession(l)
    \/ ForgotPassword \/ ResetExpires
    \/ BeginChange \/ SelectTokens \/ CommitChange \/ ChangeFails
    \/ \E a \in Admins : Suspend(a) \/ Ban(a) \/ Unsuspend(a) \/ SoftDelete(a)
    \/ LiftExpired
    \/ \E m \in Moderators : Commit(m) \/ ModerationFails(m)
    \/ AdminResetPassword \/ RevokeAllSessions
    \/ TimePasses

\* Celery Beat keeps sending the task, and requests that run come to an end.
Fairness ==
    /\ WF_vars(LiftExpired)
    /\ \A m \in Moderators : WF_vars(Commit(m))
    /\ WF_vars(SelectTokens) /\ WF_vars(CommitChange \/ ChangeFails)

Spec == Init /\ [][Next]_vars
FairSpec == Spec /\ Fairness

-----------------------------------------------------------------------------

\* is_active says what status says, as long as moderations do not overlap:
\* each of five handlers and the Celery task writes both columns.
StatusesAgree == raced = {} => (user.is_active <=> user.status = "active")

\* A session's token exists, although login commits the two one after the
\* other and admins delete tokens in between.
SessionsHaveTokens ==
    \A l \in session : token[l] \in {"live", "revoked"}

\* No token of a password login outlives a change of the password: a login
\* cannot slip its token in between the SELECT and the COMMIT of the change
\* (users.py:433, profile.py:143).
ChangeEndsTokens ==
    \A l \in Live \ EmailLogins : issued[l] = changes

\* What the Celery task takes up was, by the last word of an admin, suspended
\* for a time: never an account that is suspended for good, banned or deleted,
\* although unsuspend_user leaves an old suspended_until behind, ban_user looks
\* at none, and moderations and earlier runs of the task overlap, in which each
\* writes only the columns that it saw change; two admins at once are excepted
\* (admin_users.py:460, suspension_tasks.py:30).  A word that comes between the
\* SELECT of the task and its COMMIT is overwritten by it.
LiftsOnlyTimed ==
    [][tx[Beat] = NoTx /\ tx'[Beat] # NoTx /\ "admins" \notin raced
        => decided.status = "suspended" /\ decided.suspended_until = "future"]_vars

\* An expired suspension ends, whatever overlaps and fails (suspension_tasks.py:18).
ExpiredIsLifted ==
    (user.status = "suspended" /\ user.suspended_until = "past")
        ~> (user.status # "suspended" \/ user.suspended_until # "past")

=============================================================================
