------------------------------ MODULE TwoFactor ------------------------------
(***************************************************************************)
(* The second factor of one user: the row of two_factor_auth under set-up, *)
(* enabling, new backup codes, disabling and logins, each a request with   *)
(* its own session.  A request reads the row, decides, and commits later   *)
(* only the columns whose values differ from those it read.                *)
(*                                                                         *)
(* A secret and a batch of backup codes are named by the request that      *)
(* generated them; a TOTP code is the secret it is computed from, a backup *)
(* code the batch it is from.                                              *)
(***************************************************************************)
EXTENDS Naturals, FiniteSets

CONSTANTS
    Requests,   \* the user's requests, each is made once
    MaxWork     \* bound: requests and failures

ASSUME TwoFactorAssumption ==
    /\ MaxWork \in Nat
    /\ "none" \notin Requests

VARIABLES
    twofa,      \* the row, NoRow at first
    req,        \* how far each request is
    work,       \* how much of MaxWork is done
    shown,      \* secrets and batches that an answer has shown to the user
    verified,   \* history: secrets enabled with a code of theirs
    crossed,    \* history: the set-ups that a verification has overlapped
    died        \* history: a request failed before its answer

twoFactorVars == <<twofa, req, work, shown, verified, crossed, died>>

NoRow == [secret |-> "none", codes |-> "none", enabled |-> FALSE]
Row == [secret : Requests, codes : Requests, enabled : BOOLEAN] \cup {NoRow}
Idle == [op |-> "none", pc |-> "idle", row |-> NoRow]
Request == [op : {"none", "setup", "verify", "regenerate", "disable", "login",
                  "admin_login"},
            pc : {"idle", "checked", "write", "answer", "factor", "in", "done"},
            row : Row]

TwoFactorTypeOK ==
    /\ twofa \in Row
    /\ req \in [Requests -> Request]
    /\ work \in 0 .. MaxWork
    /\ shown \subseteq Requests
    /\ verified \subseteq Requests
    /\ crossed \subseteq Requests
    /\ died \in BOOLEAN

TwoFactorInit ==
    /\ twofa = NoRow
    /\ req = [r \in Requests |-> Idle]
    /\ work = 0
    /\ shown = {}
    /\ verified = {}
    /\ crossed = {}
    /\ died = FALSE

Running(r) == req[r].pc \notin {"idle", "done"}

\* The set-ups that have not committed while a verification runs.
Crossing ==
    {r \in Requests :
        /\ req[r].op = "setup" /\ req[r].pc \in {"checked", "write"}
        /\ \E v \in Requests : req[v].op = "verify" /\ Running(v)}

\* A request arrives and has read the row.
Begin(r, op, pc) ==
    /\ work < MaxWork
    /\ work' = work + 1
    /\ req[r].pc = "idle"
    /\ req' = [req EXCEPT ![r] = [op |-> op, pc |-> pc, row |-> twofa]]
    /\ crossed' = crossed \cup Crossing'
    /\ UNCHANGED <<twofa, shown, verified, died>>

\* Request r goes on; only req changes besides what the caller names.
Goto(r, pc) == req' = [req EXCEPT ![r] = [@ EXCEPT !.pc = pc]]

Answer(r) ==
    /\ req[r].pc = "answer"
    /\ Goto(r, "done")
    /\ shown' = shown \cup {r}
    /\ UNCHANGED <<twofa, work, verified, crossed, died>>

-----------------------------------------------------------------------------
(* setup_two_factor *)

\* Mutant: the look-up does not ask for enabled rows.
SetupUnchecked(r) == Begin(r, "setup", "checked")

\* "Two-factor authentication is already enabled" otherwise.
Setup(r) == ~twofa.enabled /\ Begin(r, "setup", "checked")

\* The second SELECT loads the row as it is now.
SetupReads(r) ==
    /\ req[r].pc = "checked"
    /\ req' = [req EXCEPT ![r] = [@ EXCEPT !.pc = "write", !.row = twofa]]
    /\ UNCHANGED <<twofa, work, shown, verified, crossed, died>>

\* enabled is written only if the copy had it TRUE.
CommitSetup(r) ==
    /\ req[r].op = "setup" /\ req[r].pc = "write"
    /\ req[r].row # NoRow \/ twofa = NoRow
    /\ twofa' = [secret |-> r, codes |-> r,
                 enabled |-> twofa.enabled /\ ~req[r].row.enabled]
    /\ Goto(r, "answer")
    /\ UNCHANGED <<work, shown, verified, crossed, died>>

\* user_id is unique: the second INSERT is answered 409.
SetupConflicts(r) ==
    /\ req[r].op = "setup" /\ req[r].pc = "write"
    /\ req[r].row = NoRow /\ twofa # NoRow
    /\ Goto(r, "done")
    /\ UNCHANGED <<twofa, work, shown, verified, crossed, died>>

-----------------------------------------------------------------------------
(* verify_and_enable_two_factor, regenerate_backup_codes, disable_two_factor *)

\* Mutant: the code is not compared.
VerifyAnyCode(r) ==
    /\ twofa # NoRow
    /\ Begin(r, "verify", "write")

\* The code is one of a secret that the user has been shown.
Verify(r) ==
    /\ twofa.secret \in shown
    /\ Begin(r, "verify", "write")

\* enabled is written only if the copy had it FALSE.
CommitVerify(r) ==
    /\ req[r].op = "verify" /\ req[r].pc = "write"
    /\ twofa' = [twofa EXCEPT !.enabled = @ \/ ~req[r].row.enabled]
    /\ verified' = verified \cup {req[r].row.secret}
    /\ Goto(r, "done")
    /\ UNCHANGED <<work, shown, crossed, died>>

Regenerate(r) == twofa.enabled /\ Begin(r, "regenerate", "write")

CommitRegenerate(r) ==
    /\ req[r].op = "regenerate" /\ req[r].pc = "write"
    /\ twofa' = [twofa EXCEPT !.codes = r]
    /\ Goto(r, "answer")
    /\ UNCHANGED <<work, shown, verified, crossed, died>>

Disable(r) == twofa.enabled /\ Begin(r, "disable", "write")

\* secret_key is set to None, which its NOT NULL refuses: 409, rolled back.
DisableRefused(r) ==
    /\ req[r].op = "disable" /\ req[r].pc = "write"
    /\ Goto(r, "done")
    /\ UNCHANGED <<twofa, work, shown, verified, crossed, died>>

-----------------------------------------------------------------------------
(* Logins with a good password. *)

Login(r) ==
    Begin(r, "login", IF twofa.enabled THEN "factor" ELSE "in")

\* authenticate_admin insists on an enabled second factor.
AdminLogin(r) == twofa.enabled /\ Begin(r, "admin_login", "factor")

\* verify_two_factor_code: its SELECT must find the row enabled, but hands out
\* the copy of the first SELECT.  A backup code is removed from the list in
\* place, which the unit of work does not notice: nothing is written.  The
\* admins' form is too short for a backup code.
Factor(r) ==
    /\ req[r].pc = "factor"
    /\ twofa.enabled
    /\ \/ req[r].row.secret \in shown
       \/ req[r].op = "login" /\ req[r].row.codes \in shown
    /\ Goto(r, "in")
    /\ UNCHANGED <<twofa, work, shown, verified, crossed, died>>

\* No code, a wrong one, or one of a secret or batch that is replaced; the
\* failure is recorded in login_history.
FactorRefused(r) ==
    /\ req[r].pc = "factor"
    /\ Goto(r, "done")
    /\ UNCHANGED <<twofa, work, shown, verified, crossed, died>>

\* login goes on to issue tokens, see Accounts.
LoginEnds(r) ==
    /\ req[r].op = "login" /\ req[r].pc = "in"
    /\ Goto(r, "done")
    /\ UNCHANGED <<twofa, work, shown, verified, crossed, died>>

\* The process dies or the client is gone.
Die(r) ==
    /\ Running(r)
    /\ work < MaxWork
    /\ work' = work + 1
    /\ Goto(r, "done")
    /\ died' = TRUE
    /\ UNCHANGED <<twofa, shown, verified, crossed>>

TwoFactorStep(r) ==
    \/ Setup(r) \/ SetupReads(r) \/ CommitSetup(r) \/ SetupConflicts(r)
    \/ Verify(r) \/ CommitVerify(r)
    \/ Regenerate(r) \/ CommitRegenerate(r)
    \/ Disable(r) \/ DisableRefused(r)
    \/ Login(r) \/ AdminLogin(r) \/ Factor(r) \/ FactorRefused(r) \/ LoginEnds(r)
    \/ Answer(r) \/ Die(r)

-----------------------------------------------------------------------------

\* A login is asked for codes of a secret only after a code of that secret was
\* checked (twofa.py:134), unless the set-up of that very secret and a
\* verification overlapped.
EnabledIsVerified ==
    twofa.enabled /\ twofa.secret \notin crossed => twofa.secret \in verified

\* Once enabled, the factor is disabled, or its secret replaced, only at the
\* commit of a set-up that was let in before the verification ended
\* (twofa.py:63), or on a request to disable it; new codes and verifications
\* of older secrets leave it alone.
EnabledStays ==
    [][twofa.enabled /\ (twofa'.enabled => twofa'.secret # twofa.secret)
        => \E r \in Requests :
             /\ req'[r] # req[r]
             /\ \/ req[r].op = "setup" /\ r \in crossed
                \/ req[r].op = "disable"]_twoFactorVars

\* A user whose logins need a second factor has one, whatever overlaps, unless
\* the secret's set-up was overlapped and has not been answered.
NotLockedOut ==
    twofa.enabled =>
        \/ twofa.secret \in shown
        \/ /\ twofa.secret \in crossed
           /\ req[twofa.secret].pc = "answer" \/ died

=============================================================================
