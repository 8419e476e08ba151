--------------------------- MODULE AccountsProofs ---------------------------
(***************************************************************************)
(* What Accounts guarantees for any numbers of logins and admins and any   *)
(* amount of work.                                                         *)
(***************************************************************************)
EXTENDS Accounts, TLAPS

-----------------------------------------------------------------------------
(* Types. *)

LEMMA AssignedTypes ==
    ASSUME NEW s \in Status, NEW b \in BOOLEAN, NEW d \in Until
    PROVE  /\ [status |-> s, is_active |-> b]
                  \in Assigned
           /\ [status |-> s, is_active |-> b, suspended_until |-> d]
                  \in Assigned
  BY DEF Assigned, User

\* The columns that a moderation assigned keep their types in the row.
LEMMA FlushedType ==
    ASSUME user \in User, NEW t \in Tx
    PROVE  Flushed(t) \in User
<1>1. CASE t.assigned \in [status : Status, is_active : BOOLEAN]
  <2>1. DOMAIN t.assigned = {"status", "is_active"}
    BY <1>1
  <2>2. QED
    BY <1>1, <2>1 DEF Flushed, Dirty, User
<1>2. CASE t.assigned \in User
  <2>1. DOMAIN t.assigned = {"status", "is_active", "suspended_until"}
    BY <1>2 DEF User
  <2>2. QED
    BY <1>2, <2>1 DEF Flushed, Dirty, User
<1>3. QED
  BY <1>1, <1>2 DEF Tx, Assigned

LEMMA BeginType ==
    ASSUME TypeOK, NEW m \in Moderators, NEW op \in {"moderate", "purge"},
           NEW assigned \in Assigned,
           Begin(m, op, assigned), work' \in 0 .. MaxWork
    PROVE  TypeOK'
<1>1. [op |-> op, read |-> user, assigned |-> assigned] \in Tx
  BY DEF TypeOK, Tx
<1>2. tx' \in [Moderators -> Tx \cup {NoTx}]
  BY <1>1 DEF TypeOK, Begin
<1>3. QED
  BY <1>2 DEF TypeOK, Begin

LEMMA WorkType == TypeOK /\ Work => work' \in 0 .. MaxWork
  BY AccountsAssumption DEF TypeOK, Work

LEMMA PurgeType == TypeOK /\ Purge => /\ session' \subseteq Logins
                                      /\ token' \in [Logins -> {"none", "live", "revoked", "deleted"}]
  BY DEF TypeOK, Purge, Live

\* The resets are counted down only when there are some.
ResetInv == TypeOK /\ (change.pc # "idle" /\ change.via = "reset" => resets > 0)
                   /\ (change.pc = "idle" => change.via = "password")

LEMMA TypeInit == Init => ResetInv
<1> SUFFICES ASSUME Init PROVE ResetInv
  OBVIOUS
<1>1. user \in User /\ change \in Change /\ work \in 0 .. MaxWork
  BY AccountsAssumption DEF Init, User, Status, Until, Change, NoChange
<1>2. decided \in Assigned
  BY AssignedTypes DEF Init, Status, Until
<1>3. QED
  BY <1>1, <1>2 DEF Init, ResetInv, TypeOK, NoChange

LEMMA LoginTypes ==
    ASSUME ResetInv, NEW l \in Logins,
           \/ Authenticate(l) \/ VerifyEmail(l) \/ IssueToken(l)
           \/ CreateSession(l) \/ LoginFails(l)
           \/ Logout(l) \/ RevokeOwnSession(l) \/ RevokeSession(l)
    PROVE  ResetInv'
<1> USE DEF ResetInv, TypeOK
<1>1. CASE Authenticate(l)
  BY <1>1 DEF Authenticate
<1>2. CASE VerifyEmail(l)
  BY <1>2 DEF VerifyEmail
<1>3. CASE IssueToken(l)
  BY <1>3 DEF IssueToken
<1>4. CASE CreateSession(l)
  BY <1>4 DEF CreateSession
<1>5. CASE LoginFails(l)
  BY <1>5 DEF LoginFails
<1>6. CASE Logout(l) \/ RevokeOwnSession(l)
  BY <1>6 DEF Logout, RevokeOwnSession, Revoke
<1>7. CASE RevokeSession(l)
  BY <1>7 DEF RevokeSession
<1>8. QED
  BY <1>1, <1>2, <1>3, <1>4, <1>5, <1>6, <1>7

LEMMA ChangeTypes ==
    ASSUME ResetInv,
           \/ ForgotPassword \/ ResetExpires
           \/ BeginChange \/ SelectTokens \/ CommitChange \/ ChangeFails
    PROVE  ResetInv'
<1> USE DEF ResetInv
<1>1. CASE ForgotPassword
  BY <1>1, WorkType DEF ForgotPassword, TypeOK
<1>2. CASE ResetExpires
  BY <1>2 DEF ResetExpires, TypeOK
<1>3. CASE BeginChange
  <2>1. work' \in 0 .. MaxWork
    BY <1>3, WorkType DEF BeginChange
  <2>2. change' \in Change /\ (change'.via = "reset" => resets' > 0)
    BY <1>3 DEF BeginChange, TypeOK, Change
  <2>3. QED
    BY <1>3, <2>1, <2>2 DEF BeginChange, TypeOK
<1>4. CASE SelectTokens
  <2>1. change' = [pc |-> "flushed", via |-> change.via, tokens |-> Live]
    BY <1>4 DEF SelectTokens, TypeOK, Change
  <2>2. change' \in Change
    BY <2>1 DEF TypeOK, Change, Live
  <2>3. QED
    BY <1>4, <2>1, <2>2 DEF SelectTokens, TypeOK
<1>5. CASE CommitChange
  <2>1. NoChange \in Change
    BY DEF NoChange, Change
  <2>2. resets' \in Nat
    BY <1>5 DEF CommitChange, TypeOK, Change
  <2>3. QED
    BY <1>5, <2>1, <2>2 DEF CommitChange, TypeOK, NoChange
<1>6. CASE ChangeFails
  <2>1. NoChange \in Change
    BY DEF NoChange, Change
  <2>2. work' \in 0 .. MaxWork
    BY <1>6, WorkType DEF ChangeFails, TypeOK
  <2>3. QED
    BY <1>6, <2>1, <2>2 DEF ChangeFails, TypeOK, NoChange
<1>7. QED
  BY <1>1, <1>2, <1>3, <1>4, <1>5, <1>6

LEMMA ModerationTypes ==
    ASSUME ResetInv, NEW a \in Admins,
           Suspend(a) \/ Ban(a) \/ Unsuspend(a) \/ SoftDelete(a)
    PROVE  ResetInv'
<1>1. work' \in 0 .. MaxWork
  BY WorkType DEF Suspend, Ban, Unsuspend, SoftDelete, ResetInv
<1>2. PICK m \in Moderators, op \in {"moderate", "purge"},
           assigned \in Assigned :
               Begin(m, op, assigned)
  <2> USE DEF Status, Until, Moderators
  <2>1. CASE Suspend(a)
    <3>1. PICK until \in {"null", "future"} :
            Begin(a, "purge", [status |-> "suspended", is_active |-> FALSE,
                               suspended_until |-> until])
      BY <2>1 DEF Suspend
    <3>2. QED
      BY <3>1, AssignedTypes
  <2>2. CASE Ban(a)
    BY <2>2, AssignedTypes DEF Ban
  <2>3. CASE Unsuspend(a)
    BY <2>3, AssignedTypes DEF Unsuspend
  <2>4. CASE SoftDelete(a)
    BY <2>4, AssignedTypes DEF SoftDelete
  <2>5. QED
    BY <2>1, <2>2, <2>3, <2>4
<1>3. TypeOK'
  BY <1>1, <1>2, BeginType DEF ResetInv
<1>4. QED
  BY <1>2, <1>3 DEF ResetInv, Begin

LEMMA AdminTypes ==
    ASSUME ResetInv,
           \/ \E m \in Moderators : Commit(m) \/ ModerationFails(m)
           \/ AdminResetPassword \/ RevokeAllSessions \/ TimePasses
    PROVE  ResetInv'
<1>1. ASSUME NEW m \in Moderators, Commit(m)
      PROVE  ResetInv'
  <2>1. tx[m] \in Tx
    BY <1>1 DEF Commit, ResetInv, TypeOK
  <2>2. user' \in User
    BY <1>1, <2>1, FlushedType DEF Commit, ResetInv, TypeOK
  <2>3. /\ session' \subseteq Logins
        /\ token' \in [Logins -> {"none", "live", "revoked", "deleted"}]
    BY <1>1, PurgeType DEF Commit, ResetInv, TypeOK
  <2>4. decided' \in Assigned
    BY <1>1, <2>1 DEF Commit, ResetInv, TypeOK, Tx
  <2>5. QED
    BY <1>1, <2>2, <2>3, <2>4 DEF Commit, ResetInv, TypeOK
<1>2. ASSUME NEW m \in Moderators, ModerationFails(m)
      PROVE  ResetInv'
  BY <1>2, WorkType DEF ModerationFails, ResetInv, TypeOK
<1>3. CASE AdminResetPassword
  BY <1>3, WorkType, PurgeType DEF AdminResetPassword, ResetInv, TypeOK
<1>4. CASE RevokeAllSessions
  BY <1>4, WorkType, PurgeType DEF RevokeAllSessions, ResetInv, TypeOK
<1>5. CASE TimePasses
  BY <1>5 DEF TimePasses, ResetInv, TypeOK, User, Until
<1>6. QED
  BY <1>1, <1>2, <1>3, <1>4, <1>5

LEMMA TypeStep == ResetInv /\ [Next]_vars => ResetInv'
<1> SUFFICES ASSUME ResetInv, [Next]_vars PROVE ResetInv'
  OBVIOUS
<1>1. CASE Next
  <2>1. CASE LiftExpired
    <3>1. work' \in 0 .. MaxWork
      BY <2>1 DEF LiftExpired, ResetInv, TypeOK
    <3>2. TypeOK'
      BY <2>1, <3>1, BeginType, AssignedTypes
         DEF LiftExpired, ResetInv, Moderators, Status, Until
    <3>3. QED
      BY <2>1, <3>2 DEF LiftExpired, Begin, ResetInv
  <2>2. QED
    BY <1>1, <2>1, LoginTypes, ChangeTypes, ModerationTypes, AdminTypes DEF Next
<1>2. CASE UNCHANGED vars
  BY <1>2 DEF vars, ResetInv, TypeOK
<1>3. QED
  BY <1>1, <1>2

LEMMA TypesAlways == Spec => []ResetInv
<1>1. QED
  BY TypeInit, TypeStep, PTL DEF Spec

\* Every variable keeps its type; above all, no reset token is used twice.
THEOREM AccountTypes == Spec => []TypeOK
<1>1. ResetInv => TypeOK
  BY DEF ResetInv
<1>2. QED
  BY <1>1, TypesAlways, PTL

-----------------------------------------------------------------------------
(* Tokens and sessions. *)

\* A token is there from the first commit of its login on.
TokenInv ==
    /\ SessionsHaveTokens
    /\ \A l \in Logins : login[l] = "issued" => token[l] # "none"

LEMMA TokenInit == Init => TokenInv
  BY DEF Init, TokenInv, SessionsHaveTokens

LEMMA PurgeTokens ==
    ASSUME TypeOK, TokenInv, Purge, login' = login
    PROVE  TokenInv'
  BY DEF TypeOK, TokenInv, SessionsHaveTokens, Purge, Live

LEMMA TokenLogins ==
    ASSUME TypeOK, TokenInv, NEW l \in Logins,
           \/ Authenticate(l) \/ VerifyEmail(l) \/ IssueToken(l)
           \/ CreateSession(l) \/ LoginFails(l)
           \/ Logout(l) \/ RevokeOwnSession(l) \/ RevokeSession(l)
    PROVE  TokenInv'
<1> USE DEF TokenInv, SessionsHaveTokens, TypeOK
<1>1. CASE Authenticate(l)
  BY <1>1 DEF Authenticate
<1>2. CASE VerifyEmail(l)
  BY <1>2 DEF VerifyEmail
<1>3. CASE IssueToken(l)
  BY <1>3 DEF IssueToken
<1>4. CASE CreateSession(l)
  BY <1>4 DEF CreateSession
<1>5. CASE LoginFails(l)
  BY <1>5 DEF LoginFails
<1>6. CASE Logout(l) \/ RevokeOwnSession(l)
  BY <1>6 DEF Logout, RevokeOwnSession, Revoke
<1>7. CASE RevokeSession(l)
  BY <1>7 DEF RevokeSession
<1>8. QED
  BY <1>1, <1>2, <1>3, <1>4, <1>5, <1>6, <1>7

\* Everything else leaves logins and sessions alone, or purges.
LEMMA TokenStep ==
    ASSUME ResetInv, TokenInv, [Next]_vars
    PROVE  TokenInv'
<1> USE DEF ResetInv
<1>1. ASSUME NEW m \in Moderators, Commit(m)
      PROVE  TokenInv'
  BY <1>1, PurgeTokens DEF Commit, TokenInv, SessionsHaveTokens
<1>2. CASE AdminResetPassword \/ RevokeAllSessions
  BY <1>2, PurgeTokens DEF AdminResetPassword, RevokeAllSessions
<1>3. CASE CommitChange
  BY <1>3 DEF CommitChange, TokenInv, SessionsHaveTokens, TypeOK
<1>4. CASE ForgotPassword \/ ResetExpires \/ BeginChange \/ SelectTokens \/ ChangeFails
  BY <1>4 DEF ForgotPassword, ResetExpires, BeginChange, SelectTokens,
              ChangeFails, TokenInv, SessionsHaveTokens
<1>5. ASSUME NEW a \in Admins, Suspend(a) \/ Ban(a) \/ Unsuspend(a) \/ SoftDelete(a)
      PROVE  TokenInv'
  BY <1>5 DEF Suspend, Ban, Unsuspend, SoftDelete, Begin, TokenInv, SessionsHaveTokens
<1>6. CASE LiftExpired \/ TimePasses \/ (\E m \in Moderators : ModerationFails(m))
  BY <1>6 DEF LiftExpired, Begin, TimePasses, ModerationFails, TokenInv, SessionsHaveTokens
<1>7. CASE UNCHANGED vars
  BY <1>7 DEF vars, TokenInv, SessionsHaveTokens
<1>8. QED
  BY <1>1, <1>2, <1>3, <1>4, <1>5, <1>6, <1>7, TokenLogins DEF Next

\* No session is without its token (the foreign key of user_sessions), however
\* the two commits of a login fall among the deletions of the admins.
THEOREM TokensStay == Spec => []SessionsHaveTokens
<1>1. TokenInv => SessionsHaveTokens
  BY DEF TokenInv
<1>2. QED
  BY <1>1, TokenInit, TokenStep, TypesAlways, PTL DEF Spec

-----------------------------------------------------------------------------
(* Password changes. *)

\* While a change holds the row no password login can commit its token, so
\* the tokens it has selected are all there are.
ChangeInv ==
    /\ ChangeEndsTokens
    /\ change.pc = "flushed" => Live \ EmailLogins \subseteq change.tokens

LEMMA ChangeInit == Init => ChangeInv
  BY DEF Init, ChangeInv, ChangeEndsTokens, Live, NoChange

LEMMA PurgeNone ==
    ASSUME TypeOK, Purge
    PROVE  Live' = {}
  BY DEF TypeOK, Purge, Live

LEMMA ChangeLogins ==
    ASSUME TypeOK, ChangeInv, NEW l \in Logins,
           \/ Authenticate(l) \/ VerifyEmail(l) \/ IssueToken(l)
           \/ CreateSession(l) \/ LoginFails(l)
           \/ Logout(l) \/ RevokeOwnSession(l) \/ RevokeSession(l)
    PROVE  ChangeInv'
<1> USE DEF ChangeInv, ChangeEndsTokens
<1>1. CASE IssueToken(l)
  <2>1. Live' = Live \cup {l}
    BY <1>1 DEF IssueToken, Live, TypeOK
  <2>2. CASE l \in EmailLogins
    BY <1>1, <2>1, <2>2 DEF IssueToken, TypeOK, Live
  <2>3. CASE l \notin EmailLogins
    BY <1>1, <2>1, <2>3 DEF IssueToken, TypeOK, RowFree, Live
  <2>4. QED
    BY <2>2, <2>3
<1>2. CASE Logout(l) \/ RevokeOwnSession(l)
  BY <1>2 DEF Logout, RevokeOwnSession, Revoke, Live, TypeOK
<1>3. CASE \/ Authenticate(l) \/ VerifyEmail(l) \/ CreateSession(l)
           \/ LoginFails(l) \/ RevokeSession(l)
  BY <1>3 DEF Authenticate, VerifyEmail, CreateSession, LoginFails, RevokeSession, Live
<1>4. QED
  BY <1>1, <1>2, <1>3

LEMMA ChangeStep ==
    ASSUME ResetInv, ChangeInv, [Next]_vars
    PROVE  ChangeInv'
<1> USE DEF ResetInv, ChangeInv, ChangeEndsTokens
<1>1. ASSUME NEW m \in Moderators, Commit(m)
      PROVE  ChangeInv'
  BY <1>1, PurgeNone DEF Commit, Live
<1>2. CASE AdminResetPassword \/ RevokeAllSessions
  BY <1>2, PurgeNone DEF AdminResetPassword, RevokeAllSessions
<1>3. CASE CommitChange
  <2>1. Live' = Live \ change.tokens
    BY <1>3 DEF CommitChange, Live, TypeOK
  <2>2. Live' \subseteq EmailLogins
    BY <1>3, <2>1 DEF CommitChange
  <2>3. QED
    BY <1>3, <2>2 DEF CommitChange, NoChange
<1>4. CASE SelectTokens
  BY <1>4 DEF SelectTokens, Live, TypeOK, Change
<1>5. CASE ForgotPassword \/ ResetExpires \/ BeginChange \/ ChangeFails
  BY <1>5 DEF ForgotPassword, ResetExpires, BeginChange, ChangeFails, NoChange, Live
<1>6. ASSUME NEW a \in Admins, Suspend(a) \/ Ban(a) \/ Unsuspend(a) \/ SoftDelete(a)
      PROVE  ChangeInv'
  BY <1>6 DEF Suspend, Ban, Unsuspend, SoftDelete, Begin, Live
<1>7. CASE LiftExpired \/ TimePasses \/ (\E m \in Moderators : ModerationFails(m))
  BY <1>7 DEF LiftExpired, Begin, TimePasses, ModerationFails, Live
<1>8. CASE UNCHANGED vars
  BY <1>8 DEF vars, Live
<1>9. QED
  BY <1>1, <1>2, <1>3, <1>4, <1>5, <1>6, <1>7, <1>8, ChangeLogins DEF Next

\* A change of the password revokes every token of a password login that was
\* committed before it (users.py:433, profile.py:143).
THEOREM OldTokensEnd == Spec => []ChangeEndsTokens
<1>1. ChangeInv => ChangeEndsTokens
  BY DEF ChangeInv
<1>2. QED
  BY <1>1, ChangeInit, ChangeStep, TypesAlways, PTL DEF Spec

-----------------------------------------------------------------------------
(* Moderations that do not overlap. *)

\* The only moderation in progress has read the row as it is, and what it
\* assigns to the two columns agrees.
AgreeInv ==
    raced = {} =>
        /\ user.is_active <=> user.status = "active"
        /\ \A m, o \in Moderators : tx[m] # NoTx /\ tx[o] # NoTx => m = o
        /\ \A m \in Moderators : tx[m] # NoTx =>
              /\ tx[m].read.status = user.status
              /\ tx[m].read.is_active = user.is_active
              /\ tx[m].assigned.is_active <=> tx[m].assigned.status = "active"
        /\ tx[Beat] # NoTx => Expired(user)

LEMMA AgreeInit == Init => AgreeInv
<1> SUFFICES ASSUME Init PROVE AgreeInv
  OBVIOUS
<1>1. user.status = "active" /\ user.is_active = TRUE
  BY DEF Init
<1>2. \A m \in Moderators : tx[m] = NoTx
  BY DEF Init
<1>3. Beat \in Moderators
  BY DEF Moderators
<1>4. QED
  BY <1>1, <1>2, <1>3 DEF AgreeInv

LEMMA BeginAgree ==
    ASSUME ResetInv, AgreeInv, NEW m \in Moderators, NEW op,
           NEW assigned, assigned.is_active <=> assigned.status = "active",
           m = Beat => Expired(user), Begin(m, op, assigned)
    PROVE  AgreeInv'
<1>1. SUFFICES ASSUME raced' = {} PROVE AgreeInv'
  BY DEF AgreeInv
<1>2. raced = {} /\ \A o \in Moderators : tx[o] = NoTx
  BY <1>1 DEF Begin
<1>3. user' = user
  BY DEF Begin
<1>4. tx'[m] = [op |-> op, read |-> user, assigned |-> assigned]
  BY DEF Begin, ResetInv, TypeOK
<1>5. \A o \in Moderators : o # m => tx'[o] = NoTx
  BY <1>2 DEF Begin, ResetInv, TypeOK
<1>6. tx'[m].read = user /\ tx'[m].assigned = assigned
  BY <1>4
<1>7. Beat \in Moderators
  BY DEF Moderators
<1>8. tx'[Beat] # NoTx => m = Beat
  BY <1>5, <1>7
<1>9. Expired(user)' = Expired(user)
  BY <1>3 DEF Expired
<1>10. QED
  BY <1>2, <1>3, <1>5, <1>6, <1>8, <1>9 DEF AgreeInv

LEMMA CommitAgree ==
    ASSUME ResetInv, AgreeInv, NEW m \in Moderators, Commit(m)
    PROVE  AgreeInv'
<1>1. SUFFICES ASSUME raced' = {} PROVE AgreeInv'
  BY DEF AgreeInv
<1>2. raced = {} /\ tx[m] # NoTx
  BY <1>1 DEF Commit
<1> DEFINE t == tx[m]
<1>3. t \in Tx
  BY <1>2 DEF ResetInv, TypeOK
<1>4. /\ "status" \in DOMAIN t.assigned
      /\ "is_active" \in DOMAIN t.assigned
  BY <1>3 DEF Tx, Assigned, User
<1>5. /\ t.read.status = user.status
      /\ t.read.is_active = user.is_active
      /\ t.assigned.is_active <=> t.assigned.status = "active"
  BY <1>2 DEF AgreeInv
<1>6. user \in User
  BY DEF ResetInv, TypeOK
<1>7. /\ Flushed(t).status = IF "status" \in Dirty(t) THEN t.assigned.status ELSE user.status
      /\ Flushed(t).is_active = IF "is_active" \in Dirty(t) THEN t.assigned.is_active
                                                            ELSE user.is_active
  BY <1>6 DEF Flushed, User
<1>8. /\ "status" \in Dirty(t) <=> t.assigned.status # t.read.status
      /\ "is_active" \in Dirty(t) <=> t.assigned.is_active # t.read.is_active
  BY <1>4 DEF Dirty
<1>9. Flushed(t).status = t.assigned.status /\ Flushed(t).is_active = t.assigned.is_active
  BY <1>5, <1>7, <1>8
<1>10. \A o \in Moderators : tx'[o] = NoTx
  <2> TAKE o \in Moderators
  <2>1. CASE o = m
    BY <2>1 DEF Commit, ResetInv, TypeOK
  <2>2. CASE o # m
    BY <1>2, <2>2 DEF Commit, ResetInv, TypeOK, AgreeInv
  <2>3. QED
    BY <2>1, <2>2
<1>11. user'.is_active <=> user'.status = "active"
  BY <1>5, <1>9 DEF Commit
<1>12. Beat \in Moderators
  BY DEF Moderators
<1>13. QED
  BY <1>10, <1>11, <1>12 DEF AgreeInv

LEMMA AgreeStep ==
    ASSUME ResetInv, AgreeInv, [Next]_vars
    PROVE  AgreeInv'
<1> USE DEF Moderators
<1>1. ASSUME NEW m \in Moderators, ModerationFails(m)
      PROVE  AgreeInv'
  <2>1. \A o \in Moderators : tx'[o] = NoTx \/ tx'[o] = tx[o]
    BY <1>1 DEF ModerationFails, ResetInv, TypeOK
  <2>2. user' = user /\ raced' = raced /\ Expired(user)' = Expired(user)
    BY <1>1 DEF ModerationFails, Expired
  <2>3. QED
    BY <2>1, <2>2 DEF AgreeInv
<1>2. ASSUME NEW a \in Admins, Suspend(a)
      PROVE  AgreeInv'
  <2>1. PICK until \in {"null", "future"} :
          Begin(a, "purge", [status |-> "suspended", is_active |-> FALSE,
                             suspended_until |-> until])
    BY <1>2 DEF Suspend
  <2>2. QED
    BY <2>1, BeginAgree, AccountsAssumption
<1>3. ASSUME NEW a \in Admins, Ban(a) \/ Unsuspend(a) \/ SoftDelete(a)
      PROVE  AgreeInv'
  BY <1>3, BeginAgree, AccountsAssumption DEF Ban, Unsuspend, SoftDelete
<1>4. CASE LiftExpired
  BY <1>4, BeginAgree DEF LiftExpired
<1>5. CASE TimePasses
  BY <1>5 DEF TimePasses, AgreeInv, Expired, ResetInv, TypeOK, User
<1>6. CASE \/ ForgotPassword \/ ResetExpires \/ BeginChange \/ SelectTokens
           \/ CommitChange \/ ChangeFails \/ AdminResetPassword
           \/ RevokeAllSessions \/ UNCHANGED vars
  <2>1. UNCHANGED <<user, tx, raced>>
    BY <1>6 DEF ForgotPassword, ResetExpires, BeginChange, SelectTokens, CommitChange,
                ChangeFails, AdminResetPassword, RevokeAllSessions, vars
  <2>2. QED
    BY <2>1 DEF AgreeInv, Expired
<1>7. ASSUME NEW l \in Logins,
             \/ Authenticate(l) \/ VerifyEmail(l) \/ IssueToken(l)
             \/ CreateSession(l) \/ LoginFails(l)
             \/ Logout(l) \/ RevokeOwnSession(l) \/ RevokeSession(l)
      PROVE  AgreeInv'
  <2>1. UNCHANGED <<user, tx, raced>>
    BY <1>7 DEF Authenticate, VerifyEmail, IssueToken, CreateSession, LoginFails,
                Logout, RevokeOwnSession, RevokeSession, Revoke
  <2>2. QED
    BY <2>1 DEF AgreeInv, Expired
<1>8. QED
  BY <1>1, <1>2, <1>3, <1>4, <1>5, <1>6, <1>7, CommitAgree DEF Next

LEMMA AgreeAlways == Spec => [](ResetInv /\ AgreeInv)
<1>1. ResetInv /\ AgreeInv /\ [Next]_vars => (ResetInv /\ AgreeInv)'
  BY TypeStep, AgreeStep
<1>2. QED
  BY <1>1, TypeInit, AgreeInit, PTL DEF Spec

\* While moderations do not overlap, an account is active if and only if its
\* status is "active", although every handler writes the two columns itself.
THEOREM ActiveMeansActive == Spec => []StatusesAgree
<1>1. AgreeInv => StatusesAgree
  BY DEF AgreeInv, StatusesAgree
<1>2. QED
  BY <1>1, AgreeAlways, PTL
-----------------------------------------------------------------------------
(* The last word of an admin, under overlaps with the task. *)

\* A suspended row shows the last word of an admin.  An admin's moderation in
\* progress has seen whatever another admin has written, and the task in
\* progress will write the status.
DecidedInv ==
    "admins" \notin raced =>
        /\ user.status = "suspended" =>
             /\ decided.status = "suspended"
             /\ user.suspended_until # "null" => decided.suspended_until = "future"
        /\ \A a, b \in Admins : tx[a] # NoTx /\ tx[b] # NoTx => a = b
        /\ \A a \in Admins : tx[a] # NoTx =>
             /\ tx[a].read.status # "suspended" => user.status # "suspended"
             /\ tx[a].read.suspended_until = "null" => user.suspended_until = "null"
             /\ tx[a].assigned.status = "suspended" =>
                  /\ tx[a].assigned \in User
                  /\ tx[a].assigned.suspended_until \in {"null", "future"}
        /\ tx[Beat] # NoTx =>
             /\ tx[Beat].read.status = "suspended"
             /\ tx[Beat].assigned =
                  [status |-> "active", is_active |-> TRUE, suspended_until |-> "null"]

LEMMA DecidedInit == Init => DecidedInv
<1> SUFFICES ASSUME Init PROVE DecidedInv
  OBVIOUS
<1>1. user.status = "active"
  BY DEF Init
<1>2. \A m \in Moderators : tx[m] = NoTx
  BY DEF Init
<1>3. QED
  BY <1>1, <1>2 DEF DecidedInv, Moderators

\* What a moderation writes to the two columns.
LEMMA FlushedColumns ==
    ASSUME user \in User, NEW t \in Tx
    PROVE  /\ Flushed(t).status =
                IF t.assigned.status # t.read.status THEN t.assigned.status
                                                     ELSE user.status
           /\ t.assigned \in User => Flushed(t).suspended_until =
                IF \/ t.assigned.suspended_until # t.read.suspended_until
                   \/ t.assigned.suspended_until = "future"
                THEN t.assigned.suspended_until ELSE user.suspended_until
           /\ t.assigned \notin User => Flushed(t).suspended_until = user.suspended_until
<1>1. DOMAIN user = {"status", "is_active", "suspended_until"}
  BY DEF User
<1>2. "status" \in DOMAIN t.assigned
  BY DEF Tx, Assigned, User
<1>3. t.assigned \in User => "suspended_until" \in DOMAIN t.assigned
  BY DEF User
<1>4. t.assigned \notin User => "suspended_until" \notin DOMAIN t.assigned
  BY DEF Tx, Assigned
<1>5. QED
  BY <1>1, <1>2, <1>3, <1>4 DEF Flushed, Dirty

LEMMA BeginDecided ==
    ASSUME ResetInv, DecidedInv, NEW m \in Moderators, NEW op,
           NEW assigned, Begin(m, op, assigned),
           assigned.status = "suspended" =>
              assigned \in User /\ assigned.suspended_until \in {"null", "future"},
           m = Beat =>
              /\ Expired(user)
              /\ assigned = [status |-> "active", is_active |-> TRUE,
                             suspended_until |-> "null"]
    PROVE  DecidedInv'
<1>1. SUFFICES ASSUME "admins" \notin raced' PROVE DecidedInv'
  BY DEF DecidedInv
<1>2. "admins" \notin raced
  BY <1>1 DEF Begin
<1>3. user' = user /\ decided' = decided
  BY DEF Begin
<1>4. tx'[m] = [op |-> op, read |-> user, assigned |-> assigned]
  BY DEF Begin, ResetInv, TypeOK
<1>5. \A o \in Moderators : o # m => tx'[o] = tx[o]
  BY DEF Begin, ResetInv, TypeOK
<1>6. m \in Admins => \A a \in Admins : tx[a] = NoTx
  <2> SUFFICES ASSUME m \in Admins, NEW a \in Admins, tx[a] # NoTx PROVE FALSE
    OBVIOUS
  <2>1. a \in Moderators /\ Beat \notin {m, a}
    BY AccountsAssumption DEF Moderators
  <2>2. "admins" \in raced'
    BY <2>1 DEF Begin
  <2>3. QED
    BY <1>1, <2>2
<1>7. tx'[m].read = user /\ tx'[m].assigned = assigned
  BY <1>4
<1>8. Beat \in Moderators /\ Beat \notin Admins /\ \A a \in Admins : a \in Moderators
  BY AccountsAssumption DEF Moderators
<1>9. CASE m = Beat
  <2>1. /\ tx'[Beat].read.status = "suspended"
        /\ tx'[Beat].assigned = [status |-> "active", is_active |-> TRUE,
                                 suspended_until |-> "null"]
    BY <1>7, <1>9 DEF Expired
  <2>2. \A a \in Admins : tx'[a] = tx[a]
    BY <1>5, <1>8, <1>9
  <2>3. QED
    BY <1>2, <1>3, <2>1, <2>2 DEF DecidedInv
<1>10. CASE m \in Admins
  BY <1>2, <1>3, <1>5, <1>6, <1>7, <1>8, <1>10 DEF DecidedInv
<1>11. QED
  BY <1>9, <1>10 DEF Moderators

LEMMA CommitDecided ==
    ASSUME ResetInv, DecidedInv, NEW m \in Moderators, Commit(m)
    PROVE  DecidedInv'
<1>1. SUFFICES ASSUME "admins" \notin raced' PROVE DecidedInv'
  BY DEF DecidedInv
<1>2. "admins" \notin raced /\ tx[m] # NoTx /\ user' = Flushed(tx[m])
  BY <1>1 DEF Commit
<1>3. tx[m] \in Tx /\ user \in User
  BY <1>2 DEF ResetInv, TypeOK
<1>4. tx'[m] = NoTx /\ \A o \in Moderators : o # m => tx'[o] = tx[o]
  BY DEF Commit, ResetInv, TypeOK
<1>5. Beat \in Moderators /\ Beat \notin Admins /\ \A a \in Admins : a \in Moderators
  BY AccountsAssumption DEF Moderators
<1>6. CASE m = Beat
  <2>1. /\ tx[Beat].read.status = "suspended"
        /\ tx[Beat].assigned.status = "active"
        /\ tx[Beat].assigned.suspended_until = "null"
    BY <1>2, <1>6 DEF DecidedInv
  <2>2. user'.status = "active"
    BY <1>2, <1>3, <1>6, <2>1, FlushedColumns
  <2>3. user.suspended_until = "null" => user'.suspended_until = "null"
    BY <1>2, <1>3, <1>6, <2>1, FlushedColumns
  <2>4. QED
    BY <1>2, <1>4, <1>5, <1>6, <2>2, <2>3 DEF DecidedInv
<1>7. CASE m \in Admins
  <2>1. \A a \in Admins : tx'[a] = NoTx
    BY <1>2, <1>4, <1>5, <1>7 DEF DecidedInv
  <2>2. decided' = tx[m].assigned /\ tx'[Beat] = tx[Beat]
    BY <1>4, <1>5, <1>7 DEF Commit
  <2>3. /\ tx[m].read.status # "suspended" => user.status # "suspended"
        /\ tx[m].read.suspended_until = "null" => user.suspended_until = "null"
        /\ tx[m].assigned.status = "suspended" =>
             /\ tx[m].assigned \in User
             /\ tx[m].assigned.suspended_until \in {"null", "future"}
    BY <1>2, <1>7 DEF DecidedInv
  <2>4. user'.status = "suspended" => tx[m].assigned.status = "suspended"
    BY <1>2, <1>3, <2>3, FlushedColumns
  <2>5. user'.status = "suspended" /\ user'.suspended_until # "null" =>
          tx[m].assigned.suspended_until = "future"
    BY <1>2, <1>3, <2>3, <2>4, FlushedColumns
  <2>6. QED
    BY <1>2, <2>1, <2>2, <2>4, <2>5 DEF DecidedInv
<1>8. QED
  BY <1>6, <1>7 DEF Moderators

LEMMA DecidedStep ==
    ASSUME ResetInv, DecidedInv, [Next]_vars
    PROVE  DecidedInv'
<1>0. Beat \in Moderators /\ Beat \notin Admins /\ \A a \in Admins : a \in Moderators
  BY AccountsAssumption DEF Moderators
<1>1. ASSUME NEW m \in Moderators, ModerationFails(m)
      PROVE  DecidedInv'
  <2>1. \A o \in Moderators : tx'[o] = NoTx \/ tx'[o] = tx[o]
    BY <1>1 DEF ModerationFails, ResetInv, TypeOK
  <2>2. user' = user /\ raced' = raced /\ decided' = decided
    BY <1>1 DEF ModerationFails
  <2>3. QED
    BY <1>0, <2>1, <2>2 DEF DecidedInv
<1>2. ASSUME NEW a \in Admins, Suspend(a)
      PROVE  DecidedInv'
  <2>1. PICK until \in {"null", "future"} :
          Begin(a, "purge", [status |-> "suspended", is_active |-> FALSE,
                             suspended_until |-> until])
    BY <1>2 DEF Suspend
  <2>2. [status |-> "suspended", is_active |-> FALSE, suspended_until |-> until] \in User
    BY DEF User, Status, Until
  <2>3. QED
    BY <1>0, <2>1, <2>2, BeginDecided
<1>3. ASSUME NEW a \in Admins, Ban(a) \/ Unsuspend(a) \/ SoftDelete(a)
      PROVE  DecidedInv'
  BY <1>0, <1>3, BeginDecided DEF Ban, Unsuspend, SoftDelete
<1>4. CASE LiftExpired
  BY <1>0, <1>4, BeginDecided DEF LiftExpired
<1>5. CASE TimePasses
  <2>1. user.suspended_until = "future" /\ user'.status = user.status
    BY <1>5 DEF TimePasses, ResetInv, TypeOK, User
  <2>2. UNCHANGED <<tx, raced, decided>>
    BY <1>5 DEF TimePasses
  <2>3. QED
    BY <2>1, <2>2 DEF DecidedInv
<1>6. CASE \/ ForgotPassword \/ ResetExpires \/ BeginChange \/ SelectTokens
           \/ CommitChange \/ ChangeFails \/ AdminResetPassword
           \/ RevokeAllSessions \/ UNCHANGED vars
  <2>1. UNCHANGED <<user, tx, raced, decided>>
    BY <1>6 DEF ForgotPassword, ResetExpires, BeginChange, SelectTokens, CommitChange,
                ChangeFails, AdminResetPassword, RevokeAllSessions, vars
  <2>2. QED
    BY <2>1 DEF DecidedInv
<1>7. ASSUME NEW l \in Logins,
             \/ Authenticate(l) \/ VerifyEmail(l) \/ IssueToken(l)
             \/ CreateSession(l) \/ LoginFails(l)
             \/ Logout(l) \/ RevokeOwnSession(l) \/ RevokeSession(l)
      PROVE  DecidedInv'
  <2>1. UNCHANGED <<user, tx, raced, decided>>
    BY <1>7 DEF Authenticate, VerifyEmail, IssueToken, CreateSession, LoginFails,
                Logout, RevokeOwnSession, RevokeSession, Revoke
  <2>2. QED
    BY <2>1 DEF DecidedInv
<1>8. QED
  BY <1>1, <1>2, <1>3, <1>4, <1>5, <1>6, <1>7, CommitDecided DEF Next

LEMMA DecidedAlways == Spec => [](ResetInv /\ DecidedInv)
<1>1. ResetInv /\ DecidedInv /\ [Next]_vars => (ResetInv /\ DecidedInv)'
  BY TypeStep, DecidedStep
<1>2. QED
  BY <1>1, TypeInit, DecidedInit, PTL DEF Spec

\* As long as no two admins moderate the account at once, the Celery task takes
\* up nothing but what an admin has last suspended for a time, in whatever
\* order its runs, the moderations and the passing of time overlap.
THEOREM OnlyTimedLifted == Spec => LiftsOnlyTimed
<1>1. ASSUME ResetInv, DecidedInv, [Next]_vars,
             tx[Beat] = NoTx, tx'[Beat] # NoTx, "admins" \notin raced
      PROVE  decided.status = "suspended" /\ decided.suspended_until = "future"
  <2>1. Beat \notin Admins
    BY AccountsAssumption
  <2>2. LiftExpired
    <3>1. \A m \in Moderators : \A op, assigned :
            m # Beat /\ Begin(m, op, assigned) => tx'[Beat] = tx[Beat]
      BY <1>1 DEF Begin, ResetInv, TypeOK, Moderators
    <3>2. ASSUME NEW a \in Admins, Suspend(a) \/ Ban(a) \/ Unsuspend(a) \/ SoftDelete(a)
          PROVE  tx'[Beat] = tx[Beat]
      BY <2>1, <3>1, <3>2 DEF Suspend, Ban, Unsuspend, SoftDelete, Moderators
    <3>3. ASSUME NEW m \in Moderators, Commit(m) \/ ModerationFails(m)
          PROVE  tx'[Beat] \in {tx[Beat], NoTx}
      <4>1. tx' = [tx EXCEPT ![m] = NoTx]
        BY <3>3 DEF Commit, ModerationFails
      <4>2. Beat \in DOMAIN tx
        BY <1>1 DEF ResetInv, TypeOK, Moderators
      <4>3. QED
        BY <4>1, <4>2
    <3>4. QED
      BY <1>1, <3>2, <3>3
         DEF Next, vars, Authenticate, VerifyEmail, IssueToken, CreateSession, LoginFails,
             Logout, RevokeOwnSession, RevokeSession, Revoke, ForgotPassword, ResetExpires,
             BeginChange, SelectTokens, CommitChange, ChangeFails, AdminResetPassword,
             RevokeAllSessions, TimePasses
  <2>3. user.status = "suspended" /\ user.suspended_until = "past"
    BY <2>2 DEF LiftExpired, Expired
  <2>4. QED
    BY <1>1, <2>3 DEF DecidedInv
<1>2. (ResetInv /\ DecidedInv) /\ [Next]_vars =>
        [tx[Beat] = NoTx /\ tx'[Beat] # NoTx /\ "admins" \notin raced
           => decided.status = "suspended" /\ decided.suspended_until = "future"]_vars
  BY <1>1
<1>3. QED
  BY <1>2, DecidedAlways, PTL DEF Spec, LiftsOnlyTimed

=============================================================================
