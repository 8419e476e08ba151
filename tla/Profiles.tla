------------------------------ MODULE Profiles ------------------------------
(***************************************************************************)
(* What users say of themselves: the columns of the user's row that are    *)
(* unique, the profile and the preferences, whose rows are made when they  *)
(* are first needed, and who follows whom.  The profile is the row whose   *)
(* pictures Media uploads, so its requests go on at the same time.         *)
(***************************************************************************)
EXTENDS Media

CONSTANTS
    Edits,      \* requests of this module that may run at the same time
    Nobody      \* no request

ASSUME ProfilesAssumption ==
    Edits \cap Slots = {} /\ Nobody \notin Edits \cup Slots

VARIABLES
    row,        \* users: the unique columns of two users
    bio,        \* user_profiles.bio of the owner, once there is a profile
    theme,      \* user_preferences.theme of the owner, NoRow without a row
    follows,    \* follows: whether the other user follows the owner
    edit,       \* the request of each of Edits
    entry,      \* who has an uncommitted row in user_profiles
    clashed     \* history: two requests for one column have overlapped

profilesVars == <<vars, row, bio, theme, follows, edit, entry, clashed>>

People == {"owner", "other"}
Names == 1 .. 3
Texts == 1 .. 2
Keep == 0       \* in a request: not asked for; in bio: NULL
NoRow == 0
DefaultTheme == 1
UserColumns == {"username", "email"}

NoEdit == [op |-> "none", pc |-> "idle", who |-> "owner", username |-> Keep,
           email |-> Keep, bio |-> Keep, theme |-> Keep,
           had |-> FALSE, copy |-> Keep]

ProfilesTypeOK ==
    /\ TypeOK
    /\ row \in [People -> [UserColumns -> Names]]
    /\ bio \in {Keep} \cup Texts
    /\ profile = NoProfile => bio = Keep
    /\ theme \in {NoRow} \cup Texts
    /\ follows \in BOOLEAN
    /\ edit \in [Edits ->
         [op : {"none", "profile", "account", "preferences", "follow", "unfollow"},
          pc : {"idle", "failed", "user", "row"}, who : People,
          username : {Keep} \cup Names, email : {Keep} \cup Names,
          bio : {Keep} \cup Texts, theme : {Keep} \cup Texts,
          had : BOOLEAN, copy : {Keep} \cup Texts]]
    /\ entry \in {Nobody} \cup Edits \cup Slots
    /\ clashed \in BOOLEAN

ProfilesInit ==
    /\ Init
    /\ row = [p \in People |-> [c \in UserColumns |-> IF p = "owner" THEN 1 ELSE 2]]
    /\ bio = IF profile = NoProfile THEN Keep ELSE 1
    /\ theme = NoRow
    /\ follows = FALSE
    /\ edit = [e \in Edits |-> NoEdit]
    /\ entry = Nobody
    /\ clashed = FALSE

Runs(e) == edit[e].pc \in {"user", "row"}

-----------------------------------------------------------------------------
(* Who waits for whom. *)

\* An UPDATE of a unique column locks the user's row against the foreign keys
\* of new rows, too.
Renaming(p) ==
    {e \in Edits : edit[e].pc = "row" /\ edit[e].username # Keep /\ edit[e].who = p}

\* A request that is about to insert the first profile.
InsertsProfile(x) ==
    IF x \in Edits
    THEN edit[x].op = "profile" /\ edit[x].pc = "row" /\ ~edit[x].had
    ELSE req[x].op = "picture" /\ req[x].pc = "commit" /\ req[x].profile = NoProfile

\* Mutant: the profile is inserted in a session of its own.
WaitsInOwnSession(x) ==
    IF InsertsProfile(x)
    THEN IF entry \notin {Nobody, x} THEN {entry} ELSE Renaming("owner")
    ELSE {}

\* The requests for whose COMMIT or ROLLBACK x waits: another one has written
\* the same key, the same row, or a key that a new row refers to.
Waits(x) ==
    CASE InsertsProfile(x) ->
           IF entry \notin {Nobody, x} THEN {entry} ELSE Renaming("owner") \ {x}
      [] x \in Edits /\ edit[x].pc = "user" ->
           Renaming(edit[x].who)
             \cup {e \in Edits : /\ edit[x].username # Keep
                                 /\ Renaming(edit[e].who) = {e}
                                 /\ edit[e].username = edit[x].username}
      [] x \in Edits /\ edit[x].op = "preferences" ->
           IF edit[x].had THEN {} ELSE Renaming("owner")
      [] x \in Edits /\ edit[x].op = "follow" -> Renaming("owner") \cup Renaming("other")
      [] OTHER -> {}

InCycle(x) ==
    \E S \in SUBSET {y \in Edits \cup Slots : Waits(y) # {}} :
        /\ x \in S
        /\ \A y \in S : Waits(y) \cap S # {} /\ \E z \in S : y \in Waits(z)

-----------------------------------------------------------------------------
(* Requests. *)

Clash(q, o) ==
    /\ q.who = o.who
    /\ \E c \in {"username", "email", "bio", "theme"} : q[c] # Keep /\ o[c] # Keep

Start(e, q) ==
    /\ ~Runs(e)
    /\ work < MaxWork
    /\ work' = work + 1
    /\ edit' = [edit EXCEPT ![e] = q]
    /\ clashed' = (clashed \/ \E o \in Edits \ {e} : Clash(q, edit[o]))
    /\ UNCHANGED <<media, profile, files, ids, req, raced, History,
                   row, bio, theme, follows, entry>>

\* The request of e ends: answered, or rolled back.
End(e, pc) ==
    /\ edit' = [edit EXCEPT ![e] = [NoEdit EXCEPT !.pc = pc]]
    /\ entry' = IF entry = e THEN Nobody ELSE entry
    /\ UNCHANGED <<media, files, ids, req, work, raced, History, clashed>>

Refuse(e) == End(e, "failed") /\ UNCHANGED <<profile, row, bio, theme, follows>>

\* Others have the name, or the address.
Taken(q) ==
    \E p \in People \ {q.who}, c \in UserColumns : row[p][c] = q[c]

\* update_user_profile: the name is looked up, the profile as it was loaded
\* with the user is the copy that is changed.
BeginProfile(e) ==
    \E p \in People, n \in {Keep} \cup Names, b \in {Keep} \cup Texts :
        LET q == [NoEdit EXCEPT !.op = "profile", !.who = p, !.username = n, !.bio = b,
                                !.had = profile # NoProfile, !.copy = bio,
                                !.pc = IF n = Keep THEN "row" ELSE "user"]
        IN /\ n # Keep \/ b # Keep
           /\ b # Keep => p = "owner"
           /\ n # row[p].username
           /\ ~Taken(q)
           /\ Start(e, q)

\* update_current_user_profile: the address is not looked up.
BeginAccount(e) ==
    \E p \in People, m \in Names :
        /\ m # row[p].email
        /\ Start(e, [NoEdit EXCEPT !.op = "account", !.who = p, !.email = m,
                                   !.pc = "user"])

\* The query for the profile flushes the new name first.
FlushName(e) ==
    LET q == edit[e] IN
    /\ q.pc = "user" /\ q.bio # Keep
    /\ Waits(e) = {} /\ ~Taken(q)
    /\ edit' = [edit EXCEPT ![e] = [q EXCEPT !.pc = "row",
                                             !.had = profile # NoProfile,
                                             !.copy = IF q.had THEN q.copy ELSE bio]]
    /\ UNCHANGED <<vars, row, bio, theme, follows, entry, clashed>>

\* The row of the user with the columns that q asks for.
Renamed(q) ==
    [row EXCEPT ![q.who] = [c \in UserColumns |-> IF q[c] = Keep THEN @[c] ELSE q[c]]]

CommitUser(e) ==
    LET q == edit[e] IN
    /\ q.pc = "user" /\ q.bio = Keep
    /\ Waits(e) = {} /\ ~Taken(q)
    /\ row' = Renamed(q)
    /\ End(e, "idle")
    /\ UNCHANGED <<profile, bio, theme, follows>>

\* IntegrityError, after the look-up or without one.
UserConflicts(e) == edit[e].pc = "user" /\ Taken(edit[e]) /\ Refuse(e)

\* Mutant: the name is not committed with a new profile.
CommitProfileAlone(e) ==
    LET q == edit[e] IN
    /\ q.op = "profile" /\ q.pc = "row"
    /\ Waits(e) = {} /\ (q.had \/ profile = NoProfile)
    /\ row' = IF q.had THEN Renamed(q) ELSE row
    /\ bio' = IF q.had /\ q.bio = q.copy THEN bio ELSE q.bio
    /\ profile' = IF profile = NoProfile THEN [c \in Columns |-> NoFile] ELSE profile
    /\ End(e, "idle")
    /\ UNCHANGED <<theme, follows>>

\* Name and profile are committed together; of a profile that was there, the
\* column is written if it differs from the copy.
CommitProfile(e) ==
    LET q == edit[e] IN
    /\ q.op = "profile" /\ q.pc = "row"
    /\ Waits(e) = {} /\ (q.had \/ profile = NoProfile)
    /\ row' = Renamed(q)
    /\ bio' = IF q.had /\ q.bio = q.copy THEN bio ELSE q.bio
    /\ profile' = IF profile = NoProfile THEN [c \in Columns |-> NoFile] ELSE profile
    /\ End(e, "idle")
    /\ UNCHANGED <<theme, follows>>

\* A first profile waits inside its INSERT for the user's row.
Enter(x) ==
    /\ InsertsProfile(x) /\ profile = NoProfile
    /\ entry = Nobody /\ Waits(x) # {}
    /\ entry' = x
    /\ UNCHANGED <<vars, row, bio, theme, follows, edit, clashed>>

\* user_id is unique: the other first profile has come before.
RowConflicts(e) ==
    /\ InsertsProfile(e) /\ profile # NoProfile
    /\ Refuse(e)

-----------------------------------------------------------------------------
(* Preferences and followers. *)

\* update_user_preferences; get_user_preferences asks for nothing and ends
\* here if there is a row.
BeginPreferences(e) ==
    \E t \in {Keep} \cup Texts :
        /\ theme = NoRow \/ t # Keep
        /\ Start(e, [NoEdit EXCEPT !.op = "preferences", !.theme = t, !.pc = "row",
                                   !.had = theme # NoRow, !.copy = theme])

CommitPreferences(e) ==
    LET q == edit[e] IN
    /\ q.op = "preferences"
    /\ Waits(e) = {} /\ (q.had \/ theme = NoRow)
    /\ theme' = CASE q.theme = Keep -> DefaultTheme
                  [] q.had /\ q.theme = q.copy -> theme
                  [] OTHER -> q.theme
    /\ End(e, "idle")
    /\ UNCHANGED <<profile, row, bio, follows>>

PreferencesConflict(e) ==
    /\ edit[e].op = "preferences" /\ ~edit[e].had /\ theme # NoRow
    /\ Refuse(e)

\* follow_user; a user who follows already is answered here.
BeginFollow(e) ==
    ~follows /\ Start(e, [NoEdit EXCEPT !.op = "follow", !.who = "other", !.pc = "row"])

BeginUnfollow(e) ==
    Start(e, [NoEdit EXCEPT !.op = "unfollow", !.who = "other", !.pc = "row"])

\* The unique constraint refuses a second row, which is answered like a first.
CommitFollow(e) ==
    /\ edit[e].op = "follow" /\ Waits(e) = {}
    /\ follows' = TRUE
    /\ End(e, "idle")
    /\ UNCHANGED <<profile, row, bio, theme>>

CommitUnfollow(e) ==
    /\ edit[e].op = "unfollow"
    /\ follows' = FALSE
    /\ End(e, "idle")
    /\ UNCHANGED <<profile, row, bio, theme>>

-----------------------------------------------------------------------------

\* PostgreSQL aborts a transaction of a cycle.
DeadlockAbort(x) ==
    /\ InCycle(x)
    /\ IF x \in Edits
       THEN Refuse(x)
       ELSE /\ Fail(x)
            /\ entry' = IF entry = x THEN Nobody ELSE entry
            /\ UNCHANGED <<files, work, row, bio, theme, follows, edit, clashed>>

\* A step of Media; a first profile is inserted by one request at a time.
MediaStep ==
    /\ Next
    /\ profile = NoProfile /\ profile' # NoProfile =>
         \A s \in Slots : InsertsProfile(s) /\ req'[s].pc = "idle" => Waits(s) = {}
    /\ entry' = IF entry \in Slots /\ req'[entry].pc = "idle" THEN Nobody ELSE entry
    /\ UNCHANGED <<row, bio, theme, follows, edit, clashed>>

EditDies(e) ==
    /\ Runs(e)
    /\ Refuse(e)

EditStep(e) ==
    \/ BeginProfile(e) \/ BeginAccount(e) \/ BeginPreferences(e)
    \/ BeginFollow(e) \/ BeginUnfollow(e)
    \/ FlushName(e) \/ CommitUser(e) \/ UserConflicts(e)
    \/ CommitProfile(e) \/ RowConflicts(e)
    \/ CommitPreferences(e) \/ PreferencesConflict(e)
    \/ CommitFollow(e) \/ CommitUnfollow(e)
    \/ EditDies(e)

ProfilesNext ==
    \/ MediaStep
    \/ \E e \in Edits : EditStep(e)
    \/ \E x \in Edits \cup Slots : Enter(x) \/ DeadlockAbort(x)

ProfilesSpec == ProfilesInit /\ [][ProfilesNext]_profilesVars

-----------------------------------------------------------------------------

\* No two users have one name or one address, whether the handler looks it up
\* (profile.py:46) or leaves it to the constraint (users/routes/users.py:46).
NamesUnique ==
    \A c \in UserColumns : row["owner"][c] # row["other"][c]

\* The rows of users, media and profiles fit each other and the storage.
RowsSound == ProfilesTypeOK /\ NamesUnique /\ RowsHaveFiles /\ NoOrphans

\* Requests change nothing but what they ask for: overlapping updates of
\* different columns, first rows and pictures never take each other back.
OnlyAskedChanges ==
    [][LET Answered == {edit[e] : e \in {e \in Edits : Runs(e) /\ edit'[e].pc = "idle"}}
           Shown == {req[s] : s \in {s \in Slots : req[s].pc = "commit" /\ req'[s].pc = "idle"}}
       IN /\ \A p \in People, c \in UserColumns : row'[p][c] # row[p][c] =>
               \E q \in Answered : q.who = p /\ q[c] = row'[p][c]
          /\ bio' # bio => \E q \in Answered : q.bio = bio'
          /\ theme' # theme => \E q \in Answered :
               \/ q.theme = theme'
               \/ theme = NoRow /\ q.op = "preferences" /\ theme' = DefaultTheme
          /\ \A c \in Columns :
               {profile[c], profile'[c]} \cap Ids # {} /\ profile'[c] # profile[c] =>
                 \E q \in Shown : q.column = c /\ profile'[c] = q.id]_profilesVars

\* What was answered 200 is stored, the name and the profile of one request
\* together; not if an overlapping request asked for the same column, because
\* a value that equals the copy is not written (profile.py:73).
AskedIsStored ==
    [][\A e \in Edits : Runs(e) /\ edit'[e].pc = "idle" /\ ~clashed =>
         LET q == edit[e] IN
         /\ \A c \in UserColumns : q[c] # Keep => row'[q.who][c] = q[c]
         /\ q.bio # Keep => bio' = q.bio
         /\ q.theme # Keep => theme' = q.theme
         /\ q.op \in {"follow", "unfollow"} => follows' = (q.op = "follow")]_profilesVars

\* Requests wait for each other in a circle only if one has changed the name
\* before it inserts the first profile and another inserts it, too.
DeadlockNeedsFirstProfile ==
    (\E x \in Edits \cup Slots : InCycle(x)) =>
        /\ profile = NoProfile
        /\ \E e \in Renaming("owner") : InsertsProfile(e) /\ entry \notin {Nobody, e}

=============================================================================
