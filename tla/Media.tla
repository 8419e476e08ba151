-------------------------------- MODULE Media --------------------------------
(***************************************************************************)
(* The images and videos of one event, the two pictures of one user's      *)
(* profile, and the storage that keeps their files.  Rows and files are    *)
(* changed one after the other, without a transaction over both.           *)
(*                                                                         *)
(* A row of an image and the file it names have the same number; so do a   *)
(* picture and its file.                                                   *)
(***************************************************************************)
EXTENDS Integers, FiniteSets

CONSTANTS
    Slots,      \* requests that may run at the same time
    S3,         \* STORAGE_PROVIDER is "s3"
    MaxOld,     \* bound: images the event has at the start
    MaxIds,     \* bound: rows and files ever made
    MaxOrder,   \* bound: positions asked for in a PATCH
    MaxWork     \* bound: requests and failures

ASSUME MediaAssumption ==
    /\ S3 \in BOOLEAN
    /\ MaxOld \in Nat /\ MaxIds \in Nat /\ MaxOrder \in Nat /\ MaxWork \in Nat
    /\ MaxOld < MaxIds

VARIABLES
    media,      \* event_media: the row of each number, or NoMedia
    profile,    \* user_profiles: the user's row, or NoProfile
    files,      \* what the storage keeps
    ids,        \* the numbers up to this one are in use
    req,        \* the request of each slot
    work,       \* how much of MaxWork is done
    raced,      \* history: what overlapped, see Begin
    failed,     \* history: a request or an access to the storage has failed
    abandoned,  \* history: files deleted by a request that failed later
    deleted     \* history: the images whose deletion was answered 204

vars == <<media, profile, files, ids, req, work, raced, failed, abandoned, deleted>>

Ids == 1 .. MaxIds
NoFile == 0
NoMedia == [type |-> "none", is_primary |-> FALSE, order |-> 0]
NoProfile == [avatar_url |-> -1, cover_photo_url |-> -1]
Columns == DOMAIN NoProfile
Profile == [Columns -> 0 .. MaxIds] \cup {NoProfile}

Idle == [op |-> "none", pc |-> "idle", id |-> 0, is_primary |-> FALSE,
         order |-> 0, seen |-> {}, read |-> NoMedia, column |-> "avatar_url",
         profile |-> NoProfile]
Request ==
    [op : {"none", "image", "video", "delete", "patch", "picture", "no_picture"},
     pc : {"idle", "store", "flush", "insert", "unlink", "remove", "select",
           "write", "replace", "commit"},
     id : 0 .. MaxIds, is_primary : BOOLEAN, order : Int, seen : SUBSET Ids,
     read : [type : {"none", "image", "video"}, is_primary : BOOLEAN, order : Int],
     column : Columns, profile : Profile]

TypeOK ==
    /\ media \in [Ids -> [type : {"none", "image", "video"},
                          is_primary : BOOLEAN, order : Int]]
    /\ profile \in Profile
    /\ files \subseteq Ids
    /\ ids \in 0 .. MaxIds
    /\ req \in [Slots -> Request]
    /\ work \in 0 .. MaxWork
    /\ raced \subseteq {"cover", "order", "picture"}
    /\ failed \in BOOLEAN
    /\ abandoned \subseteq Ids
    /\ deleted \subseteq Ids

\* An event with some images, the first of which may be its cover, and a user
\* without a profile, or with one.
Init ==
    /\ ids \in 0 .. MaxOld
    /\ \E cover \in BOOLEAN :
         media = [i \in Ids |->
                    IF i <= ids
                    THEN [type |-> "image", is_primary |-> cover /\ i = 1, order |-> i]
                    ELSE NoMedia]
    /\ files = 1 .. ids
    /\ profile \in {NoProfile, [c \in Columns |-> NoFile]}
    /\ req = [s \in Slots |-> Idle]
    /\ work = 0
    /\ raced = {}
    /\ failed = FALSE
    /\ abandoned = {}
    /\ deleted = {}

Rows == {i \in Ids : media[i] # NoMedia}
Primaries == {i \in Rows : media[i].is_primary}
History == <<failed, abandoned, deleted>>

-----------------------------------------------------------------------------

SetsCover(q) == q.op \in {"image", "patch"} /\ q.is_primary
Appends(q) == q.op \in {"image", "video"}
Reorders(q) == q.op = "patch" /\ q.order # q.read.order

\* A request arrives in slot s; q is what it has read and what it wants.
Begin(s, q) ==
    /\ work < MaxWork
    /\ work' = work + 1
    /\ req[s].pc = "idle"
    /\ req' = [req EXCEPT ![s] = q]
    /\ raced' = raced \cup UNION
         {(IF SetsCover(q) /\ SetsCover(o) THEN {"cover"} ELSE {})
            \cup (IF \/ Appends(q) /\ (Appends(o) \/ Reorders(o))
                     \/ Reorders(q) /\ Appends(o) THEN {"order"} ELSE {})
            \cup (IF {q.op, o.op} \subseteq {"picture", "no_picture"}
                  THEN {"picture"} ELSE {}) :
          o \in {req[x] : x \in Slots \ {s}}}
    /\ UNCHANGED <<media, profile, files, History>>

\* The request of s goes on.
Goto(s, pc) == req' = [req EXCEPT ![s] = [@ EXCEPT !.pc = pc]]
Finish(s) == req' = [req EXCEPT ![s] = Idle]

\* A failed request leaves no row, but what it did to files stays.
Unlinked(s) ==
    CASE req[s].pc = "remove" /\ req[s].read.type = "image" -> {req[s].id}
      [] req[s].op \in {"picture", "no_picture"} /\ req[s].pc \in {"store", "commit"} ->
           {req[s].profile[req[s].column]} \cap Ids
      [] OTHER -> {}
Fail(s) ==
    /\ Finish(s)
    /\ failed' = TRUE
    /\ abandoned' = abandoned \cup Unlinked(s)
    /\ UNCHANGED <<media, profile, ids, raced, deleted>>

\* The process dies, the client is gone, or the connection to PostgreSQL.
Die(s) ==
    /\ req[s].pc # "idle"
    /\ work < MaxWork
    /\ work' = work + 1
    /\ Fail(s)
    /\ UNCHANGED files

-----------------------------------------------------------------------------
(* The storage. *)

\* LocalStorage.upload, S3Storage.upload: a new name for every file.
Store(s, pc) ==
    /\ req[s].pc = "store"
    /\ files' = files \cup {req[s].id}
    /\ Goto(s, pc)
    /\ UNCHANGED <<media, profile, ids, work, raced, History>>

\* Mutant: the error is swallowed.
StoreFailsSilently(s) ==
    /\ req[s].pc = "store"
    /\ work < MaxWork
    /\ work' = work + 1
    /\ Goto(s, IF req[s].op = "image" THEN "flush" ELSE "commit")
    /\ UNCHANGED <<media, profile, files, ids, raced, History>>

\* Writing raises; a part of the file may be there.
StoreFails(s) ==
    /\ req[s].pc = "store"
    /\ work < MaxWork
    /\ work' = work + 1
    /\ files' \in {files, files \cup {req[s].id}}
    /\ Fail(s)

\* What is left when f is deleted.  S3Storage.delete looks for a host that its
\* own URLs do not have and deletes a key that is not there.
Without(f) == IF S3 THEN files ELSE files \ {f}

\* Errors of the storage are swallowed.
Unlink(s, f, pc) ==
    /\ Goto(s, pc)
    /\ \/ files' = Without(f) /\ UNCHANGED <<work, failed>>
       \/ /\ work < MaxWork
          /\ work' = work + 1
          /\ failed' = TRUE
          /\ UNCHANGED files
    /\ UNCHANGED <<media, profile, ids, raced, abandoned, deleted>>

-----------------------------------------------------------------------------
(* Event media. *)

\* Rows that an upload has written and not yet committed are locked.
LockedRows(s) == UNION {req[x].seen : x \in {x \in Slots \ {s} : req[x].pc = "insert"}}

\* The highest position, "scalar() or 0", plus one.
NextOrder ==
    IF Rows = {} THEN 1
    ELSE 1 + media[CHOOSE i \in Rows : \A j \in Rows : media[j].order <= media[i].order].order

\* _unset_existing_primary
ExistingPrimary == Primaries

NewId(q) == /\ ids < MaxIds /\ ids' = ids + 1 /\ q.id = ids'

\* upload_event_image: the rows to unset are read.
BeginImage(s) ==
    \E p \in BOOLEAN :
        LET q == [Idle EXCEPT !.op = "image", !.pc = "store", !.id = ids + 1,
                              !.is_primary = p,
                              !.seen = IF p THEN ExistingPrimary ELSE {}]
        IN NewId(q) /\ Begin(s, q)

\* The autoflush unsets them, then the position is read.
Flush(s) ==
    /\ req[s].pc = "flush"
    /\ req[s].seen \subseteq Rows
    /\ req[s].seen \cap LockedRows(s) = {}
    /\ req' = [req EXCEPT ![s] = [@ EXCEPT !.pc = "insert", !.order = NextOrder]]
    /\ UNCHANGED <<media, profile, files, ids, work, raced, History>>

\* One of them has been deleted: StaleDataError.
FlushFails(s) ==
    /\ req[s].pc = "flush"
    /\ ~(req[s].seen \subseteq Rows)
    /\ Fail(s)
    /\ UNCHANGED <<files, work>>

BeginVideo(s) ==
    LET q == [Idle EXCEPT !.op = "video", !.pc = "insert", !.id = ids + 1,
                          !.order = NextOrder]
    IN NewId(q) /\ Begin(s, q)

Unset(S) == [i \in Ids |-> IF i \in S /\ i \in Rows
                           THEN [media[i] EXCEPT !.is_primary = FALSE]
                           ELSE media[i]]

Insert(s) ==
    LET q == req[s] IN
    /\ q.pc = "insert"
    /\ media' = [Unset(q.seen) EXCEPT ![q.id] =
                   [type |-> q.op, is_primary |-> q.is_primary, order |-> q.order]]
    /\ Finish(s)
    /\ UNCHANGED <<profile, files, ids, work, raced, History>>

\* delete_event_media
BeginDelete(s) ==
    /\ \E i \in Rows :
         Begin(s, [Idle EXCEPT !.op = "delete", !.id = i, !.read = media[i],
                     !.pc = IF media[i].type = "image" THEN "unlink" ELSE "remove"])
    /\ UNCHANGED ids

UnlinkImage(s) == req[s].pc = "unlink" /\ Unlink(s, req[s].id, "remove")

\* A row that is already gone is deleted with a warning.
Remove(s) ==
    /\ req[s].pc = "remove"
    /\ req[s].id \notin LockedRows(s)
    /\ media' = [media EXCEPT ![req[s].id] = NoMedia]
    /\ deleted' = deleted \cup {req[s].id}
    /\ Finish(s)
    /\ UNCHANGED <<profile, files, ids, work, raced, failed, abandoned>>

\* update_event_media: the cover, the position, or both.
BeginPatch(s) ==
    /\ \E i \in Rows, p \in BOOLEAN, k \in 0 .. MaxOrder :
         /\ p \/ k # media[i].order
         /\ Begin(s, [Idle EXCEPT !.op = "patch", !.id = i, !.read = media[i],
                        !.is_primary = p, !.order = k,
                        !.pc = IF p THEN "select" ELSE "write"])
    /\ UNCHANGED ids

SelectPrimary(s) ==
    /\ req[s].pc = "select"
    /\ req' = [req EXCEPT ![s] = [@ EXCEPT !.pc = "write",
                                           !.seen = ExistingPrimary \ {req[s].id}]]
    /\ UNCHANGED <<media, profile, files, ids, work, raced, History>>

\* A column of the row is written if it differs from the copy.
Becomes(q) == q.is_primary /\ ~q.read.is_primary
Written(q) == q.seen \cup IF Becomes(q) \/ q.order # q.read.order THEN {q.id} ELSE {}

\* Mutant: a row that is gone does not stop the others from being written.
CommitPatchAnyway(s) ==
    LET q == req[s] IN
    /\ q.pc = "write"
    /\ media' = [Unset(q.seen) EXCEPT ![q.id] =
                   IF q.id \in Rows THEN [@ EXCEPT !.is_primary = q.is_primary] ELSE @]
    /\ Finish(s)
    /\ UNCHANGED <<profile, files, ids, work, raced, History>>

CommitPatch(s) ==
    LET q == req[s] IN
    /\ q.pc = "write"
    /\ Written(q) \subseteq Rows
    /\ Written(q) \cap LockedRows(s) = {}
    /\ media' = [i \in Ids |->
                   [Unset(q.seen)[i] EXCEPT
                      !.is_primary = @ \/ (i = q.id /\ Becomes(q)),
                      !.order = IF i = q.id /\ q.order # q.read.order
                                THEN q.order ELSE @]]
    /\ Finish(s)
    /\ UNCHANGED <<profile, files, ids, work, raced, History>>

PatchFails(s) ==
    /\ req[s].pc = "write"
    /\ ~(Written(req[s]) \subseteq Rows)
    /\ Fail(s)
    /\ UNCHANGED <<files, work>>

-----------------------------------------------------------------------------
(* Pictures of a profile; the route that deletes a cover photo raises before *)
(* it does anything.                                                         *)

\* upload_user_avatar, upload_cover_photo
BeginPicture(s) ==
    \E c \in Columns :
        LET q == [Idle EXCEPT !.op = "picture", !.id = ids + 1, !.column = c,
                              !.profile = profile,
                              !.pc = IF profile[c] \in Ids THEN "replace" ELSE "store"]
        IN NewId(q) /\ Begin(s, q)

\* delete_user_avatar
BeginNoPicture(s) ==
    /\ profile.avatar_url \in Ids
    /\ Begin(s, [Idle EXCEPT !.op = "no_picture", !.pc = "replace", !.profile = profile])
    /\ UNCHANGED ids

\* The old file goes first.
UnlinkOld(s) ==
    /\ req[s].pc = "replace"
    /\ Unlink(s, req[s].profile[req[s].column],
              IF req[s].op = "picture" THEN "store" ELSE "commit")

\* Mutant: the row is written as it was read, with the new picture in it.
CommitWholeProfile(s) ==
    LET q == req[s] IN
    /\ q.pc = "commit"
    /\ q.profile # NoProfile \/ profile = NoProfile
    /\ profile' = [c \in Columns |-> IF c = q.column THEN q.id
                                     ELSE IF q.profile[c] \in Ids THEN q.profile[c] ELSE NoFile]
    /\ Finish(s)
    /\ UNCHANGED <<media, files, ids, work, raced, History>>

\* Only the column of the picture is written.
CommitPicture(s) ==
    LET q == req[s] IN
    /\ q.pc = "commit"
    /\ q.profile # NoProfile \/ profile = NoProfile
    /\ profile' = [c \in Columns |-> IF c = q.column THEN q.id
                                     ELSE IF profile[c] \in Ids THEN profile[c] ELSE NoFile]
    /\ Finish(s)
    /\ UNCHANGED <<media, files, ids, work, raced, History>>

\* user_id is unique: another first picture has come before.
ProfileConflicts(s) ==
    /\ req[s].pc = "commit"
    /\ req[s].profile = NoProfile /\ profile # NoProfile
    /\ Fail(s)
    /\ UNCHANGED <<files, work>>

-----------------------------------------------------------------------------

Next ==
    \E s \in Slots :
        \/ BeginImage(s) \/ Flush(s) \/ FlushFails(s)
        \/ BeginVideo(s) \/ Insert(s)
        \/ BeginDelete(s) \/ UnlinkImage(s) \/ Remove(s)
        \/ BeginPatch(s) \/ SelectPrimary(s) \/ CommitPatch(s) \/ PatchFails(s)
        \/ BeginPicture(s) \/ BeginNoPicture(s) \/ UnlinkOld(s)
        \/ CommitPicture(s) \/ ProfileConflicts(s)
        \/ Store(s, IF req[s].op = "image" THEN "flush" ELSE "commit")
        \/ StoreFails(s) \/ Die(s)

Spec == Init /\ [][Next]_vars

-----------------------------------------------------------------------------

Running == {req[s] : s \in {s \in Slots : req[s].pc # "idle"}}
Pictures == {profile[c] : c \in Columns} \cap Ids
Images == {i \in Rows : media[i].type = "image"}

\* An event has one cover at most, and one that has a cover keeps one until the
\* cover is deleted, whatever fails or dies meanwhile, unless two requests that
\* set it overlap (media.py:43, :97).  A new image or video comes after all
\* others, unless another one or a new position was written at the same time
\* (media.py:55).
CoverKept ==
    [][/\ "cover" \notin raced =>
            /\ Cardinality(Primaries') <= 1
            /\ Primaries # {} =>
                 Primaries' # {} \/ \E i \in Primaries : media'[i] = NoMedia
       /\ "order" \notin raced =>
            \A i \in Rows' \ Rows, j \in Rows : media[j].order < media'[i].order]_vars

\* What rows name is in the storage, unless a request that deletes it is under
\* way or has failed in between; overlaps do no harm.
RowsHaveFiles ==
    \A f \in Images \cup Pictures :
        \/ f \in files
        \/ f \in abandoned
        \/ \E s \in Slots : f \in Unlinked(s)

\* What is in the storage is named by a row or belongs to a request that is
\* running, unless something failed or pictures were changed at the same time.
NoOrphans ==
    ~failed /\ "picture" \notin raced =>
        files \subseteq Images \cup Pictures
            \cup {q.id : q \in Running} \cup {q.profile[q.column] : q \in Running}

\* The file of an image that was deleted is gone (media.py:162).
DeletedFromStorage == ~failed => deleted \cap files = {}

=============================================================================
