---------------------------- MODULE ProfilesProofs ----------------------------
(***************************************************************************)
(* Media and Profiles, for any numbers of requests, of images and of files *)
(* and for both storages.                                                  *)
(***************************************************************************)
EXTENDS Profiles, FiniteSetTheorems, WellFoundedInduction, TLAPS

-----------------------------------------------------------------------------
(* One request on media. *)

Picturing(q) == q.op \in {"picture", "no_picture"}

\* The number that q has got for a new row or picture, that of the row it was
\* sent for, and the picture it replaces.
Fresh(q) == IF q.op \in {"image", "video", "picture"} THEN {q.id} ELSE {}
Target(q) == IF q.op \in {"delete", "patch"} THEN {q.id} ELSE {}
Old(q) == IF Picturing(q) THEN {q.profile[q.column]} \cap Ids ELSE {}

\* What the step of a request says about it.
Shape(q) ==
    /\ q.op = "none" <=> q.pc = "idle"
    /\ q.pc = "idle" => q = Idle
    /\ q.op = "image" => q.pc \in {"store", "flush", "insert"}
    /\ q.op = "video" => q.pc = "insert" /\ ~q.is_primary
    /\ q.op = "delete" => q.pc \in {"unlink", "remove"}
    /\ q.op = "delete" /\ q.pc = "unlink" => q.read.type = "image"
    /\ q.op = "patch" => q.pc \in {"select", "write"}
    /\ q.op = "picture" => q.pc \in {"replace", "store", "commit"}
    /\ q.op = "no_picture" =>
         q.pc \in {"replace", "commit"} /\ q.id = 0 /\ q.profile # NoProfile
    /\ q.pc = "replace" => Old(q) # {}
    /\ q.op \in {"image", "video", "picture", "delete", "patch"} => q.id \in Ids
    /\ q.seen # {} => q.op \in {"image", "patch"} /\ q.is_primary
    /\ q.pc = "select" => q.is_primary
    /\ q.op = "patch" => q.order \in Nat
    /\ q.pc = "insert" => q.order \in Nat

Shapes == \A s \in Slots : Shape(req[s])

-----------------------------------------------------------------------------
(* Numbers. *)

RowIds == Rows \cup UNION {Target(req[s]) : s \in Slots}
PictureIds == Pictures \cup UNION {Old(req[s]) : s \in Slots}

\* A number is a row's or a picture's or still a request's own.
IdsApart ==
    /\ RowIds \cap PictureIds = {}
    /\ \A s \in Slots : Fresh(req[s]) \cap (RowIds \cup PictureIds) = {}
    /\ \A s, t \in Slots : s # t => Fresh(req[s]) \cap Fresh(req[t]) = {}

\* A picture that q replaces is in no other column of p.
KnowsColumn(q, p) == \A c \in Columns \ {q.column} : p[c] \notin Old(q)

\* A picture is in one column and stays there.
ColumnsApart ==
    /\ \A c, d \in Columns : c # d /\ profile[c] \in Ids => profile[c] # profile[d]
    /\ \A s \in Slots : KnowsColumn(req[s], profile)

IdsUsed ==
    /\ RowIds \cup PictureIds \cup files \subseteq 1 .. ids
    /\ \A s \in Slots : Fresh(req[s]) \subseteq 1 .. ids

-----------------------------------------------------------------------------
(* Files. *)

\* What q has unlinked.
UnlinkedBy(q) ==
    (IF q.pc = "remove" /\ q.read.type = "image" THEN {q.id} ELSE {})
      \cup (IF Picturing(q) /\ q.pc # "replace" THEN Old(q) ELSE {})

\* A request that goes on to the database has stored its file.
HasStored(q, S) ==
    /\ q.op = "image" /\ q.pc # "store" => q.id \in S
    /\ q.op = "picture" /\ q.pc = "commit" => q.id \in S

\* One that was sent for a row has read what kind of row it is.
KnowsType(q, m) ==
    q.op \in {"delete", "patch"} /\ m[q.id] # NoMedia => q.read.type = m[q.id].type

FilesInv ==
    /\ RowsHaveFiles
    /\ \A s \in Slots : HasStored(req[s], files) /\ KnowsType(req[s], media)

Uploaded(q) == IF q.op \in {"image", "picture"} THEN {q.id} ELSE {}
KnowsPicture(q, p) == Picturing(q) => {p[q.column]} \cap Ids = Old(q)

\* What the storage keeps is named, or about to be; what was unlinked is gone.
OrphansInv ==
    /\ "picture" \notin raced =>
         /\ \A s, t \in Slots : s # t => ~(Picturing(req[s]) /\ Picturing(req[t]))
         /\ \A s \in Slots : KnowsPicture(req[s], profile)
    /\ ~failed => \A s \in Slots : UnlinkedBy(req[s]) \cap files = {}
    /\ ~failed /\ "picture" \notin raced =>
         files \subseteq Images \cup Pictures \cup UNION {Uploaded(req[s]) : s \in Slots}

-----------------------------------------------------------------------------
(* Covers and positions. *)

\* No row of S is left as a cover by q.
KnowsCover(q, S) ==
    /\ q.op = "image" => S \subseteq q.seen
    /\ q.pc = "write" => S \subseteq q.seen \cup {q.id}
    /\ q.op = "patch" /\ q.read.is_primary => S \subseteq {q.id}
    /\ q.pc = "write" /\ q.read.is_primary => q.seen = {}

CoverInv ==
    "cover" \notin raced =>
      /\ \A s, t \in Slots : s # t => ~(SetsCover(req[s]) /\ SetsCover(req[t]))
      /\ \A i, j \in Primaries : i = j
      /\ \A s \in Slots : SetsCover(req[s]) => KnowsCover(req[s], Primaries)

Below(m, n) == \A j \in Ids : m[j] # NoMedia => m[j].order < n

OrderInv ==
    "order" \notin raced =>
      /\ \A s, t \in Slots :
           s # t => ~(Appends(req[s]) /\ (Appends(req[t]) \/ Reorders(req[t])))
      /\ \A s \in Slots : req[s].pc = "insert" => Below(media, req[s].order)

\* Rows are of images or of videos, at positions from 0 on.
RowsInv == \A i \in Rows : media[i].type # "none" /\ media[i].order \in Nat
Bounded == \E m \in Nat : \A i \in Rows : media[i].order <= m

-----------------------------------------------------------------------------
(* Edits of the profile. *)

EditShape(q) ==
    /\ q.op = "none" <=> q.pc \in {"idle", "failed"}
    /\ q.op = "none" => q.username = Keep /\ q.email = Keep /\ q.bio = Keep /\ q.theme = Keep
    /\ q.op = "profile" => q.email = Keep /\ q.theme = Keep
    /\ q.op = "profile" /\ q.pc = "row" => q.bio # Keep
    /\ q.op = "profile" /\ q.pc = "user" => q.username # Keep
    /\ q.op = "account" => q.pc = "user" /\ q.username = Keep /\ q.bio = Keep /\ q.theme = Keep
    /\ q.op \in {"preferences", "follow", "unfollow"} =>
         q.pc = "row" /\ q.username = Keep /\ q.email = Keep /\ q.bio = Keep
    /\ q.op \in {"follow", "unfollow"} => q.theme = Keep
    /\ q.bio # Keep \/ q.theme # Keep => q.who = "owner"
    /\ q.op = "preferences" /\ q.theme = Keep => ~q.had

\* What e has read is still so, but for requests that clash with it.
EditInv ==
    /\ \A e \in Edits : EditShape(edit[e])
    /\ ~clashed => \A e, o \in Edits : e # o => ~Clash(edit[e], edit[o])
    /\ \A e \in Edits :
         /\ edit[e].op = "profile" /\ edit[e].had => profile # NoProfile
         /\ edit[e].op = "preferences" /\ edit[e].had => theme # NoRow
         /\ edit[e].op = "profile" /\ edit[e].had /\ edit[e].bio # Keep /\ ~clashed =>
              edit[e].copy = bio
         /\ edit[e].op = "preferences" /\ edit[e].had /\ ~clashed => edit[e].copy = theme

\* The owner's row is locked by one request at a time, whose name is free.
RenamingInv ==
    /\ Renaming("other") = {}
    /\ \A e, o \in Renaming("owner") : e = o
    /\ \A e \in Renaming("owner") : row["other"].username # edit[e].username
    /\ entry # Nobody => profile = NoProfile
    /\ NamesUnique

\* A request for the first picture finds a profile that was made meanwhile.
PictureInv ==
    \A s \in Slots : req[s].profile # NoProfile => profile # NoProfile

MediaInv ==
    /\ TypeOK /\ Shapes
    /\ IdsApart /\ ColumnsApart /\ IdsUsed
    /\ FilesInv /\ (~S3 => OrphansInv)
    /\ CoverInv /\ OrderInv /\ RowsInv
    /\ PictureInv
UserInv == ProfilesTypeOK /\ EditInv /\ RenamingInv

-----------------------------------------------------------------------------
(* Facts about values. *)

LEMMA ColumnFacts ==
    /\ Columns = {"avatar_url", "cover_photo_url"}
    /\ NoProfile \in Profile /\ \A c \in Columns : NoProfile[c] \notin Ids
    /\ [c \in Columns |-> NoFile] \in Profile
    /\ [c \in Columns |-> NoFile] # NoProfile
    /\ NoFile \notin Ids
    /\ \A p \in Profile, c \in Columns : p[c] \in Int
    /\ \A p \in Profile : p # NoProfile => p \in [Columns -> 0 .. MaxIds]
<1>1. Columns = {"avatar_url", "cover_photo_url"}
  BY DEF Columns, NoProfile
<1>2. NoProfile \in Profile /\ \A c \in Columns : NoProfile[c] = -1
  BY <1>1 DEF Profile, NoProfile
<1>3. NoFile \in 0 .. MaxIds /\ NoFile # -1 /\ NoFile \notin Ids /\ -1 \notin Ids
  BY MediaAssumption DEF NoFile, Ids
<1> DEFINE empty == [c \in Columns |-> NoFile]
<1>4. empty \in Profile /\ \A c \in Columns : empty[c] = NoFile
  BY <1>3 DEF Profile
<1>5. empty # NoProfile
  BY <1>1, <1>2, <1>3, <1>4
<1>6. \A p \in Profile, c \in Columns : p[c] \in Int
  BY <1>2 DEF Profile
<1>7. QED
  BY <1>1, <1>2, <1>3, <1>4, <1>5, <1>6 DEF Profile

LEMMA IdsFacts ==
    /\ MaxIds \in Nat /\ MaxWork \in Nat /\ MaxOld \in Nat /\ MaxOrder \in Nat
    /\ S3 \in BOOLEAN /\ Ids \subseteq Nat /\ 0 \notin Ids
    /\ IsFiniteSet(Ids)
<1>1. MaxIds \in Nat
  BY MediaAssumption
<1>2. 1 \in Int /\ MaxIds \in Int
  BY <1>1
<1>3. IsFiniteSet(1 .. MaxIds)
  BY <1>2, FS_Interval
<1>4. QED
  BY <1>1, <1>3, MediaAssumption DEF Ids

LEMMA IdleFacts ==
    /\ Idle \in Request /\ Shape(Idle)
    /\ Idle.op = "none" /\ Idle.pc = "idle" /\ Idle.id = 0 /\ Idle.is_primary = FALSE
    /\ Idle.order = 0 /\ Idle.seen = {} /\ Idle.read = NoMedia
    /\ Idle.column = "avatar_url" /\ Idle.profile = NoProfile
    /\ Fresh(Idle) = {} /\ Target(Idle) = {} /\ Old(Idle) = {} /\ UnlinkedBy(Idle) = {}
    /\ ~SetsCover(Idle) /\ ~Appends(Idle) /\ ~Reorders(Idle) /\ ~Picturing(Idle)
<1>1. /\ Idle.op = "none" /\ Idle.pc = "idle" /\ Idle.id = 0 /\ Idle.is_primary = FALSE
      /\ Idle.order = 0 /\ Idle.seen = {} /\ Idle.read = NoMedia
      /\ Idle.column = "avatar_url" /\ Idle.profile = NoProfile
  BY DEF Idle
<1>2. Idle \in Request
  BY ColumnFacts, IdsFacts DEF Idle, Request, NoMedia
<1>3. Fresh(Idle) = {} /\ Target(Idle) = {} /\ Old(Idle) = {} /\ UnlinkedBy(Idle) = {}
  BY <1>1 DEF Fresh, Target, Old, UnlinkedBy, Picturing
<1>4. Shape(Idle)
  BY <1>1 DEF Shape
<1>5. QED
  BY <1>1, <1>2, <1>3, <1>4 DEF SetsCover, Appends, Reorders, Picturing

\* The operation follows from some steps.
LEMMA ShapeFacts ==
    ASSUME NEW q \in Request, Shape(q)
    PROVE  /\ q.pc = "store" => q.op \in {"image", "picture"}
           /\ q.pc = "flush" => q.op = "image"
           /\ q.pc = "insert" => q.op \in {"image", "video"}
           /\ q.pc \in {"unlink", "remove"} => q.op = "delete"
           /\ q.pc \in {"select", "write"} => q.op = "patch"
           /\ q.pc \in {"replace", "commit"} => q.op \in {"picture", "no_picture"}
           /\ q.pc # "idle" => q.op # "none"
           /\ Fresh(q) \subseteq Ids /\ Target(q) \subseteq Ids /\ Old(q) \subseteq Ids
           /\ q.id \in Nat /\ q.column \in Columns /\ q.seen \subseteq Ids
           /\ q.read.type \in {"none", "image", "video"}
<1>1. /\ q.op \in {"none", "image", "video", "delete", "patch", "picture", "no_picture"}
      /\ q.id \in Nat /\ q.column \in Columns /\ q.seen \subseteq Ids
      /\ q.read.type \in {"none", "image", "video"}
  BY IdsFacts DEF Request
<1>2. QED
  BY <1>1 DEF Shape, Fresh, Target, Old

LEMMA UnlinkedFacts ==
    ASSUME NEW q \in Request, Shape(q)
    PROVE  UnlinkedBy(q) =
             CASE q.pc = "remove" /\ q.read.type = "image" -> {q.id}
               [] q.op \in {"picture", "no_picture"} /\ q.pc \in {"store", "commit"} ->
                    {q.profile[q.column]} \cap Ids
               [] OTHER -> {}
<1>1. CASE q.pc = "remove" /\ q.read.type = "image"
  <2>1. q.op = "delete"
    BY <1>1, ShapeFacts
  <2>2. QED
    BY <1>1, <2>1 DEF UnlinkedBy, Picturing
<1>2. CASE ~(q.pc = "remove" /\ q.read.type = "image")
  <2>1. Picturing(q) => q.pc \in {"replace", "store", "commit"}
    BY DEF Shape, Picturing
  <2>2. CASE Picturing(q) /\ q.pc # "replace"
    <3>1. q.op \in {"picture", "no_picture"} /\ q.pc \in {"store", "commit"}
      BY <2>1, <2>2 DEF Picturing
    <3>2. UnlinkedBy(q) = Old(q)
      BY <1>2, <2>2 DEF UnlinkedBy
    <3>3. QED
      BY <1>2, <2>2, <3>1, <3>2 DEF Old
  <2>3. CASE ~(Picturing(q) /\ q.pc # "replace")
    <3>1. ~(q.op \in {"picture", "no_picture"} /\ q.pc \in {"store", "commit"})
      BY <2>3 DEF Picturing
    <3>2. UnlinkedBy(q) = {}
      BY <1>2, <2>3 DEF UnlinkedBy
    <3>3. QED
      BY <1>2, <3>1, <3>2
  <2>4. QED
    BY <2>2, <2>3
<1>3. QED
  BY <1>1, <1>2

\* The request of r becomes q, the others stay.
Becomes1(r, q) == req' = [req EXCEPT ![r] = q]

LEMMA ReqFacts ==
    ASSUME TypeOK, Shapes, NEW r \in Slots, NEW q \in Request, Shape(q), Becomes1(r, q)
    PROVE  /\ req' \in [Slots -> Request] /\ req'[r] = q /\ Shapes'
           /\ \A o \in Slots \ {r} : req'[o] = req[o]
<1>1. /\ req' \in [Slots -> Request] /\ req'[r] = q
      /\ \A o \in Slots \ {r} : req'[o] = req[o]
  BY DEF TypeOK, Becomes1
<1>2. QED
  BY <1>1 DEF Shapes

-----------------------------------------------------------------------------
(* One step of a request. *)

\* Numbers that r gives to a row, N, or to a picture, M, are no longer its own.
LEMMA IdsStep ==
    ASSUME IdsApart, IdsUsed, ids \in Nat, NEW r \in Slots,
           \A o \in Slots \ {r} : req'[o] = req[o],
           NEW N, NEW M, N \subseteq Fresh(req[r]), M \subseteq Fresh(req[r]),
           N \cap M = {}, (N \cup M) \cap Fresh(req'[r]) = {},
           Rows' \cup Target(req'[r]) \subseteq RowIds \cup N,
           Pictures' \cup Old(req'[r]) \subseteq PictureIds \cup M,
           files' \subseteq files \cup Fresh(req[r]),
           \/ Fresh(req'[r]) \subseteq Fresh(req[r]) /\ ids' = ids
           \/ Fresh(req'[r]) = {ids + 1} /\ ids' = ids + 1
    PROVE  IdsApart' /\ IdsUsed'
<1>1. RowIds' \subseteq RowIds \cup N
  <2>1. \A o \in Slots : Target(req'[o]) \subseteq RowIds \cup N
    BY DEF RowIds
  <2>2. RowIds' = Rows' \cup UNION {Target(req'[o]) : o \in Slots}
    BY DEF RowIds, Target
  <2>3. QED
    BY <2>1, <2>2
<1>2. PictureIds' \subseteq PictureIds \cup M
  <2>1. \A o \in Slots : Old(req'[o]) \subseteq PictureIds \cup M
    BY DEF PictureIds
  <2>2. PictureIds' = Pictures' \cup UNION {Old(req'[o]) : o \in Slots}
    BY DEF PictureIds, Old, Picturing
  <2>3. QED
    BY <2>1, <2>2
<1>3. \A i \in 1 .. ids : i \in 1 .. ids' /\ i # ids + 1
  OBVIOUS
<1>4. Fresh(req'[r]) \subseteq 1 .. ids'
  BY DEF IdsUsed
<1>5. /\ RowIds \cup PictureIds \cup files \subseteq 1 .. ids
      /\ \A o \in Slots : Fresh(req[o]) \subseteq 1 .. ids
  BY DEF IdsUsed
<1>6. \A o \in Slots : Fresh(req'[o]) \subseteq 1 .. ids'
  BY <1>3, <1>4, <1>5
<1>7. RowIds' \cup PictureIds' \cup files' \subseteq 1 .. ids'
  BY <1>1, <1>2, <1>3, <1>5
<1>8. IdsUsed'
  <2>1. \A o \in Slots : Fresh(req[o])' = Fresh(req'[o])
    BY DEF Fresh
  <2>2. QED
    BY <1>6, <1>7, <2>1 DEF IdsUsed
<1>9. /\ RowIds \cap PictureIds = {}
      /\ \A o \in Slots : Fresh(req[o]) \cap (RowIds \cup PictureIds) = {}
      /\ \A o, p \in Slots : o # p => Fresh(req[o]) \cap Fresh(req[p]) = {}
  BY DEF IdsApart
<1>10. RowIds' \cap PictureIds' = {}
  BY <1>1, <1>2, <1>9
<1>11. \A o \in Slots \ {r} : Fresh(req'[o]) \cap (RowIds' \cup PictureIds') = {}
  BY <1>1, <1>2, <1>9
<1>12. Fresh(req'[r]) \cap (RowIds' \cup PictureIds') = {}
  BY <1>1, <1>2, <1>3, <1>5, <1>9
<1>13. \A o, p \in Slots : o # p => Fresh(req'[o]) \cap Fresh(req'[p]) = {}
  BY <1>3, <1>5, <1>9
<1>14. QED
  BY <1>8, <1>10, <1>11, <1>12, <1>13 DEF IdsApart

\* Who names a file that r has deleted knows it from r.
LEMMA RowsFilesStep ==
    ASSUME TypeOK, TypeOK', Shapes, Shapes', NEW r \in Slots, RowsHaveFiles,
           \A o \in Slots \ {r} : req'[o] = req[o],
           NEW F, F = (Images \cup Pictures)',
           F \subseteq Images \cup Pictures \cup files',
           F \cap files \subseteq files' \cup UnlinkedBy(req'[r]),
           abandoned \subseteq abandoned',
           F \cap UnlinkedBy(req[r]) \subseteq UnlinkedBy(req'[r]) \cup abandoned'
    PROVE  RowsHaveFiles'
<1>1. \A o \in Slots : req[o] \in Request /\ Shape(req[o]) /\ req'[o] \in Request /\ Shape(req'[o])
  BY DEF TypeOK, Shapes
<1>2. \A o \in Slots : Unlinked(o) = UnlinkedBy(req[o])
  BY <1>1, UnlinkedFacts DEF Unlinked
<1>3. \A o \in Slots : Unlinked(o)' = UnlinkedBy(req'[o])
  BY <1>1, UnlinkedFacts DEF Unlinked
<1>4. ASSUME NEW f \in F
      PROVE  f \in files' \/ f \in abandoned' \/ \E o \in Slots : f \in UnlinkedBy(req'[o])
  <2>1. \/ f \in files' \/ f \in files \/ f \in abandoned
        \/ \E o \in Slots : f \in UnlinkedBy(req[o])
    BY <1>2, <1>4 DEF RowsHaveFiles
  <2>2. CASE \E o \in Slots : f \in UnlinkedBy(req[o])
    <3>1. PICK o \in Slots : f \in UnlinkedBy(req[o])
      BY <2>2
    <3>2. CASE o = r
      BY <1>4, <3>1, <3>2
    <3>3. CASE o # r
      BY <3>1, <3>3
    <3>4. QED
      BY <3>2, <3>3
  <2>3. QED
    BY <1>4, <2>1, <2>2
<1>5. QED
  BY <1>3, <1>4 DEF RowsHaveFiles
\* A request that leaves the rows of media and of the user as they are.
LEMMA QuietStep ==
    ASSUME MediaInv, Bounded, TypeOK', NEW r \in Slots,
           UNCHANGED <<media, profile>>, Shape(req'[r]),
           \A o \in Slots \ {r} : req'[o] = req[o],
           raced \subseteq raced', failed => failed', abandoned \subseteq abandoned',
           \/ Fresh(req'[r]) \subseteq Fresh(req[r]) /\ ids' = ids
           \/ Fresh(req'[r]) = {ids + 1} /\ ids' = ids + 1,
           Target(req'[r]) \subseteq RowIds, Old(req'[r]) \subseteq PictureIds,
           KnowsColumn(req'[r], profile),
           req'[r].profile # NoProfile => profile # NoProfile,
           files' \subseteq files \cup Fresh(req[r]),
           files \ files' \subseteq UnlinkedBy(req'[r]),
           UnlinkedBy(req[r]) \subseteq UnlinkedBy(req'[r]) \cup abandoned',
           HasStored(req'[r], files'), KnowsType(req'[r], media),
           ~S3 =>
             /\ "picture" \notin raced' =>
                  /\ \A o \in Slots \ {r} : ~(Picturing(req'[r]) /\ Picturing(req[o]))
                  /\ KnowsPicture(req'[r], profile)
             /\ ~failed' => UnlinkedBy(req'[r]) \cap files' = {}
             /\ ~failed' => Uploaded(req[r]) \cup (files' \ files) \subseteq Uploaded(req'[r]),
           "cover" \notin raced' =>
             /\ \A o \in Slots \ {r} : ~(SetsCover(req'[r]) /\ SetsCover(req[o]))
             /\ SetsCover(req'[r]) => KnowsCover(req'[r], Primaries),
           "order" \notin raced' =>
             /\ \A o \in Slots \ {r} :
                  /\ ~(Appends(req'[r]) /\ (Appends(req[o]) \/ Reorders(req[o])))
                  /\ ~(Appends(req[o]) /\ (Appends(req'[r]) \/ Reorders(req'[r])))
             /\ req'[r].pc = "insert" => Below(media, req'[r].order)
    PROVE  MediaInv' /\ Bounded'
<1> DEFINE q == req'[r]
<1>1. /\ TypeOK /\ Shapes /\ IdsApart /\ ColumnsApart /\ IdsUsed /\ FilesInv
      /\ (~S3 => OrphansInv) /\ CoverInv /\ OrderInv /\ RowsInv /\ PictureInv
  BY DEF MediaInv
<1>2. Rows' = Rows /\ Pictures' = Pictures /\ Images' = Images /\ Primaries' = Primaries
  BY DEF Rows, Pictures, Images, Primaries
<1>3. Shapes'
  BY <1>1 DEF Shapes
<1>4. IdsApart' /\ IdsUsed'
  <2>1. ids \in Nat
    BY <1>1, IdsFacts DEF TypeOK
  <2>2. Rows' \cup Target(q) \subseteq RowIds \cup {}
    BY <1>2 DEF RowIds
  <2>3. Pictures' \cup Old(q) \subseteq PictureIds \cup {}
    BY <1>2 DEF PictureIds
  <2>4. QED
    BY <1>1, <2>1, <2>2, <2>3, IdsStep
<1>5. ColumnsApart'
  <2>1. \A o \in Slots : KnowsColumn(req'[o], profile)
    BY <1>1 DEF ColumnsApart
  <2>2. QED
    BY <1>1, <2>1 DEF ColumnsApart, KnowsColumn, Old, Picturing
<1>6. PictureInv'
  BY <1>1 DEF PictureInv
<1>7. FilesInv'
  <2>1. RowsHaveFiles'
    <3>1. (Images \cup Pictures)' \subseteq Images \cup Pictures \cup files'
      BY <1>2
    <3>2. (Images \cup Pictures)' \cap files \subseteq files' \cup UnlinkedBy(q)
      OBVIOUS
    <3>3. (Images \cup Pictures)' \cap UnlinkedBy(req[r]) \subseteq UnlinkedBy(q) \cup abandoned'
      OBVIOUS
    <3>4. QED
      BY <1>1, <1>3, <3>1, <3>2, <3>3, RowsFilesStep DEF FilesInv
  <2>2. UnlinkedBy(q) \subseteq RowIds' \cup PictureIds'
    <3>1. q.pc = "remove" => q.op = "delete"
      BY <1>3, ShapeFacts DEF TypeOK
    <3>2. UnlinkedBy(q) \subseteq Target(q) \cup Old(q)
      BY <3>1 DEF UnlinkedBy, Target
    <3>3. Target(q) \subseteq RowIds' /\ Old(q) \subseteq PictureIds'
      BY DEF RowIds, PictureIds, Target, Old, Picturing
    <3>4. QED
      BY <3>2, <3>3
  <2>3. \A o \in Slots \ {r} : HasStored(req[o], files)
    BY <1>1 DEF FilesInv
  <2>4. \A o \in Slots \ {r} : Fresh(req[o]) \cap UnlinkedBy(q) = {}
    <3>1. \A o \in Slots \ {r} : Fresh(req'[o]) \cap (RowIds' \cup PictureIds') = {}
      BY <1>4 DEF IdsApart, Fresh
    <3>2. QED
      BY <2>2, <3>1
  <2>5. \A o \in Slots \ {r} : HasStored(req'[o], files')
    BY <2>3, <2>4 DEF HasStored, Fresh
  <2>6. \A o \in Slots : KnowsType(req'[o], media)
    BY <1>1 DEF FilesInv
  <2>7. QED
    BY <2>1, <2>5, <2>6 DEF FilesInv, HasStored, KnowsType
<1>8. ~S3 => OrphansInv'
  <2> SUFFICES ASSUME ~S3 PROVE OrphansInv'
    OBVIOUS
  <2>1. OrphansInv
    BY <1>1
  <2>2. "picture" \notin raced' =>
          /\ \A s, t \in Slots : s # t => ~(Picturing(req'[s]) /\ Picturing(req'[t]))
          /\ \A s \in Slots : KnowsPicture(req'[s], profile)
    BY <2>1 DEF OrphansInv
  <2>3. ASSUME ~failed', NEW s \in Slots
        PROVE  UnlinkedBy(req'[s]) \cap files' = {}
    <3>1. CASE s = r
      BY <2>3, <3>1
    <3>2. CASE s # r
      <4>1. UnlinkedBy(req[s]) \cap files = {}
        BY <2>1, <2>3 DEF OrphansInv
      <4>2. req[s].pc = "remove" => req[s].op = "delete"
        BY <1>1, ShapeFacts DEF TypeOK, Shapes
      <4>3. UnlinkedBy(req[s]) \subseteq RowIds \cup PictureIds
        BY <4>2 DEF UnlinkedBy, RowIds, PictureIds, Target
      <4>4. Fresh(req[r]) \cap (RowIds \cup PictureIds) = {}
        BY <1>1 DEF IdsApart
      <4>5. QED
        BY <3>2, <4>1, <4>3, <4>4
    <3>3. QED
      BY <3>1, <3>2
  <2>4. ASSUME ~failed', "picture" \notin raced'
        PROVE  files' \subseteq Images \cup Pictures \cup UNION {Uploaded(req'[s]) : s \in Slots}
    <3>1. files \subseteq Images \cup Pictures \cup UNION {Uploaded(req[s]) : s \in Slots}
      BY <2>1, <2>4 DEF OrphansInv
    <3>2. \A s \in Slots : Uploaded(req[s]) \subseteq Uploaded(req'[s])
      BY <2>4
    <3>3. QED
      BY <2>4, <3>1, <3>2
  <2>5. QED
    BY <1>2, <2>2, <2>3, <2>4
    DEF OrphansInv, Picturing, KnowsPicture, Old, UnlinkedBy, Uploaded
<1>9. CoverInv'
  <2>1. "cover" \notin raced' =>
          /\ \A s, t \in Slots : s # t => ~(SetsCover(req'[s]) /\ SetsCover(req'[t]))
          /\ \A s \in Slots : SetsCover(req'[s]) => KnowsCover(req'[s], Primaries)
    BY <1>1 DEF CoverInv
  <2>2. QED
    BY <1>1, <1>2, <2>1 DEF CoverInv, SetsCover, KnowsCover
<1>10. OrderInv'
  <2>1. "order" \notin raced' =>
          /\ \A s, t \in Slots :
               s # t => ~(Appends(req'[s]) /\ (Appends(req'[t]) \/ Reorders(req'[t])))
          /\ \A s \in Slots : req'[s].pc = "insert" => Below(media, req'[s].order)
    BY <1>1 DEF OrderInv
  <2>2. QED
    BY <2>1 DEF OrderInv, Appends, Reorders, Below
<1>11. RowsInv' /\ Bounded'
  BY <1>1, <1>2 DEF RowsInv, Bounded
<1>12. QED
  BY <1>3, <1>4, <1>5, <1>6, <1>7, <1>8, <1>9, <1>10, <1>11 DEF MediaInv
\* A request that writes rows of media and ends; those of N are new.
LEMMA WriteStep ==
    ASSUME MediaInv, TypeOK', NEW r \in Slots,
           UNCHANGED <<profile, files, ids, raced, failed, abandoned>>,
           req'[r] = Idle, \A o \in Slots \ {r} : req'[o] = req[o],
           ~Picturing(req[r]),
           NEW N, N \subseteq Fresh(req[r]), N \cap Images' \subseteq files,
           \A i \in Ids : media'[i] # NoMedia =>
             i \in N \/ (media[i] # NoMedia /\ media'[i].type = media[i].type),
           \A i \in Images : i \in Images' \/ i \in UnlinkedBy(req[r]),
           UnlinkedBy(req[r]) \cap Images' = {}, Uploaded(req[r]) \subseteq Images',
           "cover" \notin raced =>
             /\ \A i, j \in Primaries' : i = j
             /\ \A o \in Slots \ {r} : SetsCover(req[o]) => Primaries' \subseteq Primaries,
           "order" \notin raced =>
             \A o \in Slots \ {r} : req[o].pc = "insert" => Below(media', req[o].order),
           RowsInv'
    PROVE  MediaInv'
<1>1. /\ TypeOK /\ Shapes /\ IdsApart /\ ColumnsApart /\ IdsUsed /\ FilesInv
      /\ (~S3 => OrphansInv) /\ CoverInv /\ OrderInv /\ PictureInv
  BY DEF MediaInv
<1>2. /\ Pictures' = Pictures
      /\ Rows' \subseteq Rows \cup N
      /\ Images' \subseteq Images \cup N
  <2>1. Pictures' = Pictures
    BY DEF Pictures
  <2>2. Rows' \subseteq Rows \cup N
    BY DEF Rows
  <2>3. Images' \subseteq Images \cup N
    BY DEF Rows, Images
  <2>4. QED
    BY <2>1, <2>2, <2>3
<1>3. Shapes'
  BY <1>1, IdleFacts DEF Shapes
<1>4. IdsApart' /\ IdsUsed'
  <2>1. ids \in Nat
    BY <1>1, IdsFacts DEF TypeOK
  <2>2. Rows' \cup Target(req'[r]) \subseteq RowIds \cup N
    BY <1>2, IdleFacts DEF RowIds
  <2>3. Pictures' \cup Old(req'[r]) \subseteq PictureIds \cup {}
    BY <1>2, IdleFacts DEF PictureIds
  <2>4. Fresh(req'[r]) = {}
    BY IdleFacts
  <2>5. QED
    BY <1>1, <2>1, <2>2, <2>3, <2>4, IdsStep
<1>5. ColumnsApart'
  <2>1. \A o \in Slots : KnowsColumn(req'[o], profile)
    BY <1>1, IdleFacts DEF ColumnsApart, KnowsColumn
  <2>2. QED
    BY <1>1, <2>1 DEF ColumnsApart, KnowsColumn, Old, Picturing
<1>6. PictureInv'
  BY <1>1, IdleFacts DEF PictureInv
<1>7. UnlinkedBy(req[r]) \cap Pictures = {}
  <2>1. UnlinkedBy(req[r]) \subseteq Target(req[r])
    <3>1. req[r].pc = "remove" => req[r].op = "delete"
      BY <1>1, ShapeFacts DEF TypeOK, Shapes
    <3>2. QED
      BY <3>1 DEF UnlinkedBy, Target
  <2>2. QED
    BY <1>1, <2>1 DEF IdsApart, RowIds, PictureIds
<1>8. FilesInv'
  <2>1. RowsHaveFiles'
    <3>1. (Images \cup Pictures)' \subseteq Images \cup Pictures \cup files'
      BY <1>2
    <3>2. (Images \cup Pictures)' \cap files \subseteq files' \cup UnlinkedBy(req'[r])
      OBVIOUS
    <3>3. (Images \cup Pictures)' \cap UnlinkedBy(req[r])
             \subseteq UnlinkedBy(req'[r]) \cup abandoned'
      BY <1>2, <1>7
    <3>4. QED
      BY <1>1, <1>3, <3>1, <3>2, <3>3, RowsFilesStep DEF FilesInv
  <2>2. \A o \in Slots : HasStored(req'[o], files)
    BY <1>1, IdleFacts DEF FilesInv, HasStored
  <2>3. ASSUME NEW o \in Slots
        PROVE  KnowsType(req'[o], media')
    <3>1. CASE o = r
      BY <3>1, IdleFacts DEF KnowsType
    <3>2. CASE o # r
      <4>1. req[o] \in Request /\ Shape(req[o]) /\ KnowsType(req[o], media)
        BY <1>1 DEF TypeOK, Shapes, FilesInv
      <4>2. CASE req[o].op \in {"delete", "patch"}
        <5>1. req[o].id \in Ids /\ req[o].id \in RowIds
          BY <4>1, <4>2 DEF Shape, RowIds, Target
        <5>2. req[o].id \notin N
          BY <1>1, <5>1 DEF IdsApart
        <5>3. QED
          BY <3>2, <4>1, <5>1, <5>2 DEF KnowsType
      <4>3. CASE req[o].op \notin {"delete", "patch"}
        BY <3>2, <4>3 DEF KnowsType
      <4>4. QED
        BY <4>2, <4>3
    <3>3. QED
      BY <3>1, <3>2
  <2>4. QED
    BY <2>1, <2>2, <2>3 DEF FilesInv, HasStored, KnowsType
<1>9. ~S3 => OrphansInv'
  <2> SUFFICES ASSUME ~S3 PROVE OrphansInv'
    OBVIOUS
  <2>1. OrphansInv
    BY <1>1
  <2>2. "picture" \notin raced =>
          /\ \A s, t \in Slots : s # t => ~(Picturing(req'[s]) /\ Picturing(req'[t]))
          /\ \A s \in Slots : KnowsPicture(req'[s], profile)
    BY <2>1, IdleFacts DEF OrphansInv, KnowsPicture
  <2>3. ~failed => \A s \in Slots : UnlinkedBy(req'[s]) \cap files = {}
    BY <2>1, IdleFacts DEF OrphansInv
  <2>4. ASSUME ~failed, "picture" \notin raced
        PROVE  files \subseteq Images' \cup Pictures \cup UNION {Uploaded(req'[s]) : s \in Slots}
    <3>1. files \subseteq Images \cup Pictures \cup UNION {Uploaded(req[s]) : s \in Slots}
      BY <2>1, <2>4 DEF OrphansInv
    <3>2. UnlinkedBy(req[r]) \cap files = {}
      BY <2>1, <2>4 DEF OrphansInv
    <3>3. \A s \in Slots : Uploaded(req[s]) \subseteq Images' \cup Uploaded(req'[s])
      OBVIOUS
    <3>4. QED
      BY <3>1, <3>2, <3>3
  <2>5. QED
    BY <1>2, <2>2, <2>3, <2>4
    DEF OrphansInv, Picturing, KnowsPicture, Old, UnlinkedBy, Uploaded
<1>10. CoverInv'
  <2>1. "cover" \notin raced =>
          /\ \A s, t \in Slots : s # t => ~(SetsCover(req'[s]) /\ SetsCover(req'[t]))
          /\ \A s \in Slots : SetsCover(req'[s]) => KnowsCover(req'[s], Primaries')
    <3>1. "cover" \notin raced => \A s \in Slots \ {r} :
            SetsCover(req[s]) => KnowsCover(req[s], Primaries')
      BY <1>1 DEF CoverInv, KnowsCover
    <3>2. QED
      BY <1>1, <3>1, IdleFacts DEF CoverInv
  <2>2. QED
    BY <2>1 DEF CoverInv, SetsCover, KnowsCover
<1>11. OrderInv'
  <2>1. "order" \notin raced =>
          /\ \A s, t \in Slots :
               s # t => ~(Appends(req'[s]) /\ (Appends(req'[t]) \/ Reorders(req'[t])))
          /\ \A s \in Slots : req'[s].pc = "insert" => Below(media', req'[s].order)
    BY <1>1, IdleFacts DEF OrderInv
  <2>2. QED
    BY <2>1 DEF OrderInv, Appends, Reorders, Below
<1>12. QED
  BY <1>3, <1>4, <1>5, <1>6, <1>8, <1>9, <1>10, <1>11 DEF MediaInv
\* The first profile is made by a request that is not one of Media's.
LEMMA ProfileStep ==
    ASSUME MediaInv, Bounded, TypeOK',
           UNCHANGED <<media, files, ids, req, raced, failed, abandoned>>,
           \A c \in Columns : {profile'[c]} \cap Ids = {profile[c]} \cap Ids,
           profile # NoProfile => profile' # NoProfile
    PROVE  MediaInv' /\ Bounded'
<1>1. /\ TypeOK /\ Shapes /\ IdsApart /\ ColumnsApart /\ IdsUsed /\ FilesInv
      /\ (~S3 => OrphansInv) /\ CoverInv /\ OrderInv /\ RowsInv /\ PictureInv
  BY DEF MediaInv
<1>2. Pictures' = Pictures
  <2>1. \A c \in Columns, i \in Ids : profile'[c] = i <=> profile[c] = i
    OBVIOUS
  <2>2. QED
    BY <2>1 DEF Pictures
<1>3. Rows' = Rows /\ Images' = Images /\ Primaries' = Primaries
  BY DEF Rows, Images, Primaries
<1>4. RowIds' = RowIds /\ PictureIds' = PictureIds
  BY <1>2, <1>3 DEF RowIds, PictureIds, Target, Old, Picturing
<1>5. Shapes' /\ IdsApart' /\ IdsUsed' /\ RowsInv' /\ PictureInv' /\ Bounded'
  BY <1>1, <1>3, <1>4
  DEF Shapes, Shape, Old, Picturing, IdsApart, IdsUsed, Fresh, RowsInv, PictureInv, Bounded
<1>6. ColumnsApart'
  <2>1. \A c, d \in Columns : c # d /\ profile'[c] \in Ids => profile'[c] # profile'[d]
    BY <1>1 DEF ColumnsApart
  <2>2. ASSUME NEW s \in Slots PROVE KnowsColumn(req[s], profile')
    <3>1. Old(req[s]) \subseteq Ids /\ KnowsColumn(req[s], profile)
      BY <1>1, ShapeFacts DEF TypeOK, Shapes, ColumnsApart
    <3>2. QED
      BY <3>1 DEF KnowsColumn
  <2>3. QED
    BY <2>1, <2>2 DEF ColumnsApart, KnowsColumn, Old, Picturing
<1>7. FilesInv'
  BY <1>1, <1>2, <1>3 DEF FilesInv, RowsHaveFiles, Unlinked, HasStored, KnowsType
<1>8. ~S3 => OrphansInv'
  <2>1. \A s \in Slots : req[s].column \in Columns
    BY <1>1, ShapeFacts DEF TypeOK, Shapes
  <2>2. \A s \in Slots : KnowsPicture(req[s], profile') <=> KnowsPicture(req[s], profile)
    BY <2>1 DEF KnowsPicture
  <2>3. QED
    BY <1>1, <1>2, <1>3, <2>2
    DEF OrphansInv, Picturing, KnowsPicture, Old, UnlinkedBy, Uploaded
<1>9. CoverInv' /\ OrderInv'
  BY <1>1, <1>3 DEF CoverInv, OrderInv, SetsCover, KnowsCover, Appends, Reorders, Below
<1>10. QED
  BY <1>5, <1>6, <1>7, <1>8, <1>9 DEF MediaInv

LEMMA CommitPictureStep ==
    ASSUME MediaInv, Bounded, TypeOK', NEW r \in Slots, CommitPicture(r)
    PROVE  MediaInv' /\ Bounded' /\ profile' # NoProfile
<1> DEFINE q == req[r]
<1>1. /\ TypeOK /\ Shapes /\ IdsApart /\ ColumnsApart /\ IdsUsed /\ FilesInv
      /\ (~S3 => OrphansInv) /\ CoverInv /\ OrderInv /\ RowsInv /\ PictureInv
  BY DEF MediaInv
<1>2. /\ q.pc = "commit" /\ req' = [req EXCEPT ![r] = Idle]
      /\ profile' = [c \in Columns |-> IF c = q.column THEN q.id
                                      ELSE IF profile[c] \in Ids THEN profile[c] ELSE NoFile]
      /\ UNCHANGED <<media, files, ids, raced, failed, abandoned>>
  BY DEF CommitPicture, Finish, History
<1>3. q \in Request /\ Shape(q)
  BY <1>1 DEF TypeOK, Shapes
<1>4. Picturing(q) /\ q.column \in Columns
  BY <1>2, <1>3, ShapeFacts DEF Picturing
<1>5. req'[r] = Idle /\ \A o \in Slots \ {r} : req'[o] = req[o]
  BY <1>1, <1>2 DEF TypeOK
<1>6. {q.id} \cap Ids = Fresh(q)
  BY <1>3, <1>4, IdsFacts DEF Picturing, Fresh, Shape
<1>7. /\ profile'[q.column] = q.id
      /\ \A c \in Columns \ {q.column} : {profile'[c]} \cap Ids = {profile[c]} \cap Ids
  BY <1>2, <1>4, ColumnFacts
<1>8. Pictures' = Fresh(q) \cup ({profile[c] : c \in Columns \ {q.column}} \cap Ids)
  <2>1. \A i \in Ids : i \in Pictures' <=>
          i \in Fresh(q) \/ \E c \in Columns \ {q.column} : i = profile[c]
    BY <1>4, <1>6, <1>7 DEF Pictures
  <2>2. Pictures' \subseteq Ids /\ Fresh(q) \subseteq Ids
    BY <1>3, ShapeFacts DEF Pictures
  <2>3. QED
    BY <2>1, <2>2
<1>9. Rows' = Rows /\ Images' = Images /\ Primaries' = Primaries
  BY <1>2 DEF Rows, Images, Primaries
<1>10. Shapes'
  BY <1>1, <1>5, IdleFacts DEF Shapes
<1>11. IdsApart' /\ IdsUsed'
  <2>1. ids \in Nat
    BY <1>1, IdsFacts DEF TypeOK
  <2>2. Rows' \cup Target(req'[r]) \subseteq RowIds \cup {}
    BY <1>5, <1>9, IdleFacts DEF RowIds
  <2>3. Pictures' \cup Old(req'[r]) \subseteq PictureIds \cup Fresh(q)
    BY <1>5, <1>8, IdleFacts DEF PictureIds, Pictures
  <2>4. Fresh(req'[r]) = {}
    BY <1>5, IdleFacts
  <2>5. files' \subseteq files \cup Fresh(req[r]) /\ ids' = ids
    BY <1>2
  <2>6. QED
    BY <1>1, <1>5, <2>1, <2>2, <2>3, <2>4, <2>5, IdsStep
<1>12. ColumnsApart'
  <2>1. Fresh(q) \cap PictureIds = {}
    BY <1>1 DEF IdsApart
  <2>2. \A c \in Columns : profile[c] \in Ids => profile[c] \in PictureIds
    BY DEF Pictures, PictureIds
  <2>3. ASSUME NEW c \in Columns, NEW d \in Columns, c # d, profile'[c] \in Ids
        PROVE  profile'[c] # profile'[d]
    <3>1. CASE c = q.column
      <4>1. profile'[c] \in Fresh(q)
        BY <1>6, <1>7, <2>3, <3>1
      <4>2. profile'[d] \in Ids => profile'[d] \in PictureIds
        BY <1>7, <2>2, <2>3, <3>1
      <4>3. QED
        BY <2>1, <2>3, <4>1, <4>2
    <3>2. CASE d = q.column
      <4>1. profile'[c] \in PictureIds
        BY <1>7, <2>2, <2>3, <3>2
      <4>2. profile'[d] \in Ids => profile'[d] \in Fresh(q)
        BY <1>6, <1>7, <3>2
      <4>3. QED
        BY <2>1, <2>3, <4>1, <4>2
    <3>3. CASE c # q.column /\ d # q.column
      <4>1. profile'[c] = profile[c] /\ (profile'[d] \in Ids => profile'[d] = profile[d])
        BY <1>7, <2>3, <3>3
      <4>2. QED
        BY <1>1, <2>3, <4>1 DEF ColumnsApart
    <3>4. QED
      BY <3>1, <3>2, <3>3
  <2>4. ASSUME NEW s \in Slots PROVE KnowsColumn(req'[s], profile')
    <3>1. CASE s = r
      BY <1>5, <3>1, IdleFacts DEF KnowsColumn
    <3>2. CASE s # r
      <4>1. Old(req[s]) \subseteq Ids /\ Old(req[s]) \subseteq PictureIds
        BY <1>1, ShapeFacts DEF TypeOK, Shapes, PictureIds
      <4>2. KnowsColumn(req[s], profile)
        BY <1>1 DEF ColumnsApart
      <4>3. profile'[q.column] \notin Old(req[s])
        BY <1>6, <1>7, <2>1, <4>1
      <4>4. QED
        BY <1>5, <1>7, <3>2, <4>1, <4>2, <4>3 DEF KnowsColumn
    <3>3. QED
      BY <3>1, <3>2
  <2>5. QED
    BY <2>3, <2>4 DEF ColumnsApart, KnowsColumn, Old, Picturing
<1>13. profile' # NoProfile
  <2>1. profile' \in [Columns -> 0 .. MaxIds]
    <3>1. q.id \in 0 .. MaxIds /\ NoFile \in 0 .. MaxIds /\ Ids \subseteq 0 .. MaxIds
      BY <1>3, MediaAssumption DEF Request, NoFile, Ids
    <3>2. QED
      BY <1>2, <3>1
  <2>2. \E c \in Columns : NoProfile[c] \notin 0 .. MaxIds
    BY ColumnFacts DEF NoProfile
  <2>3. QED
    BY <2>1, <2>2
<1>14. PictureInv'
  BY <1>13 DEF PictureInv
<1>15. FilesInv'
  <2>1. HasStored(q, files)
    BY <1>1 DEF FilesInv
  <2>2. Fresh(q) \subseteq files
    BY <1>2, <1>4, <2>1 DEF Fresh, HasStored, Picturing
  <2>3. (Images \cup Pictures)' \subseteq Images \cup Pictures \cup files'
    BY <1>2, <1>8, <1>9, <2>2 DEF Pictures
  <2>4. (Images \cup Pictures)' \cap UnlinkedBy(q) = {}
    <3>1. UnlinkedBy(q) \subseteq Old(q)
      BY <1>2 DEF UnlinkedBy
    <3>2. KnowsColumn(q, profile) /\ IdsApart
      BY <1>1 DEF ColumnsApart
    <3>3. \A i \in Old(q) : i \in PictureIds /\ i \notin Images /\ i \notin Fresh(q)
      BY <3>2 DEF IdsApart, PictureIds, RowIds, Images
    <3>4. QED
      BY <1>8, <1>9, <3>1, <3>2, <3>3 DEF KnowsColumn
  <2>5. /\ (Images \cup Pictures)' \cap files \subseteq files' \cup UnlinkedBy(req'[r])
        /\ (Images \cup Pictures)' \cap UnlinkedBy(req[r]) \subseteq UnlinkedBy(req'[r]) \cup abandoned'
        /\ abandoned \subseteq abandoned'
    BY <1>2, <2>4
  <2>6. RowsHaveFiles'
    BY <1>1, <1>5, <1>10, <2>3, <2>5, RowsFilesStep DEF FilesInv
  <2>7. \A o \in Slots : HasStored(req'[o], files) /\ KnowsType(req'[o], media)
    BY <1>1, <1>5, IdleFacts DEF FilesInv, HasStored, KnowsType
  <2>8. QED
    BY <1>2, <2>6, <2>7 DEF FilesInv, HasStored, KnowsType
<1>16. ~S3 => OrphansInv'
  <2> SUFFICES ASSUME ~S3 PROVE OrphansInv'
    OBVIOUS
  <2>1. OrphansInv
    BY <1>1
  <2>2. "picture" \notin raced => \A s \in Slots \ {r} : ~Picturing(req[s])
    BY <1>4, <2>1 DEF OrphansInv
  <2>3. "picture" \notin raced =>
          /\ \A s, t \in Slots : s # t => ~(Picturing(req'[s]) /\ Picturing(req'[t]))
          /\ \A s \in Slots : KnowsPicture(req'[s], profile')
    BY <1>5, <2>2, IdleFacts DEF KnowsPicture
  <2>4. ~failed => \A s \in Slots : UnlinkedBy(req'[s]) \cap files = {}
    BY <1>5, <2>1, IdleFacts DEF OrphansInv
  <2>5. ASSUME ~failed, "picture" \notin raced
        PROVE  files \subseteq Images \cup Pictures' \cup UNION {Uploaded(req'[s]) : s \in Slots}
    <3>1. files \subseteq Images \cup Pictures \cup UNION {Uploaded(req[s]) : s \in Slots}
      BY <2>1, <2>5 DEF OrphansInv
    <3>2. UnlinkedBy(q) \cap files = {} /\ KnowsPicture(q, profile)
      BY <2>1, <2>5 DEF OrphansInv
    <3>3. UnlinkedBy(q) = Old(q)
      BY <1>2, <1>4 DEF UnlinkedBy
    <3>4. {profile[q.column]} \cap Ids \cap files = {}
      BY <1>4, <3>2, <3>3 DEF KnowsPicture
    <3>5. Pictures \cap files \subseteq Pictures'
      BY <1>8, <3>4 DEF Pictures
    <3>6. Uploaded(q) \subseteq Pictures'
      <4>1. Uploaded(q) \subseteq Fresh(q)
        BY <1>4 DEF Uploaded, Fresh, Picturing
      <4>2. QED
        BY <1>8, <4>1
    <3>7. \A s \in Slots : Uploaded(req[s]) \subseteq Pictures' \cup Uploaded(req'[s])
      BY <1>5, <3>6
    <3>8. QED
      BY <3>1, <3>5, <3>7
  <2>6. QED
    BY <1>2, <1>9, <2>3, <2>4, <2>5
    DEF OrphansInv, Picturing, KnowsPicture, Old, UnlinkedBy, Uploaded
<1>17. CoverInv'
  <2>1. "cover" \notin raced =>
          /\ \A s, t \in Slots : s # t => ~(SetsCover(req'[s]) /\ SetsCover(req'[t]))
          /\ \A s \in Slots : SetsCover(req'[s]) => KnowsCover(req'[s], Primaries)
    BY <1>1, <1>5, IdleFacts DEF CoverInv
  <2>2. QED
    BY <1>1, <1>2, <1>9, <2>1 DEF CoverInv, SetsCover, KnowsCover
<1>18. OrderInv'
  <2>1. "order" \notin raced =>
          /\ \A s, t \in Slots :
               s # t => ~(Appends(req'[s]) /\ (Appends(req'[t]) \/ Reorders(req'[t])))
          /\ \A s \in Slots : req'[s].pc = "insert" => Below(media, req'[s].order)
    BY <1>1, <1>5, IdleFacts DEF OrderInv
  <2>2. QED
    BY <1>2, <2>1 DEF OrderInv, Appends, Reorders, Below
<1>19. RowsInv' /\ Bounded'
  BY <1>1, <1>2, <1>9 DEF RowsInv, Bounded
<1>20. QED
  BY <1>10, <1>11, <1>12, <1>13, <1>14, <1>15, <1>16, <1>17, <1>18, <1>19 DEF MediaInv
-----------------------------------------------------------------------------
(* The least bound of the positions is the highest of them. *)

LEMMA Smallest ==
    ASSUME NEW T, T \subseteq Nat, T # {}
    PROVE  \E m \in T : \A n \in T : m <= n
<1>1. PICK m \in T : \A n \in T : ~ (<<n, m>> \in OpToRel(<, Nat))
  BY NatLessThanWellFounded, WFMin
<1>2. \A n \in T : n < m => <<n, m>> \in OpToRel(<, Nat)
  BY DEF OpToRel
<1>3. m \in Nat /\ \A n \in T : n \in Nat /\ ~(n < m)
  BY <1>1, <1>2
<1>4. QED
  BY <1>3

LEMMA NextOrderFacts ==
    ASSUME RowsInv, Bounded
    PROVE  NextOrder \in Nat /\ Below(media, NextOrder)
<1>1. CASE Rows = {}
  BY <1>1 DEF NextOrder, Below, Rows
<1>2. CASE Rows # {}
  <2> DEFINE T == {m \in Nat : \A i \in Rows : media[i].order <= m}
  <2>1. PICK m \in T : \A n \in T : m <= n
    <3>1. T \subseteq Nat /\ T # {}
      BY DEF Bounded
    <3>2. QED
      BY <3>1, Smallest
  <2>2. PICK i \in Rows : media[i].order = m
    <3> SUFFICES ASSUME \A i \in Rows : media[i].order # m PROVE FALSE
      OBVIOUS
    <3>1. \A i \in Rows : media[i].order \in Nat /\ media[i].order < m
      BY <2>1 DEF RowsInv
    <3>2. m - 1 \in Nat /\ \A i \in Rows : media[i].order <= m - 1
      BY <1>2, <3>1
    <3>3. m <= m - 1
      BY <2>1, <3>2
    <3>4. QED
      BY <2>1, <3>3
  <2>3. \A j \in Rows : media[j].order <= media[i].order
    BY <2>1, <2>2
  <2> DEFINE top == CHOOSE k \in Rows : \A j \in Rows : media[j].order <= media[k].order
  <2>4. top \in Rows /\ \A j \in Rows : media[j].order <= media[top].order
    BY <2>3
  <2>5. NextOrder = 1 + media[top].order
    BY <1>2 DEF NextOrder
  <2> HIDE DEF top
  <2>6. media[top].order \in Nat /\ \A j \in Rows : media[j].order \in Nat
    BY <2>4 DEF RowsInv
  <2>7. \A j \in Rows : media[j].order < NextOrder
    BY <2>4, <2>5, <2>6
  <2>8. QED
    BY <2>5, <2>6, <2>7 DEF Below, Rows
<1>3. QED
  BY <1>1, <1>2

-----------------------------------------------------------------------------
(* Steps of Media, one by one. *)

LEMMA BeginFacts ==
    ASSUME TypeOK, NEW r \in Slots, NEW q \in Request, Begin(r, q), ids' \in 0 .. MaxIds
    PROVE  /\ TypeOK' /\ req'[r] = q /\ \A o \in Slots \ {r} : req'[o] = req[o]
           /\ UNCHANGED <<media, profile, files, failed, abandoned>>
           /\ raced \subseteq raced'
           /\ \A o \in Slots \ {r} :
                /\ SetsCover(q) /\ SetsCover(req[o]) => "cover" \in raced'
                /\ Appends(q) /\ (Appends(req[o]) \/ Reorders(req[o])) => "order" \in raced'
                /\ Reorders(q) /\ Appends(req[o]) => "order" \in raced'
                /\ Picturing(q) /\ Picturing(req[o]) => "picture" \in raced'
<1>1. /\ req' = [req EXCEPT ![r] = q] /\ work < MaxWork /\ work' = work + 1
      /\ UNCHANGED <<media, profile, files, failed, abandoned, deleted>>
  BY DEF Begin, History
<1> DEFINE R(o) == (IF SetsCover(q) /\ SetsCover(o) THEN {"cover"} ELSE {})
                     \cup (IF \/ Appends(q) /\ (Appends(o) \/ Reorders(o))
                              \/ Reorders(q) /\ Appends(o) THEN {"order"} ELSE {})
                     \cup (IF {q.op, o.op} \subseteq {"picture", "no_picture"}
                           THEN {"picture"} ELSE {})
<1>2. raced' = raced \cup UNION {R(o) : o \in {req[x] : x \in Slots \ {r}}}
  BY DEF Begin
<1>3. /\ req' \in [Slots -> Request] /\ req'[r] = q
      /\ \A o \in Slots \ {r} : req'[o] = req[o]
  BY <1>1 DEF TypeOK
<1>4. \A o \in Slots \ {r} : R(req[o]) \subseteq raced'
  BY <1>2
<1>5. raced' \subseteq {"cover", "order", "picture"}
  BY <1>2 DEF TypeOK
<1>6. work' \in 0 .. MaxWork
  BY <1>1, IdsFacts DEF TypeOK
<1>7. TypeOK'
  BY <1>1, <1>3, <1>5, <1>6 DEF TypeOK
<1>8. raced \subseteq raced'
  BY <1>2
<1>9. \A o \in Slots \ {r} :
        /\ SetsCover(q) /\ SetsCover(req[o]) => "cover" \in raced'
        /\ Appends(q) /\ (Appends(req[o]) \/ Reorders(req[o])) => "order" \in raced'
        /\ Reorders(q) /\ Appends(req[o]) => "order" \in raced'
        /\ Picturing(q) /\ Picturing(req[o]) => "picture" \in raced'
  BY <1>4 DEF Picturing
<1>10. QED
  BY <1>1, <1>3, <1>7, <1>8, <1>9

LEMMA IdFacts ==
    ASSUME TypeOK, NEW q, NewId(q)
    PROVE  /\ ids' = ids + 1 /\ ids' \in 0 .. MaxIds /\ q.id = ids + 1
           /\ q.id \in Ids /\ q.id \in 0 .. MaxIds
BY IdsFacts DEF TypeOK, NewId, Ids

\* A request that begins has had none before it in its slot, and its files and
\* rows are still to come.
LEMMA BeginStep ==
    ASSUME MediaInv, Bounded, NEW r \in Slots, NEW q \in Request, Begin(r, q), Shape(q),
           ids' \in 0 .. MaxIds,
           \/ Fresh(q) = {} /\ ids' = ids
           \/ Fresh(q) = {ids + 1} /\ ids' = ids + 1,
           Target(q) \subseteq Rows, UnlinkedBy(q) \cap files = {},
           q.profile \in {NoProfile, profile}, KnowsPicture(q, profile),
           q.op = "image" => q.pc = "store", q.op = "picture" => q.pc # "commit",
           KnowsType(q, media),
           SetsCover(q) /\ (\A i, j \in Primaries : i = j) => KnowsCover(q, Primaries),
           q.pc = "insert" => Below(media, q.order)
    PROVE  MediaInv' /\ Bounded'
<1>1. TypeOK /\ Shapes /\ IdsApart /\ ColumnsApart
  BY DEF MediaInv
<1>2. /\ TypeOK' /\ req'[r] = q /\ \A o \in Slots \ {r} : req'[o] = req[o]
      /\ UNCHANGED <<media, profile, files, failed, abandoned>>
      /\ raced \subseteq raced'
      /\ \A o \in Slots \ {r} :
           /\ SetsCover(q) /\ SetsCover(req[o]) => "cover" \in raced'
           /\ Appends(q) /\ (Appends(req[o]) \/ Reorders(req[o])) => "order" \in raced'
           /\ Reorders(q) /\ Appends(req[o]) => "order" \in raced'
           /\ Picturing(q) /\ Picturing(req[o]) => "picture" \in raced'
  BY <1>1, BeginFacts
<1>3. req[r] = Idle
  BY <1>1 DEF Begin, Shapes, Shape
<1>4. Fresh(req[r]) = {} /\ UnlinkedBy(req[r]) = {} /\ Uploaded(req[r]) = {}
  BY <1>3, IdleFacts DEF Uploaded
<1>5. Target(q) \subseteq RowIds
  BY DEF RowIds
<1>6. q.column \in Columns
  BY ShapeFacts
<1>7. Old(q) \subseteq PictureIds
  BY <1>6, ColumnFacts DEF Old, PictureIds, Pictures
<1>8. KnowsColumn(q, profile)
  BY <1>1, <1>6, ColumnFacts DEF KnowsColumn, Old, ColumnsApart
<1>9. HasStored(q, files')
  BY DEF HasStored
<1>10. q.profile # NoProfile => profile # NoProfile
  OBVIOUS
<1>11. \A o \in Slots \ {r} :
         /\ "picture" \notin raced' => ~(Picturing(q) /\ Picturing(req[o]))
         /\ "cover" \notin raced' => ~(SetsCover(q) /\ SetsCover(req[o]))
         /\ "order" \notin raced' =>
              /\ ~(Appends(q) /\ (Appends(req[o]) \/ Reorders(req[o])))
              /\ ~(Appends(req[o]) /\ (Appends(q) \/ Reorders(q)))
  BY <1>2
<1>12. Primaries' = Primaries /\ ("cover" \notin raced' => \A i, j \in Primaries : i = j)
  BY <1>2 DEF Primaries, Rows, MediaInv, CoverInv
<1>13. \/ Fresh(req'[r]) \subseteq Fresh(req[r]) /\ ids' = ids
       \/ Fresh(req'[r]) = {ids + 1} /\ ids' = ids + 1
  BY <1>2, <1>4
<1>14. QED
  BY <1>2, <1>4, <1>5, <1>7, <1>8, <1>9, <1>10, <1>11, <1>12, <1>13, QuietStep
LEMMA RequestFacts ==
    ASSUME NEW q \in Request
    PROVE  q.order \in Int /\ q.read.order \in Int /\ q.is_primary \in BOOLEAN
BY DEF Request

LEMMA BeginImageStep ==
    ASSUME MediaInv, Bounded, NEW r \in Slots, BeginImage(r)
    PROVE  MediaInv' /\ Bounded'
<1>1. PICK p \in BOOLEAN :
        LET q == [Idle EXCEPT !.op = "image", !.pc = "store", !.id = ids + 1,
                              !.is_primary = p,
                              !.seen = IF p THEN ExistingPrimary ELSE {}]
        IN NewId(q) /\ Begin(r, q)
  BY DEF BeginImage
<1> DEFINE q == [Idle EXCEPT !.op = "image", !.pc = "store", !.id = ids + 1,
                             !.is_primary = p,
                             !.seen = IF p THEN ExistingPrimary ELSE {}]
<1>2. NewId(q) /\ Begin(r, q)
  BY <1>1
<1>3. TypeOK
  BY DEF MediaInv
<1>4. /\ q.op = "image" /\ q.pc = "store" /\ q.is_primary = p /\ q.order = 0
      /\ q.seen = (IF p THEN Primaries ELSE {}) /\ q.profile = NoProfile
      /\ q.read = NoMedia
  BY DEF Idle, ExistingPrimary
<1>5. q.id = ids + 1 /\ ids' = ids + 1 /\ q.id \in Ids /\ ids' \in 0 .. MaxIds
  BY <1>2, <1>3, IdFacts
<1>6. q \in Request
  <2>1. ids + 1 \in 0 .. MaxIds
    BY <1>5
  <2>2. (IF p THEN ExistingPrimary ELSE {}) \in SUBSET Ids
    BY DEF ExistingPrimary, Primaries, Rows
  <2>3. QED
    BY <2>1, <2>2, IdleFacts DEF Request
<1> HIDE DEF q
<1>7. Shape(q)
  BY <1>4, <1>5 DEF Shape
<1>8. Fresh(q) = {ids + 1} /\ Target(q) = {} /\ UnlinkedBy(q) = {}
  BY <1>4, <1>5 DEF Fresh, Target, UnlinkedBy, Picturing
<1>9. KnowsPicture(q, profile) /\ KnowsType(q, media) /\ (SetsCover(q) => KnowsCover(q, Primaries))
  BY <1>4 DEF KnowsPicture, KnowsType, SetsCover, KnowsCover, Picturing
<1>10. QED
  BY <1>2, <1>4, <1>5, <1>6, <1>7, <1>8, <1>9, BeginStep

LEMMA BeginVideoStep ==
    ASSUME MediaInv, Bounded, NEW r \in Slots, BeginVideo(r)
    PROVE  MediaInv' /\ Bounded'
<1> DEFINE q == [Idle EXCEPT !.op = "video", !.pc = "insert", !.id = ids + 1,
                             !.order = NextOrder]
<1>1. NewId(q) /\ Begin(r, q)
  BY DEF BeginVideo
<1>2. TypeOK
  BY DEF MediaInv
<1>3. NextOrder \in Nat /\ Below(media, NextOrder)
  BY NextOrderFacts DEF MediaInv
<1>4. /\ q.op = "video" /\ q.pc = "insert" /\ q.is_primary = FALSE /\ q.order = NextOrder
      /\ q.seen = {} /\ q.profile = NoProfile /\ q.read = NoMedia
  BY DEF Idle
<1>5. q.id = ids + 1 /\ ids' = ids + 1 /\ q.id \in Ids /\ ids' \in 0 .. MaxIds
  BY <1>1, <1>2, IdFacts
<1>6. q \in Request
  <2>1. ids + 1 \in 0 .. MaxIds /\ NextOrder \in Int
    BY <1>3, <1>5
  <2>2. QED
    BY <2>1, IdleFacts DEF Request
<1> HIDE DEF q
<1>7. Shape(q)
  BY <1>3, <1>4, <1>5 DEF Shape
<1>8. Fresh(q) = {ids + 1} /\ Target(q) = {} /\ UnlinkedBy(q) = {}
  BY <1>4, <1>5 DEF Fresh, Target, UnlinkedBy, Picturing
<1>9. KnowsPicture(q, profile) /\ KnowsType(q, media) /\ ~SetsCover(q)
  BY <1>4 DEF KnowsPicture, KnowsType, SetsCover, Picturing
<1>10. QED
  BY <1>1, <1>3, <1>4, <1>5, <1>6, <1>7, <1>8, <1>9, BeginStep

LEMMA RowFacts ==
    ASSUME TypeOK, RowsInv, NEW i \in Rows
    PROVE  /\ i \in Ids /\ media[i] # NoMedia /\ media[i].order \in Nat
           /\ media[i].type \in {"none", "image", "video"} /\ media[i].is_primary \in BOOLEAN
           /\ media[i] \in [type : {"none", "image", "video"}, is_primary : BOOLEAN, order : Int]
<1>1. i \in Ids /\ media[i] # NoMedia /\ media[i].order \in Nat
  BY DEF Rows, RowsInv
<1>2. QED
  BY <1>1 DEF TypeOK

LEMMA BeginDeleteStep ==
    ASSUME MediaInv, Bounded, NEW r \in Slots, BeginDelete(r)
    PROVE  MediaInv' /\ Bounded'
<1>1. PICK i \in Rows :
         Begin(r, [Idle EXCEPT !.op = "delete", !.id = i, !.read = media[i],
                     !.pc = IF media[i].type = "image" THEN "unlink" ELSE "remove"])
  BY DEF BeginDelete
<1> DEFINE q == [Idle EXCEPT !.op = "delete", !.id = i, !.read = media[i],
                     !.pc = IF media[i].type = "image" THEN "unlink" ELSE "remove"]
<1>2. Begin(r, q) /\ ids' = ids
  BY <1>1 DEF BeginDelete
<1>3. /\ i \in Ids /\ media[i] # NoMedia
      /\ media[i] \in [type : {"none", "image", "video"}, is_primary : BOOLEAN, order : Int]
  BY RowFacts DEF MediaInv
<1>4. /\ q.op = "delete" /\ q.id = i /\ q.read = media[i] /\ q.is_primary = FALSE
      /\ q.pc = (IF media[i].type = "image" THEN "unlink" ELSE "remove")
      /\ q.seen = {} /\ q.profile = NoProfile
  BY DEF Idle
<1>5. q \in Request
  <2>1. i \in 0 .. MaxIds
    BY <1>3 DEF Ids
  <2>2. QED
    BY <1>3, <2>1, IdleFacts DEF Request
<1>6. ids' \in 0 .. MaxIds
  BY <1>2 DEF MediaInv, TypeOK
<1> HIDE DEF q
<1>7. Shape(q)
  BY <1>3, <1>4 DEF Shape
<1>8. Fresh(q) = {} /\ Target(q) \subseteq Rows /\ UnlinkedBy(q) = {}
  BY <1>4 DEF Fresh, Target, UnlinkedBy, Picturing
<1>9. KnowsPicture(q, profile) /\ KnowsType(q, media) /\ ~SetsCover(q)
  BY <1>4 DEF KnowsPicture, KnowsType, SetsCover, Picturing
<1>10. QED
  BY <1>2, <1>4, <1>5, <1>6, <1>7, <1>8, <1>9, BeginStep

LEMMA BeginPatchStep ==
    ASSUME MediaInv, Bounded, NEW r \in Slots, BeginPatch(r)
    PROVE  MediaInv' /\ Bounded'
<1>1. PICK i \in Rows, p \in BOOLEAN, k \in 0 .. MaxOrder :
         /\ p \/ k # media[i].order
         /\ Begin(r, [Idle EXCEPT !.op = "patch", !.id = i, !.read = media[i],
                        !.is_primary = p, !.order = k,
                        !.pc = IF p THEN "select" ELSE "write"])
  BY DEF BeginPatch
<1> DEFINE q == [Idle EXCEPT !.op = "patch", !.id = i, !.read = media[i],
                        !.is_primary = p, !.order = k,
                        !.pc = IF p THEN "select" ELSE "write"]
<1>2. Begin(r, q) /\ ids' = ids
  BY <1>1 DEF BeginPatch
<1>3. /\ i \in Ids /\ media[i] # NoMedia
      /\ media[i] \in [type : {"none", "image", "video"}, is_primary : BOOLEAN, order : Int]
      /\ k \in Nat
  BY RowFacts, IdsFacts DEF MediaInv
<1>4. /\ q.op = "patch" /\ q.id = i /\ q.read = media[i] /\ q.is_primary = p
      /\ q.order = k /\ q.pc = (IF p THEN "select" ELSE "write")
      /\ q.seen = {} /\ q.profile = NoProfile
  BY DEF Idle
<1>5. q \in Request
  <2>1. i \in 0 .. MaxIds
    BY <1>3 DEF Ids
  <2>2. k \in Int
    BY <1>3
  <2>3. p \in BOOLEAN /\ (IF p THEN "select" ELSE "write") \in {"select", "write"}
    OBVIOUS
  <2>4. QED
    BY <1>3, <2>1, <2>2, <2>3, IdleFacts DEF Request
<1>6. ids' \in 0 .. MaxIds
  BY <1>2 DEF MediaInv, TypeOK
<1> HIDE DEF q
<1>7. Shape(q)
  BY <1>3, <1>4 DEF Shape
<1>8. Fresh(q) = {} /\ Target(q) \subseteq Rows /\ UnlinkedBy(q) = {}
  BY <1>4 DEF Fresh, Target, UnlinkedBy, Picturing
<1>9. KnowsPicture(q, profile) /\ KnowsType(q, media)
  BY <1>4 DEF KnowsPicture, KnowsType, Picturing
<1>10. ASSUME SetsCover(q), \A j, n \in Primaries : j = n
       PROVE  KnowsCover(q, Primaries)
  <2>1. q.pc = "select"
    BY <1>4, <1>10 DEF SetsCover
  <2>2. media[i].is_primary => Primaries \subseteq {i}
    BY <1>10 DEF Primaries
  <2>3. QED
    BY <1>4, <2>1, <2>2 DEF KnowsCover
<1>11. QED
  BY <1>2, <1>4, <1>5, <1>6, <1>7, <1>8, <1>9, <1>10, BeginStep
LEMMA BeginPictureStep ==
    ASSUME MediaInv, Bounded, NEW r \in Slots, BeginPicture(r)
    PROVE  MediaInv' /\ Bounded'
<1>1. PICK c \in Columns :
        LET q == [Idle EXCEPT !.op = "picture", !.id = ids + 1, !.column = c,
                              !.profile = profile,
                              !.pc = IF profile[c] \in Ids THEN "replace" ELSE "store"]
        IN NewId(q) /\ Begin(r, q)
  BY DEF BeginPicture
<1> DEFINE q == [Idle EXCEPT !.op = "picture", !.id = ids + 1, !.column = c,
                             !.profile = profile,
                             !.pc = IF profile[c] \in Ids THEN "replace" ELSE "store"]
<1>2. NewId(q) /\ Begin(r, q)
  BY <1>1
<1>3. TypeOK
  BY DEF MediaInv
<1>4. /\ q.op = "picture" /\ q.is_primary = FALSE /\ q.column = c /\ q.profile = profile
      /\ q.pc = (IF profile[c] \in Ids THEN "replace" ELSE "store")
      /\ q.seen = {} /\ q.read = NoMedia
  BY DEF Idle
<1>5. q.id = ids + 1 /\ ids' = ids + 1 /\ q.id \in Ids /\ ids' \in 0 .. MaxIds
  BY <1>2, <1>3, IdFacts
<1>6. q \in Request
  <2>1. ids + 1 \in 0 .. MaxIds /\ profile \in Profile
    BY <1>3, <1>5 DEF TypeOK
  <2>2. QED
    BY <2>1, IdleFacts DEF Request
<1> HIDE DEF q
<1>7. Old(q) = {profile[c]} \cap Ids
  BY <1>4 DEF Old, Picturing
<1>8. Shape(q)
  BY <1>4, <1>5, <1>7 DEF Shape
<1>9. Fresh(q) = {ids + 1} /\ Target(q) = {} /\ UnlinkedBy(q) = {}
  BY <1>4, <1>5, <1>7 DEF Fresh, Target, UnlinkedBy
<1>10. KnowsPicture(q, profile) /\ KnowsType(q, media) /\ ~SetsCover(q)
  BY <1>4, <1>7 DEF KnowsPicture, KnowsType, SetsCover
<1>11. QED
  BY <1>2, <1>4, <1>5, <1>6, <1>8, <1>9, <1>10, BeginStep

LEMMA BeginNoPictureStep ==
    ASSUME MediaInv, Bounded, NEW r \in Slots, BeginNoPicture(r)
    PROVE  MediaInv' /\ Bounded'
<1> DEFINE q == [Idle EXCEPT !.op = "no_picture", !.pc = "replace", !.profile = profile]
<1>1. profile.avatar_url \in Ids /\ Begin(r, q) /\ ids' = ids
  BY DEF BeginNoPicture
<1>2. /\ q.op = "no_picture" /\ q.is_primary = FALSE /\ q.column = "avatar_url"
      /\ q.profile = profile /\ q.pc = "replace" /\ q.seen = {} /\ q.read = NoMedia /\ q.id = 0
  BY DEF Idle
<1>3. q \in Request /\ ids' \in 0 .. MaxIds
  <2>1. profile \in Profile /\ ids \in 0 .. MaxIds
    BY DEF MediaInv, TypeOK
  <2>2. QED
    BY <1>1, <2>1, IdleFacts DEF Request
<1> HIDE DEF q
<1>4. Old(q) = {profile.avatar_url}
  BY <1>1, <1>2 DEF Old, Picturing
<1>5. Shape(q)
  <2>1. profile # NoProfile
    BY <1>1, ColumnFacts
  <2>2. QED
    BY <1>2, <1>4, <2>1 DEF Shape
<1>6. Fresh(q) = {} /\ Target(q) = {} /\ UnlinkedBy(q) = {}
  BY <1>2 DEF Fresh, Target, UnlinkedBy
<1>7. KnowsPicture(q, profile) /\ KnowsType(q, media) /\ ~SetsCover(q)
  BY <1>1, <1>2, <1>4 DEF KnowsPicture, KnowsType, SetsCover
<1>8. QED
  BY <1>1, <1>2, <1>3, <1>5, <1>6, <1>7, BeginStep

\* A request goes on as q.
Same(t, q) ==
    /\ q.op = t.op /\ q.id = t.id /\ q.is_primary = t.is_primary /\ q.read = t.read
    /\ q.column = t.column /\ q.profile = t.profile
    /\ q.op = "patch" => q.order = t.order

LEMMA GoOnStep ==
    ASSUME MediaInv, Bounded, TypeOK', NEW r \in Slots, Shape(req'[r]),
           UNCHANGED <<media, profile, ids, raced, abandoned>>, failed => failed',
           \A o \in Slots \ {r} : req'[o] = req[o], Same(req[r], req'[r]),
           files' \subseteq files \cup (Fresh(req[r]) \cap Uploaded(req[r])),
           files \ files' \subseteq UnlinkedBy(req'[r]),
           UnlinkedBy(req[r]) \subseteq UnlinkedBy(req'[r]),
           HasStored(req'[r], files'),
           ~S3 /\ ~failed' => UnlinkedBy(req'[r]) \cap files' = {},
           SetsCover(req[r]) /\ KnowsCover(req[r], Primaries) => KnowsCover(req'[r], Primaries),
           req'[r].pc = "insert" => Below(media, req'[r].order)
    PROVE  MediaInv' /\ Bounded'
<1>1. /\ TypeOK /\ Shapes /\ IdsApart /\ ColumnsApart /\ IdsUsed /\ FilesInv
      /\ (~S3 => OrphansInv) /\ CoverInv /\ OrderInv /\ RowsInv /\ PictureInv
  BY DEF MediaInv
<1>2. /\ Fresh(req'[r]) = Fresh(req[r]) /\ Target(req'[r]) = Target(req[r]) /\ Old(req'[r]) = Old(req[r])
      /\ Uploaded(req'[r]) = Uploaded(req[r]) /\ (Picturing(req'[r]) <=> Picturing(req[r]))
      /\ (SetsCover(req'[r]) <=> SetsCover(req[r])) /\ (Appends(req'[r]) <=> Appends(req[r]))
      /\ (Reorders(req'[r]) <=> Reorders(req[r]))
  BY DEF Same, Fresh, Target, Old, Uploaded, Picturing, SetsCover, Appends, Reorders
<1>3. Target(req'[r]) \subseteq RowIds /\ Old(req'[r]) \subseteq PictureIds
  BY <1>2 DEF RowIds, PictureIds
<1>4. KnowsColumn(req'[r], profile)
  BY <1>1, <1>2 DEF ColumnsApart, KnowsColumn, Same
<1>5. req'[r].profile # NoProfile => profile # NoProfile
  BY <1>1 DEF PictureInv, Same
<1>6. KnowsType(req'[r], media)
  BY <1>1 DEF FilesInv, KnowsType, Same
<1>7. ~S3 /\ "picture" \notin raced' =>
        /\ \A o \in Slots \ {r} : ~(Picturing(req'[r]) /\ Picturing(req[o]))
        /\ KnowsPicture(req'[r], profile)
  BY <1>1, <1>2 DEF OrphansInv, KnowsPicture, Same
<1>8. "cover" \notin raced' =>
        /\ \A o \in Slots \ {r} : ~(SetsCover(req'[r]) /\ SetsCover(req[o]))
        /\ SetsCover(req'[r]) => KnowsCover(req'[r], Primaries)
  BY <1>1, <1>2 DEF CoverInv
<1>9. "order" \notin raced' =>
         \A o \in Slots \ {r} :
           /\ ~(Appends(req'[r]) /\ (Appends(req[o]) \/ Reorders(req[o])))
           /\ ~(Appends(req[o]) /\ (Appends(req'[r]) \/ Reorders(req'[r])))
  BY <1>1, <1>2 DEF OrderInv
<1>10. Uploaded(req[r]) \cup (files' \ files) \subseteq Uploaded(req'[r])
  BY <1>2
<1>11. /\ files' \subseteq files \cup Fresh(req[r])
       /\ Fresh(req'[r]) \subseteq Fresh(req[r]) /\ ids' = ids
       /\ raced \subseteq raced' /\ abandoned \subseteq abandoned'
       /\ UnlinkedBy(req[r]) \subseteq UnlinkedBy(req'[r]) \cup abandoned'
       /\ UNCHANGED <<media, profile>>
  BY <1>2
<1>12. ~S3 =>
         /\ "picture" \notin raced' =>
              /\ \A o \in Slots \ {r} : ~(Picturing(req'[r]) /\ Picturing(req[o]))
              /\ KnowsPicture(req'[r], profile)
         /\ ~failed' => UnlinkedBy(req'[r]) \cap files' = {}
         /\ ~failed' => Uploaded(req[r]) \cup (files' \ files) \subseteq Uploaded(req'[r])
  BY <1>7, <1>10
<1>13. "order" \notin raced' =>
         /\ \A o \in Slots \ {r} :
              /\ ~(Appends(req'[r]) /\ (Appends(req[o]) \/ Reorders(req[o])))
              /\ ~(Appends(req[o]) /\ (Appends(req'[r]) \/ Reorders(req'[r])))
         /\ req'[r].pc = "insert" => Below(media, req'[r].order)
  BY <1>9
<1>14. QED
  BY <1>3, <1>4, <1>5, <1>6, <1>8, <1>11, <1>12, <1>13, QuietStep

LEMMA FlushStep ==
    ASSUME MediaInv, Bounded, NEW r \in Slots, Flush(r)
    PROVE  MediaInv' /\ Bounded'
<1> DEFINE t == req[r]
           q == [t EXCEPT !.pc = "insert", !.order = NextOrder]
<1>1. /\ t.pc = "flush" /\ req' = [req EXCEPT ![r] = q]
      /\ UNCHANGED <<media, profile, files, ids, work, raced, failed, abandoned, deleted>>
  BY DEF Flush, History
<1>2. TypeOK /\ Shapes /\ t \in Request /\ Shape(t)
  BY DEF MediaInv, TypeOK, Shapes
<1>3. t.op = "image"
  BY <1>1, <1>2, ShapeFacts
<1>4. NextOrder \in Nat /\ Below(media, NextOrder)
  BY NextOrderFacts DEF MediaInv
<1>5. q \in Request
  <2>1. NextOrder \in Int
    BY <1>4
  <2>2. QED
    BY <1>2, <2>1 DEF Request
<1>6. Same(t, q) /\ q.pc = "insert" /\ q.order = NextOrder /\ q.seen = t.seen
  BY <1>2, <1>3 DEF Request, Same
<1>7. req' \in [Slots -> Request] /\ req'[r] = q /\ \A o \in Slots \ {r} : req'[o] = req[o]
  BY <1>1, <1>2, <1>5 DEF TypeOK
<1> HIDE DEF q
<1>8. TypeOK'
  BY <1>1, <1>2, <1>7 DEF TypeOK
<1>9. q.op = "image" /\ q.id = t.id /\ q.is_primary = t.is_primary
  BY <1>3, <1>6 DEF Same
<1>10. Shape(q)
  BY <1>2, <1>3, <1>4, <1>6, <1>9 DEF Shape, Old, Picturing
<1>11. UnlinkedBy(t) = {} /\ UnlinkedBy(q) = {}
  BY <1>1, <1>3, <1>6, <1>9 DEF UnlinkedBy, Picturing
<1>12. HasStored(q, files)
  <2>1. HasStored(t, files)
    BY DEF MediaInv, FilesInv
  <2>2. QED
    BY <1>1, <1>3, <1>9, <2>1 DEF HasStored
<1>13. KnowsCover(t, Primaries) => KnowsCover(q, Primaries)
  BY <1>3, <1>6, <1>9 DEF KnowsCover
<1>14. QED
  BY <1>1, <1>4, <1>6, <1>7, <1>8, <1>10, <1>11, <1>12, <1>13, GoOnStep

LEMMA SelectPrimaryStep ==
    ASSUME MediaInv, Bounded, NEW r \in Slots, SelectPrimary(r)
    PROVE  MediaInv' /\ Bounded'
<1> DEFINE t == req[r]
           q == [t EXCEPT !.pc = "write", !.seen = ExistingPrimary \ {t.id}]
<1>1. /\ t.pc = "select" /\ req' = [req EXCEPT ![r] = q]
      /\ UNCHANGED <<media, profile, files, ids, work, raced, failed, abandoned, deleted>>
  BY DEF SelectPrimary, History
<1>2. TypeOK /\ Shapes /\ t \in Request /\ Shape(t)
  BY DEF MediaInv, TypeOK, Shapes
<1>3. t.op = "patch"
  BY <1>1, <1>2, ShapeFacts
<1>4. q \in Request
  <2>1. ExistingPrimary \ {t.id} \in SUBSET Ids
    BY DEF ExistingPrimary, Primaries, Rows
  <2>2. QED
    BY <1>2, <2>1 DEF Request
<1>5. Same(t, q) /\ q.pc = "write" /\ q.seen = Primaries \ {t.id}
  BY <1>2, <1>3 DEF Request, Same, ExistingPrimary
<1>6. req' \in [Slots -> Request] /\ req'[r] = q /\ \A o \in Slots \ {r} : req'[o] = req[o]
  BY <1>1, <1>2, <1>4 DEF TypeOK
<1> HIDE DEF q
<1>7. TypeOK'
  BY <1>1, <1>2, <1>6 DEF TypeOK
<1>8. q.op = "patch" /\ q.id = t.id /\ q.is_primary = t.is_primary /\ q.read = t.read
      /\ q.order = t.order
  BY <1>3, <1>5 DEF Same
<1>9. t.is_primary
  BY <1>1, <1>2 DEF MediaInv, Shapes, Shape
<1>10. Shape(q)
  BY <1>2, <1>3, <1>5, <1>8, <1>9 DEF Shape, Old, Picturing
<1>11. UnlinkedBy(t) = {} /\ UnlinkedBy(q) = {}
  BY <1>1, <1>3, <1>5, <1>8 DEF UnlinkedBy, Picturing
<1>12. HasStored(q, files)
  BY <1>8 DEF HasStored
<1>13. KnowsCover(t, Primaries) => KnowsCover(q, Primaries)
  BY <1>3, <1>5, <1>8 DEF KnowsCover
<1>14. QED
  BY <1>1, <1>5, <1>6, <1>7, <1>10, <1>11, <1>12, <1>13, GoOnStep
\* Only the step of a request and the storage change.
LEMMA GotoFacts ==
    ASSUME MediaInv, NEW r \in Slots, NEW pc, Goto(r, pc),
           pc \in {"idle", "store", "flush", "insert", "unlink", "remove", "select",
                   "write", "replace", "commit"}
    PROVE  /\ req' \in [Slots -> Request]
           /\ \A o \in Slots \ {r} : req'[o] = req[o]
           /\ req[r] \in Request /\ Shape(req[r]) /\ Same(req[r], req'[r])
           /\ req'[r].pc = pc /\ req'[r].seen = req[r].seen /\ req'[r].order = req[r].order
           /\ req'[r].op = req[r].op /\ req'[r].id = req[r].id
           /\ Old(req'[r]) = Old(req[r]) /\ Fresh(req'[r]) = Fresh(req[r])
<1> DEFINE t == req[r]
           q == [t EXCEPT !.pc = pc]
<1>1. TypeOK /\ Shapes /\ t \in Request /\ Shape(t)
  BY DEF MediaInv, TypeOK, Shapes
<1>2. q \in Request
  BY <1>1 DEF Request
<1>3. Same(t, q) /\ q.pc = pc /\ q.seen = t.seen /\ q.order = t.order
  BY <1>1 DEF Request, Same
<1>4. req' \in [Slots -> Request] /\ req'[r] = q /\ \A o \in Slots \ {r} : req'[o] = req[o]
  BY <1>1, <1>2 DEF TypeOK, Goto
<1> HIDE DEF q
<1>5. Old(q) = Old(t) /\ Fresh(q) = Fresh(t) /\ q.op = t.op /\ q.id = t.id
  BY <1>3 DEF Same, Old, Fresh, Picturing
<1>6. QED
  BY <1>1, <1>3, <1>4, <1>5

LEMMA StoreStep ==
    ASSUME MediaInv, Bounded, NEW r \in Slots,
           Store(r, IF req[r].op = "image" THEN "flush" ELSE "commit")
    PROVE  MediaInv' /\ Bounded'
<1> DEFINE t == req[r]
           q == req'[r]
           pc == IF t.op = "image" THEN "flush" ELSE "commit"
<1>1. /\ t.pc = "store" /\ files' = files \cup {t.id} /\ Goto(r, pc)
      /\ UNCHANGED <<media, profile, ids, work, raced, failed, abandoned, deleted>>
  BY DEF Store, History
<1>2. /\ req' \in [Slots -> Request] /\ \A o \in Slots \ {r} : req'[o] = req[o]
      /\ t \in Request /\ Shape(t) /\ Same(t, q)
      /\ q.pc = pc /\ q.seen = t.seen /\ q.order = t.order /\ q.op = t.op /\ q.id = t.id
      /\ Old(q) = Old(t) /\ Fresh(q) = Fresh(t)
  BY <1>1, GotoFacts
<1>3. t.op \in {"image", "picture"}
  BY <1>1, <1>2, ShapeFacts
<1>4. Fresh(t) = {t.id} /\ Uploaded(t) = {t.id} /\ t.id \in Ids
  BY <1>2, <1>3 DEF Fresh, Uploaded, Shape
<1>5. TypeOK'
  BY <1>1, <1>2, <1>4 DEF MediaInv, TypeOK
<1>6. Shape(q)
  BY <1>1, <1>2, <1>3 DEF Shape, Same
<1>7. UnlinkedBy(q) = UnlinkedBy(t) /\ UnlinkedBy(t) \subseteq Old(t)
  BY <1>1, <1>2, <1>3 DEF UnlinkedBy, Picturing
<1>8. HasStored(q, files')
  BY <1>1, <1>2 DEF HasStored
<1>9. KnowsCover(t, Primaries) => KnowsCover(q, Primaries)
  BY <1>2, <1>3 DEF KnowsCover
<1>10. ASSUME ~S3, ~failed' PROVE UnlinkedBy(q) \cap files' = {}
  <2>1. UnlinkedBy(t) \cap files = {}
    BY <1>1, <1>10 DEF MediaInv, OrphansInv
  <2>2. Fresh(t) \cap Old(t) = {}
    BY DEF MediaInv, IdsApart, PictureIds
  <2>3. QED
    BY <1>1, <1>4, <1>7, <2>1, <2>2
<1>11. q.pc # "insert"
  BY <1>2
<1>12. /\ files' \subseteq files \cup (Fresh(t) \cap Uploaded(t)) /\ files \ files' = {}
       /\ UNCHANGED <<media, profile, ids, raced, abandoned>> /\ (failed => failed')
  BY <1>1, <1>4
<1> HIDE DEF pc
<1>13. QED
  BY <1>2, <1>5, <1>6, <1>7, <1>8, <1>9, <1>10, <1>11, <1>12, GoOnStep

LEMMA UnlinkStep ==
    ASSUME MediaInv, Bounded, NEW r \in Slots, NEW f \in Ids, NEW pc, Unlink(r, f, pc),
           \/ req[r].pc = "unlink" /\ pc = "remove" /\ f = req[r].id
           \/ /\ req[r].pc = "replace" /\ f = req[r].profile[req[r].column]
              /\ pc = IF req[r].op = "picture" THEN "store" ELSE "commit"
    PROVE  MediaInv' /\ Bounded'
<1> DEFINE t == req[r]
           q == req'[r]
<1>1. /\ Goto(r, pc) /\ UNCHANGED <<media, profile, ids, raced, abandoned, deleted>>
      /\ \/ files' = Without(f) /\ UNCHANGED <<work, failed>>
         \/ work < MaxWork /\ work' = work + 1 /\ failed' = TRUE /\ files' = files
  BY DEF Unlink
<1>2. pc \in {"remove", "store", "commit"}
  OBVIOUS
<1>3. /\ req' \in [Slots -> Request] /\ \A o \in Slots \ {r} : req'[o] = req[o]
      /\ t \in Request /\ Shape(t) /\ Same(t, q)
      /\ q.pc = pc /\ q.seen = t.seen /\ q.order = t.order /\ q.op = t.op /\ q.id = t.id
      /\ Old(q) = Old(t) /\ Fresh(q) = Fresh(t)
  BY <1>1, <1>2, GotoFacts
<1>4. t.op \in {"delete", "picture", "no_picture"}
  BY <1>3, ShapeFacts
<1>5. files' \subseteq files /\ files \ files' \subseteq {f} /\ (~S3 /\ ~failed' => f \notin files')
  BY <1>1 DEF Without
<1>6. TypeOK'
  <2>1. work' \in 0 .. MaxWork
    BY <1>1, IdsFacts DEF MediaInv, TypeOK
  <2>2. failed' \in BOOLEAN
    BY <1>1 DEF MediaInv, TypeOK
  <2>3. QED
    BY <1>1, <1>3, <1>5, <2>1, <2>2 DEF MediaInv, TypeOK
<1>7. UnlinkedBy(t) = {} /\ UnlinkedBy(q) = {f}
  <2>1. CASE t.pc = "unlink"
    <3>1. t.op = "delete" /\ t.read.type = "image" /\ pc = "remove" /\ f = t.id
      BY <1>3, <2>1, ShapeFacts DEF Shape
    <3>2. q.op = "delete" /\ q.read.type = "image" /\ q.pc = "remove" /\ q.id = f
      BY <1>3, <3>1 DEF Same
    <3>3. QED
      BY <2>1, <3>1, <3>2 DEF UnlinkedBy, Picturing
  <2>2. CASE t.pc = "replace"
    <3>1. Picturing(t) /\ Picturing(q) /\ pc \in {"store", "commit"} /\ f = t.profile[t.column]
      BY <1>3, <2>2, ShapeFacts DEF Picturing
    <3>2. Old(t) = {f}
      BY <3>1 DEF Old
    <3>3. QED
      BY <1>3, <2>2, <3>1, <3>2 DEF UnlinkedBy
  <2>3. QED
    BY <2>1, <2>2
<1>8. Shape(q)
  <2>1. CASE t.pc = "unlink"
    <3>1. t.op = "delete" /\ pc = "remove"
      BY <1>3, <2>1, ShapeFacts
    <3>2. QED
      BY <1>3, <3>1, <2>1 DEF Shape, Same
  <2>2. CASE t.pc = "replace"
    <3>1. t.op \in {"picture", "no_picture"} /\ pc = IF t.op = "picture" THEN "store" ELSE "commit"
      BY <1>3, <2>2, ShapeFacts
    <3>2. QED
      BY <1>3, <3>1, <2>2 DEF Shape, Same
  <2>3. QED
    BY <2>1, <2>2
<1>9. HasStored(q, files')
  BY <1>3, <1>4 DEF HasStored, Shape
<1>10. ~SetsCover(t)
  BY <1>4 DEF SetsCover
<1>11. q.pc # "insert"
  BY <1>2, <1>3
<1>12. /\ files' \subseteq files \cup (Fresh(t) \cap Uploaded(t))
       /\ UNCHANGED <<media, profile, ids, raced, abandoned>> /\ (failed => failed')
       /\ files \ files' \subseteq UnlinkedBy(q) /\ UnlinkedBy(t) \subseteq UnlinkedBy(q)
       /\ ~S3 /\ ~failed' => UnlinkedBy(q) \cap files' = {}
  BY <1>1, <1>5, <1>7
<1>13. QED
  BY <1>3, <1>6, <1>8, <1>9, <1>10, <1>11, <1>12, GoOnStep

\* A request that ends with nothing in the database.
LEMMA FailStep ==
    ASSUME MediaInv, Bounded, NEW r \in Slots, Fail(r), work' \in 0 .. MaxWork,
           files' \in {files, files \cup Fresh(req[r])}
    PROVE  MediaInv' /\ Bounded'
<1> DEFINE t == req[r]
<1>1. /\ req' = [req EXCEPT ![r] = Idle] /\ failed' = TRUE
      /\ abandoned' = abandoned \cup Unlinked(r)
      /\ UNCHANGED <<media, profile, ids, raced, deleted>>
  BY DEF Fail, Finish
<1>2. TypeOK /\ t \in Request /\ Shape(t)
  BY DEF MediaInv, TypeOK, Shapes
<1>3. Unlinked(r) = UnlinkedBy(t)
  BY <1>2, UnlinkedFacts DEF Unlinked
<1>4. Fresh(t) \subseteq Ids /\ UnlinkedBy(t) \subseteq Ids
  <2>1. t.pc = "remove" => t.op = "delete"
    BY <1>2, ShapeFacts
  <2>2. UnlinkedBy(t) \subseteq Target(t) \cup Old(t)
    BY <2>1 DEF UnlinkedBy, Target
  <2>3. QED
    BY <1>2, <2>2, ShapeFacts
<1>5. req' \in [Slots -> Request] /\ req'[r] = Idle /\ \A o \in Slots \ {r} : req'[o] = req[o]
  BY <1>1, <1>2, IdleFacts DEF TypeOK
<1>6. TypeOK'
  BY <1>1, <1>2, <1>3, <1>4, <1>5 DEF TypeOK
<1>7. /\ Shape(req'[r]) /\ Fresh(req'[r]) = {} /\ Target(req'[r]) = {} /\ Old(req'[r]) = {}
      /\ UnlinkedBy(req'[r]) = {} /\ req'[r].profile = NoProfile
      /\ ~SetsCover(req'[r]) /\ ~Appends(req'[r]) /\ ~Reorders(req'[r]) /\ ~Picturing(req'[r])
      /\ req'[r].pc = "idle" /\ req'[r].op = "none"
  BY <1>5, IdleFacts
<1>8. /\ KnowsColumn(req'[r], profile) /\ HasStored(req'[r], files') /\ KnowsType(req'[r], media)
      /\ KnowsPicture(req'[r], profile)
  BY <1>7 DEF KnowsColumn, HasStored, KnowsType, KnowsPicture
<1>9. /\ files' \subseteq files \cup Fresh(t) /\ files \ files' = {}
      /\ abandoned \subseteq abandoned' /\ UnlinkedBy(t) \subseteq abandoned'
      /\ UNCHANGED <<media, profile>> /\ ids' = ids /\ raced \subseteq raced' /\ failed'
  BY <1>1, <1>3
<1>10. QED
  BY <1>5, <1>6, <1>7, <1>8, <1>9, QuietStep
LEMMA UnsetFacts ==
    ASSUME TypeOK, RowsInv, NEW S, NEW i \in Ids
    PROVE  /\ Unset(S)[i] \in [type : {"none", "image", "video"}, is_primary : BOOLEAN, order : Int]
           /\ Unset(S)[i] = NoMedia <=> media[i] = NoMedia
           /\ Unset(S)[i].type = media[i].type /\ Unset(S)[i].order = media[i].order
           /\ Unset(S)[i].is_primary <=> media[i].is_primary /\ ~(i \in S /\ i \in Rows)
<1> DEFINE M == [type : {"none", "image", "video"}, is_primary : BOOLEAN, order : Int]
           x == [media[i] EXCEPT !.is_primary = FALSE]
<1>1. media[i] \in M
  BY DEF TypeOK
<1>2. x \in M /\ x.is_primary = FALSE /\ x.type = media[i].type /\ x.order = media[i].order
  BY <1>1
<1>3. Unset(S)[i] = IF i \in S /\ i \in Rows THEN x ELSE media[i]
  BY DEF Unset
<1> HIDE DEF x
<1>4. CASE i \in S /\ i \in Rows
  <2>1. media[i] # NoMedia /\ media[i].type # "none"
    BY <1>4 DEF Rows, RowsInv
  <2>2. x # NoMedia
    BY <1>2, <2>1 DEF NoMedia
  <2>3. QED
    BY <1>2, <1>3, <1>4, <2>1, <2>2
<1>5. CASE ~(i \in S /\ i \in Rows)
  <2>1. Unset(S)[i] = media[i]
    BY <1>3, <1>5
  <2>2. QED
    BY <1>1, <1>5, <2>1
<1>6. QED
  BY <1>4, <1>5

LEMMA InsertFacts ==
    ASSUME MediaInv, NEW r \in Slots, Insert(r)
    PROVE  /\ req[r] \in Request /\ Shape(req[r]) /\ req[r].pc = "insert"
           /\ req[r].op \in {"image", "video"} /\ Fresh(req[r]) = {req[r].id}
           /\ req[r].id \in Ids /\ req[r].id \notin Rows /\ req[r].order \in Nat
           /\ req'[r] = Idle /\ \A o \in Slots \ {r} : req'[o] = req[o]
           /\ UNCHANGED <<profile, files, ids, work, raced, failed, abandoned, deleted>>
           /\ media'[req[r].id] = [type |-> req[r].op, is_primary |-> req[r].is_primary,
                                   order |-> req[r].order]
           /\ \A i \in Ids \ {req[r].id} : media'[i] = Unset(req[r].seen)[i]
           /\ Rows' = Rows \cup {req[r].id}
           /\ Primaries' = (Primaries \ req[r].seen)
                             \cup (IF req[r].is_primary THEN {req[r].id} ELSE {})
           /\ TypeOK'
<1> DEFINE t == req[r]
<1>1. /\ t.pc = "insert" /\ req' = [req EXCEPT ![r] = Idle]
      /\ media' = [Unset(t.seen) EXCEPT ![t.id] =
                     [type |-> t.op, is_primary |-> t.is_primary, order |-> t.order]]
      /\ UNCHANGED <<profile, files, ids, work, raced, failed, abandoned, deleted>>
  BY DEF Insert, Finish, History
<1>2. TypeOK /\ t \in Request /\ Shape(t)
  BY DEF MediaInv, TypeOK, Shapes
<1>3. t.op \in {"image", "video"} /\ t.id \in Ids /\ t.order \in Nat
  BY <1>1, <1>2, ShapeFacts DEF Shape
<1>4. Fresh(t) = {t.id}
  BY <1>3 DEF Fresh
<1>5. t.id \notin Rows
  BY <1>4 DEF MediaInv, IdsApart, RowIds
<1> DEFINE new == [type |-> t.op, is_primary |-> t.is_primary, order |-> t.order]
           M == [type : {"none", "image", "video"}, is_primary : BOOLEAN, order : Int]
<1>6. /\ new \in M /\ new # NoMedia
      /\ new.type = t.op /\ new.is_primary = t.is_primary /\ new.order = t.order
  BY <1>2, <1>3, RequestFacts DEF NoMedia
<1> HIDE DEF new
<1>7. media'[t.id] = new /\ \A i \in Ids \ {t.id} : media'[i] = Unset(t.seen)[i]
  BY <1>1, <1>3 DEF Unset, new
<1>8. \A i \in Ids : /\ Unset(t.seen)[i] \in M
                     /\ Unset(t.seen)[i] = NoMedia <=> media[i] = NoMedia
                     /\ Unset(t.seen)[i].is_primary <=>
                          media[i].is_primary /\ ~(i \in t.seen /\ i \in Rows)
  BY <1>2, UnsetFacts DEF MediaInv
<1>9. Rows' = Rows \cup {t.id}
  <2>1. \A i \in Ids : i \in Rows' <=> i \in Rows \/ i = t.id
    BY <1>6, <1>7, <1>8 DEF Rows
  <2>2. QED
    BY <1>3, <2>1 DEF Rows
<1>10. Primaries' = (Primaries \ t.seen) \cup (IF t.is_primary THEN {t.id} ELSE {})
  <2>1. Primaries' = {i \in Rows' : media'[i].is_primary}
    BY DEF Primaries
  <2>2. t.id \notin Primaries
    BY <1>5 DEF Primaries
  <2>3. \A i \in Rows \ {t.id} : media'[i].is_primary <=> media[i].is_primary /\ i \notin t.seen
    BY <1>7, <1>8 DEF Rows
  <2>4. media'[t.id].is_primary <=> t.is_primary
    BY <1>6, <1>7
  <2>5. t.is_primary \in BOOLEAN
    BY <1>2, RequestFacts
  <2>6. QED
    BY <1>5, <1>9, <2>1, <2>2, <2>3, <2>4, <2>5 DEF Primaries
<1>11. TypeOK'
  <2>1. req' \in [Slots -> Request]
    BY <1>1, <1>2, IdleFacts DEF TypeOK
  <2>2. media' \in [Ids -> M]
    <3>1. media' = [i \in Ids |-> media'[i]]
      BY <1>1 DEF Unset
    <3>2. \A i \in Ids : media'[i] \in M
      BY <1>6, <1>7, <1>8
    <3>3. QED
      BY <3>1, <3>2
  <2>3. QED
    BY <1>1, <1>2, <2>1, <2>2 DEF TypeOK
<1>12. req'[r] = Idle /\ \A o \in Slots \ {r} : req'[o] = req[o]
  BY <1>1, <1>2 DEF TypeOK
<1>13. QED
  BY <1>1, <1>2, <1>3, <1>4, <1>5, <1>7, <1>9, <1>10, <1>11, <1>12 DEF new

LEMMA InsertStep ==
    ASSUME MediaInv, Bounded, NEW r \in Slots, Insert(r)
    PROVE  MediaInv' /\ Bounded'
<1> DEFINE t == req[r]
<1>1. /\ t \in Request /\ Shape(t) /\ t.pc = "insert"
      /\ t.op \in {"image", "video"} /\ Fresh(t) = {t.id}
      /\ t.id \in Ids /\ t.id \notin Rows /\ t.order \in Nat
      /\ req'[r] = Idle /\ \A o \in Slots \ {r} : req'[o] = req[o]
      /\ UNCHANGED <<profile, files, ids, raced, failed, abandoned>>
      /\ \A i \in Ids \ {t.id} : media'[i] = Unset(t.seen)[i]
      /\ Rows' = Rows \cup {t.id}
      /\ Primaries' = (Primaries \ t.seen) \cup (IF t.is_primary THEN {t.id} ELSE {})
      /\ TypeOK'
  BY InsertFacts
<1>2. media'[t.id].type = t.op /\ media'[t.id].order = t.order
  <2>1. media'[t.id] = [type |-> t.op, is_primary |-> t.is_primary, order |-> t.order]
    BY InsertFacts
  <2>2. QED
    BY <2>1
<1>3. \A i \in Ids \ {t.id} :
        /\ media'[i] # NoMedia <=> media[i] # NoMedia
        /\ media'[i].type = media[i].type /\ media'[i].order = media[i].order
  BY <1>1, UnsetFacts DEF MediaInv
<1>4. ~Picturing(t) /\ UnlinkedBy(t) = {}
  BY <1>1 DEF Picturing, UnlinkedBy
<1>5. \A i \in Images : i \in Images'
  BY <1>1, <1>3 DEF Images, Rows
<1>6. t.id \in Images' <=> t.op = "image"
  BY <1>1, <1>2 DEF Images
<1>7. {t.id} \cap Images' \subseteq files
  <2>1. HasStored(t, files)
    BY DEF MediaInv, FilesInv
  <2>2. QED
    BY <1>1, <1>6, <2>1 DEF HasStored
<1>8. Uploaded(t) \subseteq Images'
  BY <1>1, <1>6 DEF Uploaded
<1>9. "cover" \notin raced =>
        /\ \A i, j \in Primaries' : i = j
        /\ \A o \in Slots \ {r} : SetsCover(req[o]) => Primaries' \subseteq Primaries
  <2> SUFFICES ASSUME "cover" \notin raced
               PROVE  /\ \A i, j \in Primaries' : i = j
                      /\ \A o \in Slots \ {r} : SetsCover(req[o]) => Primaries' \subseteq Primaries
    OBVIOUS
  <2>1. /\ \A o \in Slots \ {r} : ~(SetsCover(t) /\ SetsCover(req[o]))
        /\ \A i, j \in Primaries : i = j
        /\ SetsCover(t) => KnowsCover(t, Primaries)
    BY DEF MediaInv, CoverInv
  <2>2. CASE t.is_primary
    <3>1. SetsCover(t) /\ t.op = "image"
      BY <1>1, <2>2 DEF Shape, SetsCover
    <3>2. Primaries' \subseteq {t.id}
      BY <1>1, <2>1, <3>1 DEF KnowsCover
    <3>3. QED
      BY <2>1, <3>1, <3>2
  <2>3. CASE ~t.is_primary
    BY <1>1, <2>1, <2>3
  <2>4. QED
    BY <2>2, <2>3
<1>10. "order" \notin raced =>
         \A o \in Slots \ {r} : req[o].pc = "insert" => Below(media', req[o].order)
  <2>1. \A o \in Slots : req[o].pc = "insert" => Appends(req[o])
    BY ShapeFacts DEF MediaInv, TypeOK, Shapes, Appends
  <2>2. "order" \notin raced => \A o \in Slots \ {r} : ~(Appends(t) /\ Appends(req[o]))
    BY DEF MediaInv, OrderInv
  <2>3. QED
    BY <1>1, <2>1, <2>2
<1>11. RowsInv'
  <2>1. RowsInv
    BY DEF MediaInv
  <2>2. \A i \in Rows \ {t.id} : media'[i].type # "none" /\ media'[i].order \in Nat
    BY <1>3, <2>1 DEF RowsInv, Rows
  <2>3. QED
    BY <1>1, <1>2, <2>2 DEF RowsInv
<1>12. \A i \in Ids : media'[i] # NoMedia =>
         i \in {t.id} \/ (media[i] # NoMedia /\ media'[i].type = media[i].type)
  BY <1>3
<1>13. MediaInv'
  BY <1>1, <1>4, <1>5, <1>7, <1>8, <1>9, <1>10, <1>11, <1>12, WriteStep
<1>14. Bounded'
  <2>1. PICK m \in Nat : \A i \in Rows : media[i].order <= m
    BY DEF Bounded
  <2>2. PICK n \in Nat : m <= n /\ t.order <= n
    <3>1. CASE m <= t.order
      BY <1>1, <3>1
    <3>2. CASE ~(m <= t.order)
      BY <1>1, <3>2
    <3>3. QED
      BY <3>1, <3>2
  <2>3. \A i \in Rows : media[i].order \in Nat
    BY DEF MediaInv, RowsInv
  <2>4. \A i \in Rows : media[i].order <= n
    BY <2>1, <2>2, <2>3
  <2>5. \A i \in Rows' : media'[i].order <= n
    BY <1>1, <1>2, <1>3, <2>2, <2>4 DEF Rows
  <2>6. QED
    BY <2>5 DEF Bounded
<1>15. QED
  BY <1>13, <1>14
LEMMA RemoveFacts ==
    ASSUME MediaInv, NEW r \in Slots, Remove(r)
    PROVE  /\ req[r] \in Request /\ Shape(req[r]) /\ req[r].pc = "remove"
           /\ req[r].op = "delete" /\ req[r].id \in Ids
           /\ req'[r] = Idle /\ \A o \in Slots \ {r} : req'[o] = req[o]
           /\ UNCHANGED <<profile, files, ids, work, raced, failed, abandoned>>
           /\ media'[req[r].id] = NoMedia
           /\ \A i \in Ids \ {req[r].id} : media'[i] = media[i]
           /\ Rows' = Rows \ {req[r].id} /\ Primaries' = Primaries \ {req[r].id}
           /\ Images' = Images \ {req[r].id}
           /\ TypeOK'
<1> DEFINE t == req[r]
<1>1. /\ t.pc = "remove" /\ req' = [req EXCEPT ![r] = Idle]
      /\ media' = [media EXCEPT ![t.id] = NoMedia] /\ deleted' = deleted \cup {t.id}
      /\ UNCHANGED <<profile, files, ids, work, raced, failed, abandoned>>
  BY DEF Remove, Finish
<1>2. TypeOK /\ t \in Request /\ Shape(t)
  BY DEF MediaInv, TypeOK, Shapes
<1>3. t.op = "delete" /\ t.id \in Ids
  BY <1>1, <1>2, ShapeFacts DEF Shape
<1>4. media'[t.id] = NoMedia /\ \A i \in Ids \ {t.id} : media'[i] = media[i]
  BY <1>1, <1>2, <1>3 DEF TypeOK
<1>5. Rows' = Rows \ {t.id} /\ Primaries' = Primaries \ {t.id} /\ Images' = Images \ {t.id}
  <2>1. Rows' = Rows \ {t.id}
    BY <1>3, <1>4 DEF Rows
  <2>2. Primaries' = {i \in Rows' : media'[i].is_primary} /\ Images' = {i \in Rows' : media'[i].type = "image"}
    BY DEF Primaries, Images
  <2>3. \A i \in Rows : i \in Ids
    BY DEF Rows
  <2>4. QED
    BY <1>4, <2>1, <2>2, <2>3 DEF Primaries, Images
<1>6. TypeOK'
  <2>1. req' \in [Slots -> Request]
    BY <1>1, <1>2, IdleFacts DEF TypeOK
  <2>2. NoMedia \in [type : {"none", "image", "video"}, is_primary : BOOLEAN, order : Int]
    BY DEF NoMedia
  <2>3. media' \in [Ids -> [type : {"none", "image", "video"}, is_primary : BOOLEAN, order : Int]]
    BY <1>1, <1>2, <2>2 DEF TypeOK
  <2>4. QED
    BY <1>1, <1>2, <1>3, <2>1, <2>3 DEF TypeOK
<1>7. req'[r] = Idle /\ \A o \in Slots \ {r} : req'[o] = req[o]
  BY <1>1, <1>2 DEF TypeOK
<1>8. QED
  BY <1>1, <1>2, <1>3, <1>4, <1>5, <1>6, <1>7

LEMMA RemoveStep ==
    ASSUME MediaInv, Bounded, NEW r \in Slots, Remove(r)
    PROVE  MediaInv' /\ Bounded'
<1> DEFINE t == req[r]
<1>1. /\ t \in Request /\ Shape(t) /\ t.pc = "remove" /\ t.op = "delete" /\ t.id \in Ids
      /\ req'[r] = Idle /\ \A o \in Slots \ {r} : req'[o] = req[o]
      /\ UNCHANGED <<profile, files, ids, work, raced, failed, abandoned>>
      /\ media'[t.id] = NoMedia
      /\ \A i \in Ids \ {t.id} : media'[i] = media[i]
      /\ Rows' = Rows \ {t.id} /\ Primaries' = Primaries \ {t.id} /\ Images' = Images \ {t.id}
      /\ TypeOK'
  BY RemoveFacts
<1>2. ~Picturing(t) /\ Uploaded(t) = {}
  BY <1>1 DEF Picturing, Uploaded
<1>3. t.id \in Images => UnlinkedBy(t) = {t.id}
  <2>1. KnowsType(t, media)
    BY DEF MediaInv, FilesInv
  <2>2. QED
    BY <1>1, <1>2, <2>1 DEF KnowsType, Images, Rows, UnlinkedBy
<1>4. UnlinkedBy(t) \subseteq {t.id}
  BY <1>2 DEF UnlinkedBy
<1>5. \A i \in Ids : media'[i] # NoMedia => media[i] # NoMedia /\ media'[i].type = media[i].type
  BY <1>1
<1>6. "cover" \notin raced => \A i, j \in Primaries' : i = j
  BY <1>1 DEF MediaInv, CoverInv
<1>7. "order" \notin raced =>
        \A o \in Slots \ {r} : req[o].pc = "insert" => Below(media', req[o].order)
  BY <1>1 DEF MediaInv, OrderInv, Below
<1>8. RowsInv'
  BY <1>1 DEF MediaInv, RowsInv, Rows
<1>9. /\ {} \subseteq Fresh(t) /\ {} \cap Images' \subseteq files
      /\ \A i \in Images : i \in Images' \/ i \in UnlinkedBy(t)
      /\ UnlinkedBy(t) \cap Images' = {} /\ Uploaded(t) \subseteq Images'
      /\ \A i \in Ids : media'[i] # NoMedia =>
           i \in {} \/ (media[i] # NoMedia /\ media'[i].type = media[i].type)
      /\ "cover" \notin raced =>
           /\ \A i, j \in Primaries' : i = j
           /\ \A o \in Slots \ {r} : SetsCover(req[o]) => Primaries' \subseteq Primaries
      /\ UNCHANGED <<profile, files, ids, raced, failed, abandoned>>
  BY <1>1, <1>2, <1>3, <1>4, <1>5, <1>6
<1>10. MediaInv'
  BY <1>1, <1>2, <1>7, <1>8, <1>9, WriteStep
<1>11. Bounded'
  BY <1>1 DEF Bounded, Rows
<1>12. QED
  BY <1>10, <1>11

LEMMA CommitPatchFacts ==
    ASSUME MediaInv, NEW r \in Slots, CommitPatch(r)
    PROVE  /\ req[r] \in Request /\ Shape(req[r]) /\ req[r].pc = "write"
           /\ req[r].op = "patch" /\ req[r].id \in Ids
           /\ Written(req[r]) \subseteq Rows
           /\ req'[r] = Idle /\ \A o \in Slots \ {r} : req'[o] = req[o]
           /\ UNCHANGED <<profile, files, ids, work, raced, failed, abandoned, deleted>>
           /\ \A i \in Ids :
                /\ media'[i] = NoMedia <=> media[i] = NoMedia
                /\ media'[i].type = media[i].type
                /\ media'[i].order =
                     IF i = req[r].id /\ Reorders(req[r]) THEN req[r].order ELSE media[i].order
           /\ Rows' = Rows /\ Images' = Images
           /\ Primaries' = (Primaries \ req[r].seen)
                             \cup (IF Becomes(req[r]) THEN {req[r].id} ELSE {})
           /\ TypeOK'
<1> DEFINE t == req[r]
           M == [type : {"none", "image", "video"}, is_primary : BOOLEAN, order : Int]
           u(i) == Unset(t.seen)[i]
<1>1. /\ t.pc = "write" /\ req' = [req EXCEPT ![r] = Idle]
      /\ Written(t) \subseteq Rows
      /\ media' = [i \in Ids |->
                     [Unset(t.seen)[i] EXCEPT
                        !.is_primary = @ \/ (i = t.id /\ Becomes(t)),
                        !.order = IF i = t.id /\ t.order # t.read.order
                                  THEN t.order ELSE @]]
      /\ UNCHANGED <<profile, files, ids, work, raced, failed, abandoned, deleted>>
  BY DEF CommitPatch, Finish, History
<1>2. TypeOK /\ RowsInv /\ t \in Request /\ Shape(t)
  BY DEF MediaInv, TypeOK, Shapes
<1>3. t.op = "patch" /\ t.id \in Ids /\ t.order \in Nat
  BY <1>1, <1>2, ShapeFacts DEF Shape
<1>4. \A i \in Ids : /\ u(i) \in M /\ u(i).type = media[i].type /\ u(i).order = media[i].order
                     /\ u(i) = NoMedia <=> media[i] = NoMedia
                     /\ u(i).is_primary <=> media[i].is_primary /\ ~(i \in t.seen /\ i \in Rows)
  BY <1>2, UnsetFacts
<1>5. t.id \in Rows \/ (~Becomes(t) /\ ~Reorders(t))
  BY <1>1, <1>3 DEF Written, Reorders
<1>6. ASSUME NEW i \in Ids
      PROVE  /\ media'[i] \in M /\ media'[i].type = media[i].type
             /\ media'[i].order = IF i = t.id /\ Reorders(t) THEN t.order ELSE media[i].order
             /\ media'[i].is_primary <=> u(i).is_primary \/ (i = t.id /\ Becomes(t))
             /\ media'[i] = NoMedia <=> media[i] = NoMedia
  <2> DEFINE p == u(i).is_primary \/ (i = t.id /\ Becomes(t))
             k == IF i = t.id /\ Reorders(t) THEN t.order ELSE u(i).order
  <2>1. media'[i] = [u(i) EXCEPT !.is_primary = p, !.order = k]
    BY <1>1, <1>3, <1>6 DEF Reorders
  <2>2. u(i) \in M /\ p \in BOOLEAN
    BY <1>4
  <2>3. k \in Int
    BY <1>3, <2>2
  <2> HIDE DEF p, k, u
  <2>4. /\ media'[i] \in M /\ media'[i].type = u(i).type /\ media'[i].order = k
        /\ media'[i].is_primary = p
    BY <2>1, <2>2, <2>3
  <2>5. CASE i \in Rows
    <3>1. media[i] # NoMedia /\ media[i].type # "none"
      BY <1>2, <2>5 DEF RowsInv, Rows
    <3>2. media'[i] # NoMedia
      BY <1>4, <2>4, <3>1 DEF NoMedia, u
    <3>3. QED
      BY <1>4, <2>4, <3>1, <3>2 DEF p, k, u
  <2>6. CASE i \notin Rows
    <3>1. media[i] = NoMedia /\ u(i) = NoMedia
      BY <1>4, <2>6 DEF Rows, u
    <3>2. k = u(i).order /\ (p <=> u(i).is_primary)
      BY <1>5, <2>6 DEF p, k
    <3>3. p = u(i).is_primary
      BY <2>2, <3>2
    <3>4. media'[i] = NoMedia
      <4>1. /\ media'[i].type = NoMedia.type /\ media'[i].is_primary = NoMedia.is_primary
            /\ media'[i].order = NoMedia.order
        BY <2>4, <3>1, <3>2, <3>3
      <4>2. media'[i] \in M /\ NoMedia \in M
        BY <2>4 DEF NoMedia
      <4>3. QED
        BY <4>1, <4>2
    <3>5. QED
      BY <1>4, <2>4, <3>1, <3>2, <3>4 DEF p, k, u
  <2>7. QED
    BY <2>5, <2>6
<1>7. Rows' = Rows /\ Images' = Images
  <2>1. Rows' = Rows
    BY <1>6 DEF Rows
  <2>2. Images' = {i \in Rows' : media'[i].type = "image"} /\ Rows \subseteq Ids
    BY DEF Images, Rows
  <2>3. QED
    BY <1>6, <2>1, <2>2 DEF Images
<1>8. Primaries' = (Primaries \ t.seen) \cup (IF Becomes(t) THEN {t.id} ELSE {})
  <2>1. Primaries' = {i \in Rows : media'[i].is_primary} /\ Rows \subseteq Ids
    BY <1>7 DEF Primaries, Rows
  <2>2. \A i \in Rows : media'[i].is_primary <=>
          (media[i].is_primary /\ i \notin t.seen) \/ (i = t.id /\ Becomes(t))
    BY <1>4, <1>6, <2>1
  <2>3. QED
    BY <1>5, <2>1, <2>2 DEF Primaries
<1>9. TypeOK'
  <2>1. req' \in [Slots -> Request]
    BY <1>1, <1>2, IdleFacts DEF TypeOK
  <2>2. media' \in [Ids -> M]
    <3>1. media' = [i \in Ids |-> media'[i]]
      BY <1>1
    <3>2. \A i \in Ids : media'[i] \in M
      BY <1>6
    <3>3. QED
      BY <3>1, <3>2
  <2>3. QED
    BY <1>1, <1>2, <2>1, <2>2 DEF TypeOK
<1>10. req'[r] = Idle /\ \A o \in Slots \ {r} : req'[o] = req[o]
  BY <1>1, <1>2 DEF TypeOK
<1>11. QED
  BY <1>1, <1>2, <1>3, <1>6, <1>7, <1>8, <1>9, <1>10
LEMMA CommitPatchStep ==
    ASSUME MediaInv, Bounded, NEW r \in Slots, CommitPatch(r)
    PROVE  MediaInv' /\ Bounded'
<1> DEFINE t == req[r]
<1>1. /\ t \in Request /\ Shape(t) /\ t.pc = "write" /\ t.op = "patch" /\ t.id \in Ids
      /\ req'[r] = Idle /\ \A o \in Slots \ {r} : req'[o] = req[o]
      /\ UNCHANGED <<profile, files, ids, raced, failed, abandoned>>
      /\ Rows' = Rows /\ Images' = Images
      /\ Primaries' = (Primaries \ t.seen) \cup (IF Becomes(t) THEN {t.id} ELSE {})
      /\ TypeOK' /\ Written(t) \subseteq Rows
  BY CommitPatchFacts
<1>2. \A i \in Ids :
        /\ media'[i] = NoMedia <=> media[i] = NoMedia
        /\ media'[i].type = media[i].type
        /\ media'[i].order = IF i = t.id /\ Reorders(t) THEN t.order ELSE media[i].order
  BY CommitPatchFacts
<1>3. t.order \in Nat
  BY <1>1 DEF Shape
<1>4. ~Picturing(t) /\ Uploaded(t) = {} /\ UnlinkedBy(t) = {}
  BY <1>1 DEF Picturing, Uploaded, UnlinkedBy
<1>5. "cover" \notin raced =>
        /\ \A i, j \in Primaries' : i = j
        /\ \A o \in Slots \ {r} : SetsCover(req[o]) => Primaries' \subseteq Primaries
  <2> SUFFICES ASSUME "cover" \notin raced
               PROVE  /\ \A i, j \in Primaries' : i = j
                      /\ \A o \in Slots \ {r} : SetsCover(req[o]) => Primaries' \subseteq Primaries
    OBVIOUS
  <2>1. /\ \A o \in Slots \ {r} : ~(SetsCover(t) /\ SetsCover(req[o]))
        /\ \A i, j \in Primaries : i = j
        /\ SetsCover(t) => KnowsCover(t, Primaries)
    BY DEF MediaInv, CoverInv
  <2>2. CASE t.is_primary
    <3>1. SetsCover(t)
      BY <1>1, <2>2 DEF SetsCover
    <3>2. Primaries \subseteq t.seen \cup {t.id}
      BY <1>1, <2>1, <3>1 DEF KnowsCover
    <3>3. Primaries' \subseteq {t.id}
      BY <1>1, <3>2
    <3>4. QED
      BY <2>1, <3>1, <3>3
  <2>3. CASE ~t.is_primary
    <3>1. t.seen = {} /\ ~Becomes(t)
      BY <1>1, <2>3 DEF Shape, Becomes
    <3>2. QED
      BY <1>1, <2>1, <3>1
  <2>4. QED
    BY <2>2, <2>3
<1>6. "order" \notin raced =>
        \A o \in Slots \ {r} : req[o].pc = "insert" => Below(media', req[o].order)
  <2> SUFFICES ASSUME "order" \notin raced, NEW o \in Slots \ {r}, req[o].pc = "insert"
               PROVE  Below(media', req[o].order)
    OBVIOUS
  <2>1. Appends(req[o])
    BY ShapeFacts DEF MediaInv, TypeOK, Shapes, Appends
  <2>2. ~Reorders(t) /\ Below(media, req[o].order)
    BY <2>1 DEF MediaInv, OrderInv
  <2>3. QED
    BY <1>2, <2>2 DEF Below
<1>7. RowsInv'
  <2>1. \A i \in Rows : i \in Ids /\ media[i].type # "none" /\ media[i].order \in Nat
    BY DEF MediaInv, RowsInv, Rows
  <2>2. \A i \in Rows : media'[i].type # "none" /\ media'[i].order \in Nat
    BY <1>2, <1>3, <2>1
  <2>3. QED
    BY <1>1, <2>2 DEF RowsInv
<1>8. /\ {} \subseteq Fresh(t) /\ {} \cap Images' \subseteq files
      /\ \A i \in Images : i \in Images' \/ i \in UnlinkedBy(t)
      /\ UnlinkedBy(t) \cap Images' = {} /\ Uploaded(t) \subseteq Images'
      /\ \A i \in Ids : media'[i] # NoMedia =>
           i \in {} \/ (media[i] # NoMedia /\ media'[i].type = media[i].type)
  BY <1>1, <1>2, <1>4
<1>9. MediaInv'
  BY <1>1, <1>4, <1>5, <1>6, <1>7, <1>8, WriteStep
<1>10. Bounded'
  <2>1. PICK m \in Nat : \A i \in Rows : media[i].order <= m
    BY DEF Bounded
  <2>2. PICK n \in Nat : m <= n /\ t.order <= n
    <3>1. CASE m <= t.order
      BY <1>3, <3>1
    <3>2. CASE ~(m <= t.order)
      BY <1>3, <3>2
    <3>3. QED
      BY <3>1, <3>2
  <2>3. \A i \in Rows : i \in Ids /\ media[i].order \in Nat
    BY DEF MediaInv, RowsInv, Rows
  <2>4. \A i \in Rows : media[i].order <= n
    BY <2>1, <2>2, <2>3
  <2>5. \A i \in Rows' : media'[i].order <= n
    BY <1>1, <1>2, <2>2, <2>3, <2>4
  <2>6. QED
    BY <2>5 DEF Bounded
<1>11. QED
  BY <1>9, <1>10

-----------------------------------------------------------------------------
(* Every step of Media. *)

LEMMA InitFacts == Init => MediaInv /\ Bounded
<1> SUFFICES ASSUME Init PROVE MediaInv /\ Bounded
  OBVIOUS
<1>1. PICK cover \in BOOLEAN :
        media = [i \in Ids |->
                   IF i <= ids
                   THEN [type |-> "image", is_primary |-> cover /\ i = 1, order |-> i]
                   ELSE NoMedia]
  BY DEF Init
<1>2. /\ ids \in 0 .. MaxOld /\ files = 1 .. ids
      /\ profile \in {NoProfile, [c \in Columns |-> NoFile]}
      /\ req = [s \in Slots |-> Idle] /\ work = 0 /\ raced = {} /\ failed = FALSE
      /\ abandoned = {} /\ deleted = {}
  BY DEF Init
<1> DEFINE M == [type : {"none", "image", "video"}, is_primary : BOOLEAN, order : Int]
           old(i) == [type |-> "image", is_primary |-> cover /\ i = 1, order |-> i]
<1>3. MaxOld \in Nat /\ MaxIds \in Nat /\ MaxWork \in Nat /\ MaxOld < MaxIds
  BY MediaAssumption
<1>4. ids \in 0 .. MaxIds /\ ids \in Nat /\ \A i \in Ids : i \in Nat
  BY <1>2, <1>3 DEF Ids
<1>5. /\ NoMedia \in M /\ NoMedia.type = "none" /\ NoMedia.is_primary = FALSE
      /\ \A i \in Ids : /\ old(i) \in M /\ old(i).type = "image" /\ old(i).order = i
                        /\ old(i).is_primary => i = 1
  <2>1. NoMedia \in M /\ NoMedia.type = "none" /\ NoMedia.is_primary = FALSE
    BY DEF NoMedia
  <2>2. ASSUME NEW i \in Ids
        PROVE  /\ old(i) \in M /\ old(i).type = "image" /\ old(i).order = i
               /\ old(i).is_primary => i = 1
    <3>1. i \in Int /\ (cover /\ i = 1) \in BOOLEAN
      BY <1>4
    <3>2. QED
      BY <3>1
  <2>3. QED
    BY <2>1, <2>2
<1> HIDE DEF old
<1>6. \A i \in Ids : media[i] = IF i <= ids THEN old(i) ELSE NoMedia
  BY <1>1 DEF old
<1>7. Rows = 1 .. ids /\ Images = 1 .. ids /\ \A i \in Primaries : i = 1
  <2>1. \A i \in Ids : media[i] # NoMedia <=> i <= ids
    BY <1>5, <1>6
  <2>2. \A i : i \in 1 .. ids <=> i \in Ids /\ i <= ids
    BY <1>3, <1>4 DEF Ids
  <2>3. \A i : i \in Rows <=> i \in Ids /\ i <= ids
    BY <2>1 DEF Rows
  <2>4. Rows = 1 .. ids
    BY <2>2, <2>3
  <2>5. \A i \in Rows : media[i] = old(i) /\ i \in Ids
    BY <1>6, <2>3
  <2>6. QED
    BY <1>5, <2>4, <2>5 DEF Images, Primaries
<1>8. \A i \in Rows : media[i].type = "image" /\ media[i].order = i /\ i \in Nat /\ i <= ids
  BY <1>4, <1>5, <1>6, <1>7 DEF Rows
<1>9. TypeOK
  <2>1. media \in [Ids -> M]
    <3>1. \A i \in Ids : media[i] \in M
      BY <1>5, <1>6
    <3>2. media = [i \in Ids |-> media[i]]
      BY <1>1
    <3>3. QED
      BY <3>1, <3>2
  <2>2. profile \in Profile
    BY <1>2, ColumnFacts
  <2>3. files \subseteq Ids
    BY <1>2, <1>3, <1>4 DEF Ids
  <2>4. req \in [Slots -> Request]
    BY <1>2, IdleFacts
  <2>5. work \in 0 .. MaxWork
    BY <1>2, <1>3
  <2>6. QED
    BY <1>2, <1>4, <2>1, <2>2, <2>3, <2>4, <2>5 DEF TypeOK
<1>10. \A s \in Slots : req[s] = Idle
  BY <1>2
<1>11. \A c \in Columns : profile[c] \notin Ids
  BY <1>2, ColumnFacts
<1>12. Shapes /\ PictureInv
  BY <1>10, IdleFacts DEF Shapes, PictureInv
<1>13. RowIds = 1 .. ids /\ PictureIds = {} /\ Pictures = {}
  BY <1>7, <1>10, <1>11, IdleFacts DEF RowIds, PictureIds, Pictures
<1>14. IdsApart /\ IdsUsed /\ ColumnsApart
  BY <1>2, <1>10, <1>11, <1>13, IdleFacts DEF IdsApart, IdsUsed, ColumnsApart, KnowsColumn
<1>15. FilesInv
  BY <1>2, <1>7, <1>10, <1>13, IdleFacts DEF FilesInv, RowsHaveFiles, HasStored, KnowsType
<1>16. OrphansInv
  BY <1>2, <1>7, <1>10, <1>13, IdleFacts DEF OrphansInv, KnowsPicture
<1>17. CoverInv /\ OrderInv
  BY <1>7, <1>10, IdleFacts DEF CoverInv, OrderInv
<1>18. RowsInv /\ Bounded
  BY <1>4, <1>8 DEF RowsInv, Bounded
<1>19. QED
  BY <1>9, <1>12, <1>14, <1>15, <1>16, <1>17, <1>18 DEF MediaInv

LEMMA NextFacts ==
    ASSUME MediaInv, Bounded, Next
    PROVE  MediaInv' /\ Bounded' /\ (profile # NoProfile => profile' # NoProfile)
<1>1. TypeOK /\ MaxWork \in Nat
  BY MediaAssumption DEF MediaInv
<1>2. ASSUME NEW r \in Slots, Die(r) PROVE MediaInv' /\ Bounded' /\ profile' = profile
  <2>1. work' \in 0 .. MaxWork /\ Fail(r) /\ files' = files
    BY <1>1, <1>2 DEF Die, TypeOK
  <2>2. QED
    BY <2>1, FailStep DEF Fail
<1>3. ASSUME NEW r \in Slots, StoreFails(r) PROVE MediaInv' /\ Bounded' /\ profile' = profile
  <2>1. work' \in 0 .. MaxWork /\ Fail(r) /\ files' \in {files, files \cup {req[r].id}}
    BY <1>1, <1>3 DEF StoreFails, TypeOK
  <2>2. req[r].op \in {"image", "picture"}
    BY <1>3, ShapeFacts DEF StoreFails, MediaInv, TypeOK, Shapes
  <2>3. Fresh(req[r]) = {req[r].id}
    BY <2>2 DEF Fresh
  <2>4. QED
    BY <2>1, <2>3, FailStep DEF Fail
<1>4. ASSUME NEW r \in Slots, FlushFails(r) \/ PatchFails(r) \/ ProfileConflicts(r)
      PROVE  MediaInv' /\ Bounded' /\ profile' = profile
  <2>1. work' \in 0 .. MaxWork /\ Fail(r) /\ files' = files
    BY <1>1, <1>4 DEF FlushFails, PatchFails, ProfileConflicts, TypeOK
  <2>2. QED
    BY <2>1, FailStep DEF Fail
<1>5. ASSUME NEW r \in Slots, UnlinkImage(r) \/ UnlinkOld(r)
      PROVE  MediaInv' /\ Bounded' /\ profile' = profile
  <2>1. req[r] \in Request /\ Shape(req[r])
    BY DEF MediaInv, TypeOK, Shapes
  <2>2. CASE UnlinkImage(r)
    <3>1. req[r].pc = "unlink" /\ Unlink(r, req[r].id, "remove")
      BY <2>2 DEF UnlinkImage
    <3>2. req[r].id \in Ids
      BY <2>1, <3>1, ShapeFacts DEF Shape
    <3>3. MediaInv' /\ Bounded'
      BY <3>1, <3>2, UnlinkStep
    <3>4. QED
      BY <3>1, <3>3 DEF Unlink
  <2>3. CASE UnlinkOld(r)
    <3> DEFINE f == req[r].profile[req[r].column]
               pc == IF req[r].op = "picture" THEN "store" ELSE "commit"
    <3>1. req[r].pc = "replace" /\ Unlink(r, f, pc)
      BY <2>3 DEF UnlinkOld
    <3>2. f \in Ids
      BY <2>1, <3>1 DEF Shape, Old
    <3>3. MediaInv' /\ Bounded'
      BY <3>1, <3>2, UnlinkStep
    <3>4. QED
      BY <3>1, <3>3 DEF Unlink
  <2>4. QED
    BY <1>5, <2>2, <2>3
<1>6. ASSUME NEW r \in Slots, CommitPicture(r)
      PROVE  MediaInv' /\ Bounded' /\ profile' # NoProfile
  <2>1. TypeOK'
    <3> DEFINE q == req[r]
    <3>1. q \in Request /\ profile \in Profile /\ req' = [req EXCEPT ![r] = Idle]
      BY <1>1, <1>6 DEF TypeOK, CommitPicture, Finish
    <3>2. profile' = [c \in Columns |-> IF c = q.column THEN q.id
                                        ELSE IF profile[c] \in Ids THEN profile[c] ELSE NoFile]
      BY <1>6 DEF CommitPicture
    <3>3. q.id \in 0 .. MaxIds /\ NoFile \in 0 .. MaxIds /\ Ids \subseteq 0 .. MaxIds
      BY <3>1, MediaAssumption DEF Request, NoFile, Ids
    <3>4. profile' \in Profile
      BY <3>2, <3>3 DEF Profile
    <3>5. req' \in [Slots -> Request]
      BY <1>1, <3>1, IdleFacts DEF TypeOK
    <3>6. UNCHANGED <<media, files, ids, work, raced, failed, abandoned, deleted>>
      BY <1>6 DEF CommitPicture, History
    <3>7. QED
      BY <1>1, <3>4, <3>5, <3>6 DEF TypeOK
  <2>2. QED
    BY <1>6, <2>1, CommitPictureStep
<1>7. ASSUME NEW r \in Slots,
             \/ BeginImage(r) \/ BeginVideo(r) \/ BeginDelete(r) \/ BeginPatch(r)
             \/ BeginPicture(r) \/ BeginNoPicture(r) \/ Flush(r) \/ SelectPrimary(r)
             \/ Insert(r) \/ Remove(r) \/ CommitPatch(r)
             \/ Store(r, IF req[r].op = "image" THEN "flush" ELSE "commit")
      PROVE  MediaInv' /\ Bounded' /\ profile' = profile
  <2>1. MediaInv' /\ Bounded'
    BY <1>7, BeginImageStep, BeginVideoStep, BeginDeleteStep, BeginPatchStep,
       BeginPictureStep, BeginNoPictureStep, FlushStep, SelectPrimaryStep,
       InsertStep, RemoveStep, CommitPatchStep, StoreStep
  <2>2. profile' = profile
    BY <1>7 DEF BeginImage, BeginVideo, BeginDelete, BeginPatch, BeginPicture, BeginNoPicture,
       Begin, Flush, SelectPrimary, Insert, Remove, CommitPatch, Store
  <2>3. QED
    BY <2>1, <2>2
<1>8. PICK r \in Slots :
        \/ BeginImage(r) \/ Flush(r) \/ FlushFails(r)
        \/ BeginVideo(r) \/ Insert(r)
        \/ BeginDelete(r) \/ UnlinkImage(r) \/ Remove(r)
        \/ BeginPatch(r) \/ SelectPrimary(r) \/ CommitPatch(r) \/ PatchFails(r)
        \/ BeginPicture(r) \/ BeginNoPicture(r) \/ UnlinkOld(r)
        \/ CommitPicture(r) \/ ProfileConflicts(r)
        \/ Store(r, IF req[r].op = "image" THEN "flush" ELSE "commit")
        \/ StoreFails(r) \/ Die(r)
  BY DEF Next
<1>9. QED
  BY <1>2, <1>3, <1>4, <1>5, <1>6, <1>7, <1>8
-----------------------------------------------------------------------------
(* What a step of Media does to covers, positions and pictures. *)

LEMMA SameRows ==
    ASSUME media' = media
    PROVE  Rows' = Rows /\ Primaries' = Primaries
BY DEF Rows, Primaries

\* Only three actions write rows of media.
LEMMA WritersOnly ==
    ASSUME Next, media' # media
    PROVE  \E r \in Slots : Insert(r) \/ Remove(r) \/ CommitPatch(r)
<1>1. PICK r \in Slots :
        \/ BeginImage(r) \/ Flush(r) \/ FlushFails(r)
        \/ BeginVideo(r) \/ Insert(r)
        \/ BeginDelete(r) \/ UnlinkImage(r) \/ Remove(r)
        \/ BeginPatch(r) \/ SelectPrimary(r) \/ CommitPatch(r) \/ PatchFails(r)
        \/ BeginPicture(r) \/ BeginNoPicture(r) \/ UnlinkOld(r)
        \/ CommitPicture(r) \/ ProfileConflicts(r)
        \/ Store(r, IF req[r].op = "image" THEN "flush" ELSE "commit")
        \/ StoreFails(r) \/ Die(r)
  BY DEF Next
<1>2. BeginImage(r) \/ BeginVideo(r) \/ BeginPicture(r) => media' = media
  BY DEF BeginImage, BeginVideo, BeginPicture, Begin
<1>3. BeginDelete(r) \/ BeginPatch(r) \/ BeginNoPicture(r) => media' = media
  BY DEF BeginDelete, BeginPatch, BeginNoPicture, Begin
<1>4. FlushFails(r) \/ PatchFails(r) \/ ProfileConflicts(r) \/ StoreFails(r) \/ Die(r) =>
        media' = media
  BY DEF FlushFails, PatchFails, ProfileConflicts, StoreFails, Die, Fail
<1>5. Flush(r) \/ SelectPrimary(r) \/ CommitPicture(r) \/ UnlinkImage(r) \/ UnlinkOld(r) =>
        media' = media
  BY DEF Flush, SelectPrimary, CommitPicture, UnlinkImage, UnlinkOld, Unlink
<1>6. Store(r, IF req[r].op = "image" THEN "flush" ELSE "commit") => media' = media
  BY DEF Store
<1>7. QED
  BY <1>1, <1>2, <1>3, <1>4, <1>5, <1>6

\* The property of a step that CoverKept asks of every one.
KeptStep ==
    /\ "cover" \notin raced =>
         /\ Cardinality(Primaries') <= 1
         /\ Primaries # {} =>
              Primaries' # {} \/ \E i \in Primaries : media'[i] = NoMedia
    /\ "order" \notin raced =>
         \A i \in Rows' \ Rows, j \in Rows : media[j].order < media'[i].order

LEMMA AtMostOne ==
    ASSUME NEW S, \A i, j \in S : i = j
    PROVE  Cardinality(S) <= 1
<1>1. CASE S = {}
  BY <1>1, FS_EmptySet
<1>2. CASE S # {}
  <2>1. PICK x \in S : TRUE
    BY <1>2
  <2>2. S = {x}
    BY <2>1
  <2>3. QED
    BY <2>2, FS_Singleton
<1>3. QED
  BY <1>1, <1>2

LEMMA KeptIfSame ==
    ASSUME MediaInv, media' = media
    PROVE  KeptStep
<1>1. Rows' = Rows /\ Primaries' = Primaries
  BY SameRows
<1>2. "cover" \notin raced => Cardinality(Primaries) <= 1
  BY AtMostOne DEF MediaInv, CoverInv
<1>3. QED
  BY <1>1, <1>2 DEF KeptStep

LEMMA KeptIfWritten ==
    ASSUME MediaInv, MediaInv', NEW r \in Slots, Insert(r) \/ Remove(r) \/ CommitPatch(r)
    PROVE  KeptStep
<1> DEFINE t == req[r]
<1>1. raced' = raced
  BY DEF Insert, Remove, CommitPatch
<1>2. "cover" \notin raced => Cardinality(Primaries') <= 1
  <2>1. "cover" \notin raced => \A i, j \in Primaries' : i = j
    BY <1>1 DEF MediaInv, CoverInv
  <2>2. QED
    BY <2>1, AtMostOne
<1>3. ASSUME "cover" \notin raced, Primaries # {}
      PROVE  Primaries' # {} \/ \E i \in Primaries : media'[i] = NoMedia
  <2>1. SetsCover(t) => KnowsCover(t, Primaries)
    BY <1>3 DEF MediaInv, CoverInv
  <2>2. CASE Insert(r)
    <3>1. /\ t \in Request /\ Shape(t)
          /\ Primaries' = (Primaries \ t.seen) \cup (IF t.is_primary THEN {t.id} ELSE {})
      BY <2>2, InsertFacts
    <3>2. ~t.is_primary => t.seen = {}
      BY <3>1 DEF Shape
    <3>3. QED
      BY <1>3, <3>1, <3>2
  <2>3. CASE Remove(r)
    <3>1. Primaries' = Primaries \ {t.id} /\ media'[t.id] = NoMedia
      BY <2>3, RemoveFacts
    <3>2. QED
      BY <1>3, <3>1
  <2>4. CASE CommitPatch(r)
    <3>1. /\ t \in Request /\ Shape(t) /\ t.pc = "write" /\ t.op = "patch"
          /\ Primaries' = (Primaries \ t.seen) \cup (IF Becomes(t) THEN {t.id} ELSE {})
      BY <2>4, CommitPatchFacts
    <3>2. ~Becomes(t) => t.seen = {}
      BY <2>1, <3>1 DEF Shape, Becomes, SetsCover, KnowsCover
    <3>3. QED
      BY <1>3, <3>1, <3>2
  <2>5. QED
    BY <2>2, <2>3, <2>4
<1>4. ASSUME "order" \notin raced, NEW i \in Rows' \ Rows, NEW j \in Rows
      PROVE  media[j].order < media'[i].order
  <2>1. CASE Insert(r)
    <3>1. /\ t.pc = "insert" /\ Rows' = Rows \cup {t.id}
          /\ media'[t.id] = [type |-> t.op, is_primary |-> t.is_primary, order |-> t.order]
      BY <2>1, InsertFacts
    <3>2. i = t.id /\ media'[i].order = t.order
      BY <1>4, <3>1
    <3>3. Below(media, t.order)
      BY <1>4, <3>1 DEF MediaInv, OrderInv
    <3>4. QED
      BY <3>2, <3>3 DEF Below, Rows
  <2>2. CASE Remove(r) \/ CommitPatch(r)
    <3>1. Rows' \subseteq Rows
      BY <2>2, RemoveFacts, CommitPatchFacts
    <3>2. QED
      BY <1>4, <3>1
  <2>3. QED
    BY <2>1, <2>2
<1>5. QED
  BY <1>2, <1>3, <1>4 DEF KeptStep
-----------------------------------------------------------------------------
(* Edits: facts about one request. *)

EditRequest ==
    [op : {"none", "profile", "account", "preferences", "follow", "unfollow"},
     pc : {"idle", "failed", "user", "row"}, who : People,
     username : {Keep} \cup Names, email : {Keep} \cup Names,
     bio : {Keep} \cup Texts, theme : {Keep} \cup Texts,
     had : BOOLEAN, copy : {Keep} \cup Texts]

LEMMA EditTypes ==
    ASSUME ProfilesTypeOK
    PROVE  /\ TypeOK /\ row \in [People -> [UserColumns -> Names]]
           /\ bio \in {Keep} \cup Texts /\ (profile = NoProfile => bio = Keep)
           /\ theme \in {NoRow} \cup Texts /\ follows \in BOOLEAN
           /\ edit \in [Edits -> EditRequest] /\ \A e \in Edits : edit[e] \in EditRequest
           /\ entry \in {Nobody} \cup Edits \cup Slots /\ clashed \in BOOLEAN
BY DEF ProfilesTypeOK, EditRequest

LEMMA NoEditFacts ==
    /\ \A pc \in {"idle", "failed"} :
         LET q == [NoEdit EXCEPT !.pc = pc]
         IN /\ q \in EditRequest /\ q.op = "none" /\ q.pc = pc /\ q.username = Keep
            /\ q.email = Keep /\ q.bio = Keep /\ q.theme = Keep
            /\ EditShape(q)
    /\ NoEdit \in EditRequest /\ NoEdit.op = "none" /\ NoEdit.pc = "idle"
    /\ NoEdit.username = Keep /\ NoEdit.email = Keep /\ NoEdit.bio = Keep
    /\ NoEdit.theme = Keep /\ EditShape(NoEdit)
<1>1. ASSUME NEW pc \in {"idle", "failed"}
      PROVE  LET q == [NoEdit EXCEPT !.pc = pc]
             IN /\ q \in EditRequest /\ q.op = "none" /\ q.pc = pc /\ q.username = Keep
                /\ q.email = Keep /\ q.bio = Keep /\ q.theme = Keep
                /\ EditShape(q)
  <2> DEFINE q == [NoEdit EXCEPT !.pc = pc]
  <2>1. /\ q.op = "none" /\ q.pc = pc /\ q.username = Keep
        /\ q.email = Keep /\ q.bio = Keep /\ q.theme = Keep
    BY DEF NoEdit
  <2>2. q \in EditRequest
    BY DEF NoEdit, EditRequest, People
  <2> HIDE DEF q
  <2>3. EditShape(q)
    BY <2>1 DEF EditShape
  <2>4. QED
    BY <2>1, <2>2, <2>3 DEF q
<1>2. /\ NoEdit.op = "none" /\ NoEdit.pc = "idle" /\ NoEdit.username = Keep
      /\ NoEdit.email = Keep /\ NoEdit.bio = Keep /\ NoEdit.theme = Keep
  BY DEF NoEdit
<1>3. NoEdit \in EditRequest
  BY DEF NoEdit, EditRequest, People
<1>4. EditShape(NoEdit)
  BY <1>2 DEF EditShape
<1>5. QED
  BY <1>1, <1>2, <1>3, <1>4

LEMMA ClashFacts ==
    ASSUME NEW q, NEW o
    PROVE  /\ Clash(q, o) <=> Clash(o, q)
           /\ q.username = Keep /\ q.email = Keep /\ q.bio = Keep /\ q.theme = Keep =>
                ~Clash(q, o)
BY DEF Clash

\* Only who changes a profile holds a lock on the user's row.
LEMMA RenamingFacts ==
    ASSUME UserInv
    PROVE  /\ Renaming("other") = {}
           /\ \A p \in People : Renaming(p) \subseteq Renaming("owner")
           /\ \A e \in Renaming("owner") :
                /\ e \in Edits /\ edit[e].op = "profile" /\ edit[e].pc = "row"
                /\ edit[e].username # Keep /\ edit[e].who = "owner"
                /\ Renaming("owner") = {e}
<1>1. Renaming("other") = {} /\ \A e, o \in Renaming("owner") : e = o
  BY DEF UserInv, RenamingInv
<1>2. \A p \in People : Renaming(p) \subseteq Renaming("owner")
  BY <1>1 DEF People
<1>3. \A e \in Edits : edit[e] \in EditRequest /\ EditShape(edit[e])
  BY EditTypes DEF UserInv, EditInv
<1>4. ASSUME NEW e \in Renaming("owner")
      PROVE  /\ e \in Edits /\ edit[e].op = "profile" /\ edit[e].pc = "row"
             /\ edit[e].username # Keep /\ edit[e].who = "owner"
             /\ Renaming("owner") = {e}
  <2>1. e \in Edits /\ edit[e].pc = "row" /\ edit[e].username # Keep /\ edit[e].who = "owner"
    BY DEF Renaming
  <2>2. edit[e].op = "profile"
    BY <1>3, <2>1 DEF EditRequest, EditShape
  <2>3. Renaming("owner") = {e}
    BY <1>1
  <2>4. QED
    BY <2>1, <2>2, <2>3
<1>5. QED
  BY <1>1, <1>2, <1>4

LEMMA WaitsFacts ==
    ASSUME UserInv, NEW x \in Edits \cup Slots
    PROVE  /\ InsertsProfile(x) =>
                Waits(x) = IF entry \notin {Nobody, x} THEN {entry} ELSE Renaming("owner") \ {x}
           /\ ~InsertsProfile(x) => Waits(x) \subseteq Renaming("owner")
           /\ ~InsertsProfile(x) /\ Waits(x) # {} =>
                x \in Edits /\ x \notin Renaming("owner")
<1>1. InsertsProfile(x) =>
        Waits(x) = IF entry \notin {Nobody, x} THEN {entry} ELSE Renaming("owner") \ {x}
  <2>1. CASE x \in Edits
    <3>1. InsertsProfile(x) =>
            /\ ~(x \in Edits /\ edit[x].pc = "user")
            /\ ~(x \in Edits /\ edit[x].op = "preferences")
            /\ ~(x \in Edits /\ edit[x].op = "follow")
      BY <2>1 DEF InsertsProfile
    <3>2. QED
      BY <3>1 DEF Waits
  <2>2. CASE x \notin Edits
    BY <2>2 DEF Waits
  <2>3. QED
    BY <2>1, <2>2
<1>2. ASSUME ~InsertsProfile(x)
      PROVE  /\ Waits(x) \subseteq Renaming("owner")
             /\ Waits(x) # {} => x \in Edits /\ x \notin Renaming("owner")
  <2>1. CASE x \notin Edits
    BY <1>2, <2>1 DEF Waits
  <2>2. CASE x \in Edits
    <3>1. edit[x] \in EditRequest /\ EditShape(edit[x])
      BY <2>2, EditTypes DEF UserInv, EditInv
    <3>2. CASE edit[x].pc = "user"
      <4>1. ~(edit[x].op = "preferences") /\ ~(edit[x].op = "follow")
        BY <3>1, <3>2 DEF EditShape
      <4>2. Waits(x) = Renaming(edit[x].who)
               \cup {e \in Edits : /\ edit[x].username # Keep
                                   /\ Renaming(edit[e].who) = {e}
                                   /\ edit[e].username = edit[x].username}
        BY <1>2, <2>2, <3>2, <4>1 DEF Waits
      <4>3. \A e \in Edits : edit[e].who \in People
        BY EditTypes DEF UserInv, EditRequest
      <4>4. Waits(x) \subseteq Renaming("owner")
        <5>1. Renaming(edit[x].who) \subseteq Renaming("owner")
          BY <2>2, <4>3, RenamingFacts
        <5>2. \A e \in Edits : Renaming(edit[e].who) = {e} => e \in Renaming("owner")
          BY <4>3, RenamingFacts
        <5>3. QED
          BY <4>2, <5>1, <5>2
      <4>5. x \notin Renaming("owner")
        BY <3>2 DEF Renaming
      <4>6. QED
        BY <2>2, <4>4, <4>5
    <3>3. CASE edit[x].op \in {"preferences", "follow"}
      <4>1. edit[x].pc = "row" /\ edit[x].username = Keep
        BY <3>1, <3>3 DEF EditShape
      <4>2. x \notin Renaming("owner")
        BY <4>1 DEF Renaming
      <4>3. Waits(x) \subseteq Renaming("owner") \cup Renaming("other")
        <5>1. CASE edit[x].op = "preferences"
          <6>1. Waits(x) = IF edit[x].had THEN {} ELSE Renaming("owner")
            BY <1>2, <2>2, <4>1, <5>1 DEF Waits
          <6>2. QED
            BY <6>1
        <5>2. CASE edit[x].op = "follow"
          <6>1. Waits(x) = Renaming("owner") \cup Renaming("other")
            BY <1>2, <2>2, <4>1, <5>2 DEF Waits
          <6>2. QED
            BY <6>1
        <5>3. QED
          BY <3>3, <5>1, <5>2
      <4>4. QED
        BY <2>2, <4>2, <4>3, RenamingFacts
    <3>4. CASE edit[x].pc # "user" /\ edit[x].op \notin {"preferences", "follow"}
      BY <1>2, <3>4 DEF Waits
    <3>5. QED
      BY <3>2, <3>3, <3>4
  <2>3. QED
    BY <2>1, <2>2
<1>3. QED
  BY <1>1, <1>2

\* Everyone of a circle is waited for and waits: who is not the one inside its
\* INSERT holds the user's row.
LEMMA CirclesNeedFirstProfile == UserInv => DeadlockNeedsFirstProfile
<1> SUFFICES ASSUME UserInv, NEW x \in Edits \cup Slots, InCycle(x)
             PROVE  /\ profile = NoProfile
                    /\ \E e \in Renaming("owner") : InsertsProfile(e) /\ entry \notin {Nobody, e}
  BY DEF DeadlockNeedsFirstProfile
<1>1. PICK S \in SUBSET {y \in Edits \cup Slots : Waits(y) # {}} :
        /\ x \in S
        /\ \A y \in S : Waits(y) \cap S # {} /\ \E z \in S : y \in Waits(z)
  BY DEF InCycle
<1>2. \A y \in S : y \in Edits \cup Slots /\ Waits(y) # {}
  OBVIOUS
<1>3. ASSUME NEW y \in S PROVE y = entry \/ y \in Renaming("owner")
  <2>1. PICK z \in S : y \in Waits(z)
    BY <1>1
  <2>2. z \in Edits \cup Slots
    BY <1>2
  <2>3. CASE InsertsProfile(z)
    <3>1. Waits(z) = IF entry \notin {Nobody, z} THEN {entry} ELSE Renaming("owner") \ {z}
      BY <2>2, <2>3, WaitsFacts
    <3>2. QED
      BY <2>1, <3>1
  <2>4. CASE ~InsertsProfile(z)
    BY <2>1, <2>2, <2>4, WaitsFacts
  <2>5. QED
    BY <2>3, <2>4
<1>4. PICK e \in S : e \in Renaming("owner")
  <2> SUFFICES ASSUME \A y \in S : y \notin Renaming("owner") PROVE FALSE
    OBVIOUS
  <2>1. \A y \in S : y = entry
    BY <1>3
  <2>2. x = entry /\ x \in Waits(x)
    BY <1>1, <2>1
  <2>3. CASE InsertsProfile(x)
    BY <2>2, <2>3, WaitsFacts
  <2>4. CASE ~InsertsProfile(x)
    BY <1>1, <2>2, <2>4, WaitsFacts
  <2>5. QED
    BY <2>3, <2>4
<1>5. InsertsProfile(e)
  BY <1>2, <1>4, WaitsFacts
<1>6. entry \notin {Nobody, e}
  <2>1. Renaming("owner") = {e}
    BY <1>4, RenamingFacts
  <2>2. QED
    BY <1>2, <1>5, <2>1, WaitsFacts
<1>7. profile = NoProfile
  BY <1>6 DEF UserInv, RenamingInv
<1>8. QED
  BY <1>4, <1>5, <1>6, <1>7
-----------------------------------------------------------------------------
(* One step of an edit. *)

\* The request of e becomes another one, and may have written rows.
LEMMA EditChanges ==
    ASSUME UserInv, TypeOK', NEW e \in Edits,
           edit' \in [Edits -> EditRequest], \A o \in Edits \ {e} : edit'[o] = edit[o],
           EditShape(edit'[e]),
           row' \in [People -> [UserColumns -> Names]], bio' \in {Keep} \cup Texts,
           theme' \in {NoRow} \cup Texts, follows' \in BOOLEAN,
           entry' \in {Nobody} \cup Edits \cup Slots, clashed' \in BOOLEAN,
           profile' = NoProfile => bio' = Keep,
           profile # NoProfile => profile' # NoProfile, theme # NoRow => theme' # NoRow,
           clashed => clashed',
           ~clashed' => \A o \in Edits \ {e} :
             /\ ~Clash(edit'[e], edit[o])
             /\ edit[o].op = "profile" /\ edit[o].bio # Keep => bio' = bio
             /\ edit[o].op = "preferences" /\ edit[o].had => theme' = theme,
           edit'[e].op = "profile" /\ edit'[e].had =>
             /\ profile' # NoProfile
             /\ edit'[e].bio # Keep /\ ~clashed' => edit'[e].copy = bio',
           edit'[e].op = "preferences" /\ edit'[e].had =>
             theme' # NoRow /\ (~clashed' => edit'[e].copy = theme'),
           edit'[e].pc = "row" /\ edit'[e].username # Keep =>
             Renaming("owner") \subseteq {e} /\ row'["other"].username # edit'[e].username,
           \A o \in Renaming("owner") \ {e} : row'["other"].username # edit[o].username,
           entry' # Nobody => profile' = NoProfile,
           NamesUnique'
    PROVE  UserInv'
<1>1. ProfilesTypeOK'
  BY DEF ProfilesTypeOK, EditRequest
<1>2. /\ \A o \in Edits : EditShape(edit[o])
      /\ ~clashed => \A o, p \in Edits : o # p => ~Clash(edit[o], edit[p])
      /\ \A o \in Edits :
           /\ edit[o].op = "profile" /\ edit[o].had => profile # NoProfile
           /\ edit[o].op = "preferences" /\ edit[o].had => theme # NoRow
           /\ edit[o].op = "profile" /\ edit[o].had /\ edit[o].bio # Keep /\ ~clashed =>
                edit[o].copy = bio
           /\ edit[o].op = "preferences" /\ edit[o].had /\ ~clashed => edit[o].copy = theme
  BY DEF UserInv, EditInv
<1>3. EditInv'
  <2>1. \A o \in Edits : EditShape(edit'[o])
    BY <1>2
  <2>2. ~clashed' => \A o, p \in Edits : o # p => ~Clash(edit'[o], edit'[p])
    <3> SUFFICES ASSUME ~clashed', NEW o \in Edits, NEW p \in Edits, o # p
                 PROVE  ~Clash(edit'[o], edit'[p])
      OBVIOUS
    <3>1. CASE o = e
      BY <3>1
    <3>2. CASE p = e
      BY <3>2, ClashFacts
    <3>3. CASE o # e /\ p # e
      BY <1>2, <3>3
    <3>4. QED
      BY <3>1, <3>2, <3>3
  <2>3. ASSUME NEW o \in Edits
        PROVE  /\ edit'[o].op = "profile" /\ edit'[o].had => profile' # NoProfile
               /\ edit'[o].op = "preferences" /\ edit'[o].had => theme' # NoRow
               /\ edit'[o].op = "profile" /\ edit'[o].had /\ edit'[o].bio # Keep /\ ~clashed' =>
                    edit'[o].copy = bio'
               /\ edit'[o].op = "preferences" /\ edit'[o].had /\ ~clashed' =>
                    edit'[o].copy = theme'
    <3>1. CASE o = e
      BY <3>1
    <3>2. CASE o # e
      BY <1>2, <3>2
    <3>3. QED
      BY <3>1, <3>2
  <2>4. \A o \in Edits : EditShape(edit[o])' <=> EditShape(edit'[o])
    BY DEF EditShape
  <2>5. \A o, p \in Edits : Clash(edit[o], edit[p])' <=> Clash(edit'[o], edit'[p])
    BY DEF Clash
  <2>6. QED
    BY <2>1, <2>2, <2>3, <2>4, <2>5 DEF EditInv
<1>4. RenamingInv'
  <2>1. \A o \in Edits : edit'[o] \in EditRequest /\ EditShape(edit'[o])
    BY <1>2
  <2>2. Renaming("other")' = {}
    <3> SUFFICES ASSUME NEW o \in Edits, edit'[o].pc = "row", edit'[o].username # Keep,
                        edit'[o].who = "other"
                 PROVE  FALSE
      BY DEF Renaming
    <3>1. edit'[o].op = "profile"
      BY <2>1 DEF EditRequest, EditShape
    <3>2. edit'[o].who = "owner"
      BY <2>1, <3>1 DEF EditShape
    <3>3. QED
      BY <3>2
  <2>3. \A o \in Renaming("owner")' : o \in Edits /\ (o # e => o \in Renaming("owner"))
    BY DEF Renaming
  <2>4. e \in Renaming("owner")' =>
          Renaming("owner") \subseteq {e} /\ row'["other"].username # edit'[e].username
    BY DEF Renaming
  <2>5. \A o, p \in Renaming("owner") : o = p
    BY DEF UserInv, RenamingInv
  <2>6. \A o, p \in Renaming("owner")' : o = p
    BY <2>3, <2>4, <2>5
  <2>7. \A o \in Renaming("owner")' : row'["other"].username # edit'[o].username
    BY <2>3, <2>4
  <2>8. QED
    BY <2>2, <2>6, <2>7 DEF RenamingInv
<1>5. QED
  BY <1>1, <1>3, <1>4 DEF UserInv

\* No request of Profiles changes.
LEMMA EditsStay ==
    ASSUME UserInv, TypeOK', UNCHANGED <<row, bio, theme, follows, edit, clashed>>,
           entry' \in {Nobody} \cup Edits \cup Slots,
           profile # NoProfile => profile' # NoProfile, entry' # Nobody => profile' = NoProfile
    PROVE  UserInv'
<1>1. ProfilesTypeOK'
  BY DEF UserInv, ProfilesTypeOK
<1>2. EditInv'
  BY DEF UserInv, EditInv, EditShape, Clash
<1>3. RenamingInv'
  BY DEF UserInv, RenamingInv, Renaming, NamesUnique
<1>4. QED
  BY <1>1, <1>2, <1>3 DEF UserInv

\* The request of e ends, whatever rows it has written.
LEMMA EndStep ==
    ASSUME UserInv, TypeOK', NEW e \in Edits, NEW pc \in {"idle", "failed"}, End(e, pc),
           row' \in [People -> [UserColumns -> Names]], bio' \in {Keep} \cup Texts,
           theme' \in {NoRow} \cup Texts, follows' \in BOOLEAN,
           profile' = NoProfile => bio' = Keep,
           profile # NoProfile => profile' # NoProfile, theme # NoRow => theme' # NoRow,
           ~clashed => \A o \in Edits \ {e} :
             /\ edit[o].op = "profile" /\ edit[o].bio # Keep => bio' = bio
             /\ edit[o].op = "preferences" /\ edit[o].had => theme' = theme,
           \A o \in Renaming("owner") \ {e} : row'["other"].username # edit[o].username,
           entry \notin {Nobody, e} => profile' = NoProfile,
           NamesUnique'
    PROVE  UserInv'
<1> DEFINE q == [NoEdit EXCEPT !.pc = pc]
<1>1. /\ edit' = [edit EXCEPT ![e] = q] /\ entry' = IF entry = e THEN Nobody ELSE entry
      /\ clashed' = clashed
  BY DEF End
<1>2. /\ q \in EditRequest /\ q.op = "none" /\ q.pc = pc /\ q.username = Keep
      /\ q.email = Keep /\ q.bio = Keep /\ q.theme = Keep
      /\ EditShape(q)
  BY NoEditFacts
<1> HIDE DEF q
<1>3. /\ edit \in [Edits -> EditRequest] /\ entry \in {Nobody} \cup Edits \cup Slots
      /\ clashed \in BOOLEAN
  BY EditTypes DEF UserInv
<1>4. /\ edit' \in [Edits -> EditRequest] /\ edit'[e] = q
      /\ \A o \in Edits \ {e} : edit'[o] = edit[o]
  BY <1>1, <1>2, <1>3
<1>5. entry' \in {Nobody} \cup Edits \cup Slots /\ (entry' # Nobody => profile' = NoProfile)
  BY <1>1, <1>3
<1>6. \A o : ~Clash(q, o)
  BY <1>2, ClashFacts
<1>7. q.pc # "row" /\ q.op \notin {"profile", "preferences"}
  BY <1>2
<1>8. clashed' \in BOOLEAN /\ (clashed => clashed') /\ (~clashed' => ~clashed)
  BY <1>1, <1>3
<1>9. QED
  BY <1>2, <1>4, <1>5, <1>6, <1>7, <1>8, EditChanges
LEMMA StartStep ==
    ASSUME MediaInv, Bounded, UserInv, NEW e \in Edits, NEW q \in EditRequest, Start(e, q),
           EditShape(q), ~(q.pc = "row" /\ q.username # Keep),
           q.op = "profile" /\ q.had => profile # NoProfile /\ q.copy = bio,
           q.op = "preferences" /\ q.had => theme # NoRow /\ q.copy = theme
    PROVE  MediaInv' /\ Bounded' /\ UserInv'
<1>1. /\ work < MaxWork /\ work' = work + 1 /\ edit' = [edit EXCEPT ![e] = q]
      /\ clashed' = (clashed \/ \E o \in Edits \ {e} : Clash(q, edit[o]))
      /\ UNCHANGED <<media, profile, files, ids, req, raced, failed, abandoned, deleted,
                     row, bio, theme, follows, entry>>
  BY DEF Start, History
<1>2. TypeOK'
  BY <1>1, IdsFacts DEF MediaInv, TypeOK
<1>3. MediaInv' /\ Bounded'
  BY <1>1, <1>2, ProfileStep
<1>4. /\ edit \in [Edits -> EditRequest] /\ entry \in {Nobody} \cup Edits \cup Slots
      /\ row \in [People -> [UserColumns -> Names]]
      /\ bio \in {Keep} \cup Texts /\ (profile = NoProfile => bio = Keep)
      /\ theme \in {NoRow} \cup Texts /\ follows \in BOOLEAN
      /\ clashed \in BOOLEAN
  BY EditTypes DEF UserInv
<1>5. /\ edit' \in [Edits -> EditRequest] /\ edit'[e] = q
      /\ \A o \in Edits \ {e} : edit'[o] = edit[o]
  BY <1>1, <1>4
<1>6. clashed' \in BOOLEAN /\ (clashed => clashed')
  BY <1>1, <1>4
<1>7. ~clashed' => \A o \in Edits \ {e} : ~Clash(q, edit[o])
  BY <1>1
<1>8. /\ \A o \in Renaming("owner") : row["other"].username # edit[o].username
      /\ entry # Nobody => profile = NoProfile
      /\ NamesUnique
  BY DEF UserInv, RenamingInv
<1>9. NamesUnique'
  BY <1>1, <1>8 DEF NamesUnique
<1>10. UserInv'
  BY <1>1, <1>2, <1>4, <1>5, <1>6, <1>7, <1>8, <1>9, EditChanges
<1>11. QED
  BY <1>3, <1>10

LEMMA TextFacts ==
    /\ Keep = 0 /\ NoRow = 0 /\ Keep \notin Names /\ Keep \notin Texts
    /\ DefaultTheme \in Texts /\ People = {"owner", "other"}
    /\ UserColumns = {"username", "email"}
BY DEF Keep, NoRow, Names, Texts, DefaultTheme, People, UserColumns

LEMMA BeginEditStep ==
    ASSUME MediaInv, Bounded, UserInv, NEW e \in Edits,
           \/ BeginProfile(e) \/ BeginAccount(e) \/ BeginPreferences(e)
           \/ BeginFollow(e) \/ BeginUnfollow(e)
    PROVE  MediaInv' /\ Bounded' /\ UserInv'
<1>1. ProfilesTypeOK
  BY DEF UserInv
<1>2. CASE BeginProfile(e)
  <2>1. PICK p \in People, n \in {Keep} \cup Names, b \in {Keep} \cup Texts :
          LET q == [NoEdit EXCEPT !.op = "profile", !.who = p, !.username = n, !.bio = b,
                                  !.had = profile # NoProfile, !.copy = bio,
                                  !.pc = IF n = Keep THEN "row" ELSE "user"]
          IN /\ n # Keep \/ b # Keep
             /\ b # Keep => p = "owner"
             /\ n # row[p].username
             /\ ~Taken(q)
             /\ Start(e, q)
    BY <1>2 DEF BeginProfile
  <2> DEFINE q == [NoEdit EXCEPT !.op = "profile", !.who = p, !.username = n, !.bio = b,
                                 !.had = profile # NoProfile, !.copy = bio,
                                 !.pc = IF n = Keep THEN "row" ELSE "user"]
  <2>2. /\ n # Keep \/ b # Keep
        /\ b # Keep => p = "owner"
        /\ Start(e, q)
    BY <2>1
  <2>3. /\ q.op = "profile" /\ q.who = p /\ q.username = n /\ q.bio = b /\ q.email = Keep
        /\ q.theme = Keep /\ q.had = (profile # NoProfile) /\ q.copy = bio
        /\ q.pc = IF n = Keep THEN "row" ELSE "user"
    BY DEF NoEdit
  <2>4. q \in EditRequest
    <3>1. bio \in {Keep} \cup Texts /\ (profile # NoProfile) \in BOOLEAN
      BY <1>1, EditTypes
    <3>2. QED
      BY <3>1 DEF NoEdit, EditRequest
  <2> HIDE DEF q
  <2>5. EditShape(q)
    BY <2>2, <2>3 DEF EditShape
  <2>6. QED
    BY <2>2, <2>3, <2>4, <2>5, StartStep
<1>3. CASE BeginAccount(e)
  <2>1. PICK p \in People, m \in Names :
          Start(e, [NoEdit EXCEPT !.op = "account", !.who = p, !.email = m, !.pc = "user"])
    BY <1>3 DEF BeginAccount
  <2> DEFINE q == [NoEdit EXCEPT !.op = "account", !.who = p, !.email = m, !.pc = "user"]
  <2>2. /\ q.op = "account" /\ q.who = p /\ q.email = m /\ q.pc = "user"
        /\ q.username = Keep /\ q.bio = Keep /\ q.theme = Keep
    BY DEF NoEdit
  <2>3. q \in EditRequest
    BY DEF NoEdit, EditRequest
  <2>4. Start(e, q)
    BY <2>1
  <2> HIDE DEF q
  <2>5. EditShape(q)
    BY <2>2 DEF EditShape
  <2>6. QED
    BY <2>2, <2>3, <2>4, <2>5, StartStep
<1>4. CASE BeginPreferences(e)
  <2>1. PICK t \in {Keep} \cup Texts :
          /\ theme = NoRow \/ t # Keep
          /\ Start(e, [NoEdit EXCEPT !.op = "preferences", !.theme = t, !.pc = "row",
                                     !.had = theme # NoRow, !.copy = theme])
    BY <1>4 DEF BeginPreferences
  <2> DEFINE q == [NoEdit EXCEPT !.op = "preferences", !.theme = t, !.pc = "row",
                                 !.had = theme # NoRow, !.copy = theme]
  <2>2. /\ q.op = "preferences" /\ q.who = "owner" /\ q.pc = "row" /\ q.theme = t
        /\ q.username = Keep /\ q.email = Keep /\ q.bio = Keep
        /\ q.had = (theme # NoRow) /\ q.copy = theme
    BY DEF NoEdit
  <2>3. q \in EditRequest
    <3>1. theme \in {Keep} \cup Texts /\ (theme # NoRow) \in BOOLEAN
      BY <1>1, EditTypes, TextFacts
    <3>2. QED
      BY <3>1 DEF NoEdit, EditRequest, People
  <2>4. Start(e, q) /\ (theme = NoRow \/ t # Keep)
    BY <2>1
  <2> HIDE DEF q
  <2>5. EditShape(q)
    BY <2>2, <2>4 DEF EditShape
  <2>6. QED
    BY <2>2, <2>3, <2>4, <2>5, StartStep
<1>5. CASE BeginFollow(e) \/ BeginUnfollow(e)
  <2>1. PICK op \in {"follow", "unfollow"} :
          Start(e, [NoEdit EXCEPT !.op = op, !.who = "other", !.pc = "row"])
    BY <1>5 DEF BeginFollow, BeginUnfollow
  <2> DEFINE q == [NoEdit EXCEPT !.op = op, !.who = "other", !.pc = "row"]
  <2>2. /\ q.op = op /\ q.who = "other" /\ q.pc = "row" /\ q.username = Keep
        /\ q.email = Keep /\ q.bio = Keep /\ q.theme = Keep
    BY DEF NoEdit
  <2>3. q \in EditRequest
    BY DEF NoEdit, EditRequest, People
  <2>4. Start(e, q)
    BY <2>1
  <2> HIDE DEF q
  <2>5. EditShape(q)
    BY <2>2 DEF EditShape
  <2>6. QED
    BY <2>2, <2>3, <2>4, <2>5, StartStep
<1>6. QED
  BY <1>2, <1>3, <1>4, <1>5

LEMMA FlushNameStep ==
    ASSUME MediaInv, Bounded, UserInv, NEW e \in Edits, FlushName(e)
    PROVE  MediaInv' /\ Bounded' /\ UserInv'
<1> DEFINE t == edit[e]
           had == profile # NoProfile
           copy == IF t.had THEN t.copy ELSE bio
           q == [t EXCEPT !.pc = "row", !.had = had, !.copy = copy]
<1>1. /\ t.pc = "user" /\ t.bio # Keep /\ Waits(e) = {} /\ ~Taken(t)
      /\ edit' = [edit EXCEPT ![e] = q]
      /\ UNCHANGED <<media, profile, files, ids, req, work, raced, failed, abandoned, deleted,
                     row, bio, theme, follows, entry, clashed>>
  <2>1. /\ t.pc = "user" /\ t.bio # Keep /\ Waits(e) = {} /\ ~Taken(t)
        /\ edit' = [edit EXCEPT ![e] = q]
        /\ UNCHANGED <<vars, row, bio, theme, follows, entry, clashed>>
    BY DEF FlushName
  <2>2. QED
    BY <2>1 DEF vars
<1>2. /\ edit \in [Edits -> EditRequest] /\ t \in EditRequest /\ EditShape(t)
      /\ entry \in {Nobody} \cup Edits \cup Slots
      /\ row \in [People -> [UserColumns -> Names]]
      /\ bio \in {Keep} \cup Texts /\ (profile = NoProfile => bio = Keep)
      /\ theme \in {NoRow} \cup Texts /\ follows \in BOOLEAN
      /\ clashed \in BOOLEAN
  BY EditTypes DEF UserInv, EditInv
<1>3. t.op = "profile"
  BY <1>1, <1>2 DEF EditRequest, EditShape
<1>4. q \in EditRequest
  <2>1. had \in BOOLEAN
    OBVIOUS
  <2>2. copy \in {Keep} \cup Texts
    BY <1>2 DEF EditRequest
  <2> HIDE DEF had, copy
  <2>3. QED
    BY <1>2, <2>1, <2>2 DEF EditRequest
<1>5. /\ q.op = t.op /\ q.pc = "row" /\ q.who = t.who /\ q.username = t.username
      /\ q.email = t.email /\ q.bio = t.bio /\ q.theme = t.theme
      /\ q.had = (profile # NoProfile) /\ q.copy = IF t.had THEN t.copy ELSE bio
  BY <1>2 DEF EditRequest
<1>6. /\ edit' \in [Edits -> EditRequest] /\ edit'[e] = q
      /\ \A o \in Edits \ {e} : edit'[o] = edit[o]
  BY <1>1, <1>2, <1>4
<1> HIDE DEF q
<1>7. EditShape(q) /\ t.who = "owner" /\ t.username # Keep
  BY <1>1, <1>2, <1>3, <1>5 DEF EditShape
<1>8. Renaming("owner") = {}
  <2>1. ~InsertsProfile(e)
    BY <1>1 DEF InsertsProfile
  <2>2. Renaming(t.who) \subseteq Waits(e)
    BY <1>1, <1>3, <2>1 DEF Waits
  <2>3. QED
    BY <1>1, <1>7, <2>2
<1>9. row["other"].username # q.username
  <2>1. \A p \in People \ {t.who}, c \in UserColumns : row[p][c] # t[c]
    BY <1>1 DEF Taken
  <2>2. row["other"]["username"] # t["username"]
    BY <1>7, <2>1, TextFacts
  <2>3. QED
    BY <1>5, <2>2
<1>10. \A o \in Edits \ {e} : Clash(q, edit[o]) <=> Clash(t, edit[o])
  BY <1>5 DEF Clash
<1>11. ~clashed => \A o \in Edits \ {e} : ~Clash(q, edit[o])
  BY <1>10 DEF UserInv, EditInv
<1>12. q.had /\ ~clashed => q.copy = bio
  BY <1>1, <1>3, <1>5 DEF UserInv, EditInv
<1>13. /\ entry # Nobody => profile = NoProfile
       /\ NamesUnique'
  BY <1>1 DEF UserInv, RenamingInv, NamesUnique
<1>14. TypeOK'
  BY <1>1 DEF MediaInv, TypeOK
<1>15. MediaInv' /\ Bounded'
  BY <1>1, <1>14, ProfileStep
<1>16. UserInv'
  BY <1>1, <1>2, <1>3, <1>5, <1>6, <1>7, <1>8, <1>9, <1>11, <1>12, <1>13, <1>14, EditChanges
<1>17. QED
  BY <1>15, <1>16
LEMMA RenamedFacts ==
    ASSUME row \in [People -> [UserColumns -> Names]], NEW q \in EditRequest
    PROVE  /\ Renamed(q) \in [People -> [UserColumns -> Names]]
           /\ \A p \in People, c \in UserColumns :
                Renamed(q)[p][c] = IF p = q.who /\ q[c] # Keep THEN q[c] ELSE row[p][c]
<1>1. /\ q["username"] \in {Keep} \cup Names /\ q["email"] \in {Keep} \cup Names
      /\ q.who \in People
  BY DEF EditRequest
<1>2. \A c \in UserColumns : q[c] \in {Keep} \cup Names
  BY <1>1 DEF UserColumns
<1> DEFINE f == [c \in UserColumns |-> IF q[c] = Keep THEN row[q.who][c] ELSE q[c]]
<1>3. f \in [UserColumns -> Names]
  BY <1>1, <1>2
<1>4. Renamed(q) = [row EXCEPT ![q.who] = f]
  BY DEF Renamed
<1>5. \A c \in UserColumns : f[c] = IF q[c] # Keep THEN q[c] ELSE row[q.who][c]
  OBVIOUS
<1> HIDE DEF f
<1>6. Renamed(q) \in [People -> [UserColumns -> Names]]
  BY <1>3, <1>4
<1>7. \A p \in People : Renamed(q)[p] = IF p = q.who THEN f ELSE row[p]
  BY <1>1, <1>4
<1>8. QED
  BY <1>5, <1>6, <1>7

LEMMA RefuseStep ==
    ASSUME MediaInv, Bounded, UserInv, NEW e \in Edits, Refuse(e)
    PROVE  MediaInv' /\ Bounded' /\ UserInv'
<1>1. /\ End(e, "failed") /\ UNCHANGED <<profile, row, bio, theme, follows>>
      /\ UNCHANGED <<media, files, ids, req, work, raced, failed, abandoned, deleted>>
  BY DEF Refuse, End, History
<1>2. /\ row \in [People -> [UserColumns -> Names]]
      /\ bio \in {Keep} \cup Texts /\ (profile = NoProfile => bio = Keep)
      /\ theme \in {NoRow} \cup Texts /\ follows \in BOOLEAN
  BY EditTypes DEF UserInv
<1>3. TypeOK'
  BY <1>1 DEF MediaInv, TypeOK
<1>4. MediaInv' /\ Bounded'
  BY <1>1, <1>3, ProfileStep
<1>5. /\ \A o \in Renaming("owner") : row["other"].username # edit[o].username
      /\ entry # Nobody => profile = NoProfile
      /\ NamesUnique'
  BY <1>1 DEF UserInv, RenamingInv, NamesUnique
<1>6. "failed" \in {"idle", "failed"}
  OBVIOUS
<1>7. UserInv'
  BY <1>1, <1>2, <1>3, <1>5, <1>6, EndStep
<1>8. QED
  BY <1>4, <1>7

LEMMA CommitUserStep ==
    ASSUME MediaInv, Bounded, UserInv, NEW e \in Edits, CommitUser(e)
    PROVE  MediaInv' /\ Bounded' /\ UserInv'
<1> DEFINE q == edit[e]
<1>1. /\ q.pc = "user" /\ q.bio = Keep /\ Waits(e) = {} /\ ~Taken(q)
      /\ row' = Renamed(q) /\ End(e, "idle") /\ UNCHANGED <<profile, bio, theme, follows>>
      /\ UNCHANGED <<media, files, ids, req, work, raced, failed, abandoned, deleted>>
  BY DEF CommitUser, End, History
<1>2. /\ row \in [People -> [UserColumns -> Names]]
      /\ bio \in {Keep} \cup Texts /\ (profile = NoProfile => bio = Keep)
      /\ theme \in {NoRow} \cup Texts /\ follows \in BOOLEAN
      /\ q \in EditRequest /\ EditShape(q)
  BY EditTypes DEF UserInv, EditInv
<1>3. /\ row' \in [People -> [UserColumns -> Names]]
      /\ \A p \in People, c \in UserColumns :
           row'[p][c] = IF p = q.who /\ q[c] # Keep THEN q[c] ELSE row[p][c]
  BY <1>1, <1>2, RenamedFacts
<1>4. \A p \in People \ {q.who}, c \in UserColumns : row[p][c] # q[c]
  BY <1>1 DEF Taken
<1>5. /\ \A o \in Renaming("owner") : row["other"].username # edit[o].username
      /\ entry # Nobody => profile = NoProfile
      /\ NamesUnique
  BY DEF UserInv, RenamingInv
<1>6. NamesUnique'
  <2>1. \A c \in UserColumns : row'["owner"][c] # row'["other"][c]
    BY <1>3, <1>4, <1>5, TextFacts DEF NamesUnique
  <2>2. QED
    BY <2>1 DEF NamesUnique
<1>7. ASSUME NEW o \in Renaming("owner") \ {e}
      PROVE  row'["other"].username # edit[o].username
  <2>1. o \in Edits /\ Renaming(edit[o].who) = {o}
    BY <1>7, RenamingFacts
  <2>2. Waits(e) = Renaming(q.who)
          \cup {p \in Edits : /\ q.username # Keep
                              /\ Renaming(edit[p].who) = {p}
                              /\ edit[p].username = q.username}
    <3>1. ~InsertsProfile(e) /\ q.op # "preferences" /\ q.op # "follow"
      BY <1>1, <1>2 DEF InsertsProfile, EditShape
    <3>2. QED
      BY <1>1, <3>1 DEF Waits
  <2>3. q.username = Keep \/ edit[o].username # q.username
    BY <1>1, <2>1, <2>2
  <2>4. row'["other"]["username"] =
          IF "other" = q.who /\ q["username"] # Keep THEN q["username"] ELSE row["other"]["username"]
    BY <1>3, TextFacts
  <2>5. QED
    BY <1>5, <2>3, <2>4
<1>8. TypeOK'
  BY <1>1 DEF MediaInv, TypeOK
<1>9. MediaInv' /\ Bounded'
  BY <1>1, <1>8, ProfileStep
<1>10. "idle" \in {"idle", "failed"}
  OBVIOUS
<1>11. UserInv'
  BY <1>1, <1>2, <1>3, <1>5, <1>6, <1>7, <1>8, <1>10, EndStep
<1>12. QED
  BY <1>9, <1>11

LEMMA CommitProfileStep ==
    ASSUME MediaInv, Bounded, UserInv, NEW e \in Edits, CommitProfile(e)
    PROVE  MediaInv' /\ Bounded' /\ UserInv'
<1> DEFINE q == edit[e]
<1>1. /\ q.op = "profile" /\ q.pc = "row"
      /\ Waits(e) = {} /\ (q.had \/ profile = NoProfile)
      /\ row' = Renamed(q)
      /\ bio' = (IF q.had /\ q.bio = q.copy THEN bio ELSE q.bio)
      /\ profile' = (IF profile = NoProfile THEN [c \in Columns |-> NoFile] ELSE profile)
      /\ End(e, "idle") /\ UNCHANGED <<theme, follows>>
      /\ UNCHANGED <<media, files, ids, req, work, raced, failed, abandoned, deleted>>
  BY DEF CommitProfile, End, History
<1>2. /\ row \in [People -> [UserColumns -> Names]]
      /\ bio \in {Keep} \cup Texts /\ (profile = NoProfile => bio = Keep)
      /\ theme \in {NoRow} \cup Texts /\ follows \in BOOLEAN
      /\ q \in EditRequest /\ EditShape(q)
  BY EditTypes DEF UserInv, EditInv
<1>3. q.who = "owner" /\ q.bio # Keep /\ q.email = Keep /\ q.bio \in {Keep} \cup Texts
  BY <1>1, <1>2 DEF EditShape, EditRequest
<1>4. /\ row' \in [People -> [UserColumns -> Names]]
      /\ \A p \in People, c \in UserColumns :
           row'[p][c] = IF p = q.who /\ q[c] # Keep THEN q[c] ELSE row[p][c]
  BY <1>1, <1>2, RenamedFacts
<1>5. profile' # NoProfile /\ profile' \in Profile
      /\ \A c \in Columns : {profile'[c]} \cap Ids = {profile[c]} \cap Ids
  <2> DEFINE empty == [c \in Columns |-> NoFile]
  <2>1. \A c \in Columns : empty[c] \notin Ids /\ NoProfile[c] \notin Ids
    BY ColumnFacts
  <2>2. empty # NoProfile /\ empty \in Profile /\ profile \in Profile
    BY ColumnFacts DEF MediaInv, TypeOK
  <2> HIDE DEF empty
  <2>3. CASE profile = NoProfile
    <3>1. profile' = empty
      BY <1>1, <2>3 DEF empty
    <3>2. QED
      BY <2>1, <2>2, <2>3, <3>1
  <2>4. CASE profile # NoProfile
    BY <1>1, <2>2, <2>4
  <2>5. QED
    BY <2>3, <2>4
<1>6. TypeOK'
  BY <1>1, <1>5 DEF MediaInv, TypeOK
<1>7. MediaInv' /\ Bounded'
  BY <1>1, <1>5, <1>6, ProfileStep
<1>8. /\ \A o \in Renaming("owner") : row["other"].username # edit[o].username
      /\ entry # Nobody => profile = NoProfile
      /\ NamesUnique
  BY DEF UserInv, RenamingInv
<1>9. q.username # Keep => row["other"]["username"] # q["username"]
  <2>1. q.username # Keep => e \in Renaming("owner")
    BY <1>1, <1>3 DEF Renaming
  <2>2. QED
    BY <1>8, <2>1
<1>10. \A c \in UserColumns : row'["other"][c] = row["other"][c]
  BY <1>3, <1>4, TextFacts
<1>11. NamesUnique'
  <2>1. \A c \in UserColumns : row'["owner"][c] # row'["other"][c]
    BY <1>3, <1>4, <1>8, <1>9, <1>10, TextFacts DEF NamesUnique
  <2>2. QED
    BY <2>1 DEF NamesUnique
<1>12. \A o \in Renaming("owner") \ {e} : row'["other"].username # edit[o].username
  BY <1>8, <1>10, TextFacts
<1>13. ASSUME ~clashed, NEW o \in Edits \ {e}
       PROVE  ~(edit[o].op = "profile" /\ edit[o].bio # Keep)
  <2>1. ~Clash(edit[e], edit[o]) /\ EditShape(edit[o])
    BY <1>13 DEF UserInv, EditInv
  <2>2. edit[o]["bio"] # Keep => edit[o].who = "owner"
    BY <2>1 DEF EditShape
  <2>3. q["bio"] # Keep
    BY <1>3
  <2>4. QED
    BY <1>3, <2>1, <2>2, <2>3 DEF Clash
<1>14. entry \in {Nobody, e}
  <2>1. q.had => profile # NoProfile
    BY <1>1 DEF UserInv, EditInv
  <2>2. ~q.had => InsertsProfile(e)
    BY <1>1 DEF InsertsProfile
  <2>3. ~q.had => Waits(e) = IF entry \notin {Nobody, e} THEN {entry} ELSE Renaming("owner") \ {e}
    BY <2>2, WaitsFacts
  <2>4. QED
    BY <1>1, <1>8, <2>1, <2>3
<1>15. bio' \in {Keep} \cup Texts
  BY <1>1, <1>2, <1>3
<1>16. "idle" \in {"idle", "failed"}
  OBVIOUS
<1>17. UserInv'
  BY <1>1, <1>2, <1>4, <1>5, <1>6, <1>11, <1>12, <1>13, <1>14, <1>15, <1>16, EndStep
<1>18. QED
  BY <1>7, <1>17

LEMMA CommitPreferencesStep ==
    ASSUME MediaInv, Bounded, UserInv, NEW e \in Edits, CommitPreferences(e)
    PROVE  MediaInv' /\ Bounded' /\ UserInv'
<1> DEFINE q == edit[e]
<1>1. /\ q.op = "preferences" /\ (q.had \/ theme = NoRow)
      /\ theme' = CASE q.theme = Keep -> DefaultTheme
                    [] q.had /\ q.theme = q.copy -> theme
                    [] OTHER -> q.theme
      /\ End(e, "idle") /\ UNCHANGED <<profile, row, bio, follows>>
      /\ UNCHANGED <<media, files, ids, req, work, raced, failed, abandoned, deleted>>
  BY DEF CommitPreferences, End, History
<1>2. /\ row \in [People -> [UserColumns -> Names]]
      /\ bio \in {Keep} \cup Texts /\ (profile = NoProfile => bio = Keep)
      /\ theme \in {NoRow} \cup Texts /\ follows \in BOOLEAN
      /\ q \in EditRequest /\ EditShape(q) /\ q.theme \in {Keep} \cup Texts
  BY EditTypes DEF UserInv, EditInv, EditRequest
<1>3. q.theme = Keep => ~q.had
  BY <1>1, <1>2 DEF EditShape
<1>4. q.had => theme # NoRow
  BY <1>1 DEF UserInv, EditInv
<1>5. theme' \in Texts
  <2>1. CASE q.theme = Keep
    BY <1>1, <1>3, <2>1, TextFacts
  <2>2. CASE q.theme # Keep /\ q.had /\ q.theme = q.copy
    BY <1>1, <1>2, <1>4, <2>2
  <2>3. CASE q.theme # Keep /\ ~(q.had /\ q.theme = q.copy)
    BY <1>1, <1>2, <2>3
  <2>4. QED
    BY <2>1, <2>2, <2>3
<1>6. TypeOK'
  BY <1>1 DEF MediaInv, TypeOK
<1>7. MediaInv' /\ Bounded'
  BY <1>1, <1>6, ProfileStep
<1>8. /\ \A o \in Renaming("owner") : row["other"].username # edit[o].username
      /\ entry # Nobody => profile = NoProfile
      /\ NamesUnique'
  BY <1>1 DEF UserInv, RenamingInv, NamesUnique
<1>9. ASSUME ~clashed, NEW o \in Edits \ {e}, edit[o].op = "preferences", edit[o].had
      PROVE  theme' = theme
  <2>1. ~Clash(edit[e], edit[o]) /\ EditShape(edit[o]) /\ theme # NoRow
    BY <1>9 DEF UserInv, EditInv
  <2>2. edit[o]["theme"] # Keep /\ edit[o].who = "owner"
    BY <1>9, <2>1 DEF EditShape
  <2>3. q.had /\ q["theme"] # Keep /\ q.who = "owner"
    BY <1>1, <1>2, <1>3, <2>1 DEF EditShape
  <2>4. QED
    BY <2>1, <2>2, <2>3 DEF Clash
<1>10. "idle" \in {"idle", "failed"}
  OBVIOUS
<1>11. /\ theme' \in {NoRow} \cup Texts /\ (theme # NoRow => theme' # NoRow)
  BY <1>5, TextFacts
<1>12. UserInv'
  BY <1>1, <1>2, <1>6, <1>8, <1>9, <1>10, <1>11, EndStep
<1>13. QED
  BY <1>7, <1>12

LEMMA CommitFollowerStep ==
    ASSUME MediaInv, Bounded, UserInv, NEW e \in Edits, CommitFollow(e) \/ CommitUnfollow(e)
    PROVE  MediaInv' /\ Bounded' /\ UserInv'
<1>1. /\ follows' \in BOOLEAN /\ End(e, "idle") /\ UNCHANGED <<profile, row, bio, theme>>
      /\ UNCHANGED <<media, files, ids, req, work, raced, failed, abandoned, deleted>>
  BY DEF CommitFollow, CommitUnfollow, End, History
<1>2. /\ row \in [People -> [UserColumns -> Names]]
      /\ bio \in {Keep} \cup Texts /\ (profile = NoProfile => bio = Keep)
      /\ theme \in {NoRow} \cup Texts
  BY EditTypes DEF UserInv
<1>3. TypeOK'
  BY <1>1 DEF MediaInv, TypeOK
<1>4. MediaInv' /\ Bounded'
  BY <1>1, <1>3, ProfileStep
<1>5. /\ \A o \in Renaming("owner") : row["other"].username # edit[o].username
      /\ entry # Nobody => profile = NoProfile
      /\ NamesUnique'
  BY <1>1 DEF UserInv, RenamingInv, NamesUnique
<1>6. "idle" \in {"idle", "failed"}
  OBVIOUS
<1>7. UserInv'
  BY <1>1, <1>2, <1>3, <1>5, <1>6, EndStep
<1>8. QED
  BY <1>4, <1>7
-----------------------------------------------------------------------------
(* Every step of Profiles. *)

LEMMA UserInit == ProfilesInit => MediaInv /\ Bounded /\ UserInv
<1> SUFFICES ASSUME ProfilesInit PROVE MediaInv /\ Bounded /\ UserInv
  OBVIOUS
<1>1. /\ Init /\ bio = (IF profile = NoProfile THEN Keep ELSE 1)
      /\ row = [p \in People |-> [c \in UserColumns |-> IF p = "owner" THEN 1 ELSE 2]]
      /\ theme = NoRow /\ follows = FALSE /\ edit = [e \in Edits |-> NoEdit]
      /\ entry = Nobody /\ clashed = FALSE
  BY DEF ProfilesInit
<1>2. MediaInv /\ Bounded /\ TypeOK
  BY <1>1, InitFacts DEF MediaInv
<1>3. \A e \in Edits : edit[e] = NoEdit
  BY <1>1
<1>4. ProfilesTypeOK
  <2>1. row \in [People -> [UserColumns -> Names]]
    BY <1>1 DEF Names
  <2>2. edit \in [Edits -> EditRequest]
    BY <1>1, NoEditFacts
  <2>3. bio \in {Keep} \cup Texts /\ (profile = NoProfile => bio = Keep)
    BY <1>1 DEF Texts
  <2>4. QED
    BY <1>1, <1>2, <2>1, <2>2, <2>3 DEF ProfilesTypeOK, EditRequest
<1>5. EditInv
  <2>1. \A e \in Edits : EditShape(edit[e]) /\ edit[e].op = "none"
    BY <1>3, NoEditFacts
  <2>2. \A e, o \in Edits : ~Clash(edit[e], edit[o])
    BY <1>3, NoEditFacts, ClashFacts
  <2>3. QED
    BY <2>1, <2>2 DEF EditInv
<1>6. RenamingInv
  <2>1. Renaming("owner") = {} /\ Renaming("other") = {}
    BY <1>3, NoEditFacts DEF Renaming
  <2>2. NamesUnique
    BY <1>1, TextFacts DEF NamesUnique
  <2>3. QED
    BY <1>1, <2>1, <2>2 DEF RenamingInv
<1>7. QED
  BY <1>2, <1>4, <1>5, <1>6 DEF UserInv

\* Of the steps of Media, only the COMMIT of a picture writes the profile.
LEMMA PicturesOnly ==
    ASSUME Next, profile' # profile
    PROVE  \E r \in Slots : CommitPicture(r)
<1>1. PICK r \in Slots :
        \/ BeginImage(r) \/ Flush(r) \/ FlushFails(r)
        \/ BeginVideo(r) \/ Insert(r)
        \/ BeginDelete(r) \/ UnlinkImage(r) \/ Remove(r)
        \/ BeginPatch(r) \/ SelectPrimary(r) \/ CommitPatch(r) \/ PatchFails(r)
        \/ BeginPicture(r) \/ BeginNoPicture(r) \/ UnlinkOld(r)
        \/ CommitPicture(r) \/ ProfileConflicts(r)
        \/ Store(r, IF req[r].op = "image" THEN "flush" ELSE "commit")
        \/ StoreFails(r) \/ Die(r)
  BY DEF Next
<1>2. BeginImage(r) \/ BeginVideo(r) \/ BeginPicture(r) => profile' = profile
  BY DEF BeginImage, BeginVideo, BeginPicture, Begin
<1>3. BeginDelete(r) \/ BeginPatch(r) \/ BeginNoPicture(r) => profile' = profile
  BY DEF BeginDelete, BeginPatch, BeginNoPicture, Begin
<1>4. FlushFails(r) \/ PatchFails(r) \/ ProfileConflicts(r) \/ StoreFails(r) \/ Die(r) =>
        profile' = profile
  BY DEF FlushFails, PatchFails, ProfileConflicts, StoreFails, Die, Fail
<1>5. Flush(r) \/ SelectPrimary(r) \/ Insert(r) \/ Remove(r) \/ CommitPatch(r) =>
        profile' = profile
  BY DEF Flush, SelectPrimary, Insert, Remove, CommitPatch
<1>6. UnlinkImage(r) \/ UnlinkOld(r)
        \/ Store(r, IF req[r].op = "image" THEN "flush" ELSE "commit") => profile' = profile
  BY DEF UnlinkImage, UnlinkOld, Unlink, Store
<1>7. QED
  BY <1>1, <1>2, <1>3, <1>4, <1>5, <1>6

LEMMA MediaStepFacts ==
    ASSUME MediaInv, Bounded, UserInv, MediaStep
    PROVE  MediaInv' /\ Bounded' /\ UserInv'
<1>1. /\ Next /\ UNCHANGED <<row, bio, theme, follows, edit, clashed>>
      /\ entry' = IF entry \in Slots /\ req'[entry].pc = "idle" THEN Nobody ELSE entry
  BY DEF MediaStep
<1>2. MediaInv' /\ Bounded' /\ (profile # NoProfile => profile' # NoProfile)
  BY <1>1, NextFacts
<1>3. TypeOK /\ TypeOK' /\ entry \in {Nobody} \cup Edits \cup Slots
  BY <1>2, EditTypes DEF MediaInv, UserInv
<1>4. entry # Nobody => profile = NoProfile
  BY DEF UserInv, RenamingInv
<1>5. ASSUME profile = NoProfile, profile' # NoProfile PROVE entry' = Nobody
  <2>1. PICK s \in Slots : CommitPicture(s)
    BY <1>1, <1>5, PicturesOnly
  <2>2. req[s].pc = "commit" /\ req' = [req EXCEPT ![s] = Idle]
    BY <2>1 DEF CommitPicture, Finish
  <2>3. req'[s] = Idle /\ req'[s].pc = "idle"
    BY <1>3, <2>2, IdleFacts DEF TypeOK
  <2>4. req[s] \in Request /\ Shape(req[s]) /\ req[s].profile = NoProfile
    BY <1>5 DEF MediaInv, TypeOK, Shapes, PictureInv
  <2>5. req[s].op = "picture"
    BY <2>2, <2>4, ShapeFacts DEF Shape
  <2>6. InsertsProfile(s)
    BY <2>2, <2>4, <2>5, ProfilesAssumption DEF InsertsProfile
  <2>7. Waits(s) = {}
    BY <1>5, <2>3, <2>6 DEF MediaStep
  <2>8. entry \in {Nobody, s}
    BY <2>6, <2>7, WaitsFacts
  <2>9. QED
    BY <1>1, <2>3, <2>8
<1>6. entry' \in {Nobody} \cup Edits \cup Slots /\ (entry' # Nobody => profile' = NoProfile)
  BY <1>1, <1>3, <1>4, <1>5
<1>7. UserInv'
  BY <1>1, <1>2, <1>3, <1>6, EditsStay
<1>8. QED
  BY <1>2, <1>7

LEMMA EnterStep ==
    ASSUME MediaInv, Bounded, UserInv, NEW x \in Edits \cup Slots, Enter(x)
    PROVE  MediaInv' /\ Bounded' /\ UserInv'
<1>1. /\ profile = NoProfile /\ entry' = x
      /\ UNCHANGED <<media, profile, files, ids, req, work, raced, failed, abandoned, deleted>>
      /\ UNCHANGED <<row, bio, theme, follows, edit, clashed>>
  BY DEF Enter, vars
<1>2. TypeOK'
  BY <1>1 DEF MediaInv, TypeOK
<1>3. MediaInv' /\ Bounded'
  BY <1>1, <1>2, ProfileStep
<1>4. UserInv'
  BY <1>1, <1>2, EditsStay
<1>5. QED
  BY <1>3, <1>4

LEMMA AbortStep ==
    ASSUME MediaInv, Bounded, UserInv, NEW x \in Edits \cup Slots, DeadlockAbort(x)
    PROVE  MediaInv' /\ Bounded' /\ UserInv'
<1>1. CASE x \in Edits
  BY <1>1, RefuseStep DEF DeadlockAbort
<1>2. CASE x \notin Edits
  <2>1. /\ x \in Slots /\ Fail(x) /\ entry' = IF entry = x THEN Nobody ELSE entry
        /\ UNCHANGED <<files, work, row, bio, theme, follows, edit, clashed>>
    BY <1>2 DEF DeadlockAbort
  <2>2. work' \in 0 .. MaxWork /\ files' \in {files, files \cup Fresh(req[x])}
    BY <2>1 DEF MediaInv, TypeOK
  <2>3. MediaInv' /\ Bounded'
    BY <2>1, <2>2, FailStep
  <2>4. TypeOK' /\ profile' = profile
    BY <2>1, <2>3 DEF MediaInv, Fail
  <2>5. /\ entry \in {Nobody} \cup Edits \cup Slots
        /\ entry # Nobody => profile = NoProfile
    BY EditTypes DEF UserInv, RenamingInv
  <2>6. entry' \in {Nobody} \cup Edits \cup Slots /\ (entry' # Nobody => profile' = NoProfile)
    BY <2>1, <2>4, <2>5
  <2>7. UserInv'
    BY <2>1, <2>4, <2>6, EditsStay
  <2>8. QED
    BY <2>3, <2>7
<1>3. QED
  BY <1>1, <1>2

LEMMA StutterStep ==
    ASSUME MediaInv, Bounded, UserInv, UNCHANGED profilesVars
    PROVE  MediaInv' /\ Bounded' /\ UserInv'
<1>1. /\ UNCHANGED <<media, profile, files, ids, req, work, raced, failed, abandoned, deleted>>
      /\ UNCHANGED <<row, bio, theme, follows, edit, entry, clashed>>
  BY DEF profilesVars, vars
<1>2. TypeOK'
  BY <1>1 DEF MediaInv, TypeOK
<1>3. MediaInv' /\ Bounded'
  BY <1>1, <1>2, ProfileStep
<1>4. /\ entry \in {Nobody} \cup Edits \cup Slots
      /\ entry # Nobody => profile = NoProfile
  BY EditTypes DEF UserInv, RenamingInv
<1>5. UserInv'
  BY <1>1, <1>2, <1>4, EditsStay
<1>6. QED
  BY <1>3, <1>5

LEMMA UserStep ==
    MediaInv /\ Bounded /\ UserInv /\ [ProfilesNext]_profilesVars =>
      MediaInv' /\ Bounded' /\ UserInv'
<1> SUFFICES ASSUME MediaInv, Bounded, UserInv, [ProfilesNext]_profilesVars
             PROVE  MediaInv' /\ Bounded' /\ UserInv'
  OBVIOUS
<1>1. CASE UNCHANGED profilesVars
  BY <1>1, StutterStep
<1>2. CASE MediaStep
  BY <1>2, MediaStepFacts
<1>3. ASSUME NEW x \in Edits \cup Slots, Enter(x) \/ DeadlockAbort(x)
      PROVE  MediaInv' /\ Bounded' /\ UserInv'
  BY <1>3, EnterStep, AbortStep
<1>4. ASSUME NEW e \in Edits, EditStep(e) PROVE MediaInv' /\ Bounded' /\ UserInv'
  <2>1. UserConflicts(e) \/ RowConflicts(e) \/ PreferencesConflict(e) \/ EditDies(e) => Refuse(e)
    BY DEF UserConflicts, RowConflicts, PreferencesConflict, EditDies
  <2>2. QED
    BY <1>4, <2>1, BeginEditStep, FlushNameStep, RefuseStep, CommitUserStep,
       CommitProfileStep, CommitPreferencesStep, CommitFollowerStep DEF EditStep
<1>5. QED
  BY <1>1, <1>2, <1>3, <1>4 DEF ProfilesNext

-----------------------------------------------------------------------------
(* What holds always. *)

\* The invariant that the theorems rest on.
THEOREM ProfilesInvariant == ProfilesSpec => [](MediaInv /\ Bounded /\ UserInv)
  BY UserInit, UserStep, PTL DEF ProfilesSpec

\* No two users have one name or one address, and what rows of media and
\* profiles name is in the storage, of either kind, unless its deletion is under
\* way or was broken off.
THEOREM RowsNameFiles ==
    ProfilesSpec => [](ProfilesTypeOK /\ NamesUnique /\ RowsHaveFiles)
<1>1. MediaInv /\ UserInv => ProfilesTypeOK /\ NamesUnique /\ RowsHaveFiles
  BY DEF MediaInv, FilesInv, UserInv, RenamingInv
<1>2. QED
  BY <1>1, ProfilesInvariant, PTL

\* With files on the disk, none is left behind, either, as long as nothing has
\* failed and pictures were not changed at the same time.
THEOREM FilesAndRows ==
    ASSUME ~S3
    PROVE  ProfilesSpec => []RowsSound
<1>1. ASSUME MediaInv, UserInv PROVE RowsSound
  <2>1. ProfilesTypeOK /\ NamesUnique /\ RowsHaveFiles
    BY <1>1 DEF MediaInv, FilesInv, UserInv, RenamingInv
  <2>2. ~failed /\ "picture" \notin raced =>
          files \subseteq Images \cup Pictures \cup UNION {Uploaded(req[s]) : s \in Slots}
    BY <1>1 DEF MediaInv, OrphansInv
  <2>3. \A s \in Slots : Uploaded(req[s]) \subseteq {q.id : q \in Running}
    <3>1. \A s \in Slots : req[s].op \in {"image", "picture"} => req[s].pc # "idle"
      BY <1>1 DEF MediaInv, Shapes, Shape
    <3>2. QED
      BY <3>1 DEF Uploaded, Running
  <2>4. NoOrphans
    BY <2>2, <2>3 DEF NoOrphans
  <2>5. QED
    BY <2>1, <2>4 DEF RowsSound
<1>2. QED
  BY <1>1, ProfilesInvariant, PTL

\* Requests wait for each other in a circle only around a first profile that is
\* inserted twice, after its user was renamed in the same transaction.
THEOREM CirclesNeedAFirstProfile == ProfilesSpec => []DeadlockNeedsFirstProfile
  BY CirclesNeedFirstProfile, ProfilesInvariant, PTL
-----------------------------------------------------------------------------
(* What a step may change. *)

\* Edits write no rows of media, and a picture is committed by a request on media.
LEMMA EditWrites ==
    ASSUME MediaInv, UserInv, NEW e \in Edits, EditStep(e)
    PROVE  /\ media' = media /\ req' = req
           /\ \A c \in Columns : {profile'[c]} \cap Ids = {profile[c]} \cap Ids
           /\ \A o \in Edits \ {e} : edit'[o] = edit[o]
<1>1. edit \in [Edits -> EditRequest]
  BY EditTypes DEF UserInv
<1>2. \A pc : End(e, pc) => media' = media /\ req' = req
                            /\ \A o \in Edits \ {e} : edit'[o] = edit[o]
  BY <1>1 DEF End
<1>3. \A q : Start(e, q) => media' = media /\ req' = req /\ profile' = profile
                            /\ \A o \in Edits \ {e} : edit'[o] = edit[o]
  BY <1>1 DEF Start
<1>4. BeginProfile(e) \/ BeginAccount(e) \/ BeginPreferences(e) \/ BeginFollow(e)
        \/ BeginUnfollow(e) => \E q : Start(e, q)
  BY DEF BeginProfile, BeginAccount, BeginPreferences, BeginFollow, BeginUnfollow
<1>5. UserConflicts(e) \/ RowConflicts(e) \/ PreferencesConflict(e) \/ EditDies(e) =>
        End(e, "failed") /\ profile' = profile
  BY DEF UserConflicts, RowConflicts, PreferencesConflict, EditDies, Refuse
<1>6. CommitUser(e) \/ CommitPreferences(e) \/ CommitFollow(e) \/ CommitUnfollow(e) =>
        End(e, "idle") /\ profile' = profile
  BY DEF CommitUser, CommitPreferences, CommitFollow, CommitUnfollow
<1>7. CASE FlushName(e)
  BY <1>1, <1>7 DEF FlushName, vars
<1>8. CASE CommitProfile(e)
  <2>1. /\ End(e, "idle")
        /\ profile' = IF profile = NoProfile THEN [c \in Columns |-> NoFile] ELSE profile
    BY <1>8 DEF CommitProfile
  <2>2. \A c \in Columns : [d \in Columns |-> NoFile][c] \notin Ids /\ NoProfile[c] \notin Ids
    BY ColumnFacts
  <2>3. \A c \in Columns : {profile'[c]} \cap Ids = {profile[c]} \cap Ids
    BY <2>1, <2>2
  <2>4. QED
    BY <1>2, <2>1, <2>3
<1>9. QED
  BY <1>2, <1>3, <1>4, <1>5, <1>6, <1>7, <1>8 DEF EditStep

LEMMA EveryStepKept ==
    ASSUME MediaInv, MediaInv', UserInv, [ProfilesNext]_profilesVars
    PROVE  KeptStep
<1>1. CASE media' = media
  BY <1>1, KeptIfSame
<1>2. CASE media' # media
  <2>1. ~UNCHANGED profilesVars
    BY <1>2 DEF profilesVars, vars
  <2>2. \A e \in Edits : ~EditStep(e)
    BY <1>2, EditWrites
  <2>3. \A x \in Edits \cup Slots : ~Enter(x) /\ ~DeadlockAbort(x)
    BY <1>2 DEF Enter, DeadlockAbort, Refuse, End, Fail, vars
  <2>4. Next
    BY <2>1, <2>2, <2>3 DEF ProfilesNext, MediaStep
  <2>5. PICK r \in Slots : Insert(r) \/ Remove(r) \/ CommitPatch(r)
    BY <1>2, <2>4, WritersOnly
  <2>6. QED
    BY <2>5, KeptIfWritten
<1>3. QED
  BY <1>1, <1>2

\* An event keeps one cover, and new images and videos come last.
THEOREM CoversKept == ProfilesSpec => CoverKept
<1>1. MediaInv /\ MediaInv' /\ UserInv /\ [ProfilesNext]_profilesVars =>
        [/\ "cover" \notin raced =>
              /\ Cardinality(Primaries') <= 1
              /\ Primaries # {} =>
                   Primaries' # {} \/ \E i \in Primaries : media'[i] = NoMedia
         /\ "order" \notin raced =>
              \A i \in Rows' \ Rows, j \in Rows : media[j].order < media'[i].order]_vars
  BY EveryStepKept DEF KeptStep
<1>2. QED
  BY <1>1, ProfilesInvariant, PTL DEF ProfilesSpec, CoverKept

\* What OnlyAskedChanges says of a step of the request of e.
LEMMA EditAsks ==
    ASSUME MediaInv, UserInv, NEW e \in Edits, EditStep(e)
    PROVE  LET q == edit[e]
               answers == Runs(e) /\ edit'[e].pc = "idle"
           IN /\ \A p \in People, c \in UserColumns : row'[p][c] # row[p][c] =>
                   answers /\ q.who = p /\ q[c] = row'[p][c]
              /\ bio' # bio => answers /\ q.bio = bio'
              /\ theme' # theme =>
                   /\ answers
                   /\ \/ q.theme = theme'
                      \/ theme = NoRow /\ q.op = "preferences" /\ theme' = DefaultTheme
<1> DEFINE q == edit[e]
           answers == Runs(e) /\ edit'[e].pc = "idle"
<1>1. /\ edit \in [Edits -> EditRequest] /\ q \in EditRequest /\ EditShape(q)
      /\ row \in [People -> [UserColumns -> Names]]
  BY EditTypes DEF UserInv, EditInv
<1>2. End(e, "idle") => edit'[e].pc = "idle"
  BY <1>1, NoEditFacts DEF End
<1>3. \A p \in People, c \in UserColumns : Renamed(q)[p][c] # row[p][c] =>
        q.who = p /\ q[c] = Renamed(q)[p][c]
  BY <1>1, RenamedFacts
<1>4. q.op \in {"profile", "preferences"} => q.pc \in {"user", "row"}
  BY <1>1 DEF EditShape, EditRequest
<1>5. CASE CommitUser(e)
  <2>1. answers /\ row' = Renamed(q) /\ UNCHANGED <<bio, theme>>
    BY <1>2, <1>5 DEF CommitUser, Runs
  <2>2. QED
    BY <1>3, <2>1
<1>6. CASE CommitProfile(e)
  <2>1. /\ answers /\ row' = Renamed(q) /\ theme' = theme
        /\ bio' = (IF q.had /\ q.bio = q.copy THEN bio ELSE q.bio)
    BY <1>2, <1>6 DEF CommitProfile, Runs
  <2>2. QED
    BY <1>3, <2>1
<1>7. CASE CommitPreferences(e)
  <2>1. /\ answers /\ q.op = "preferences" /\ (q.had \/ theme = NoRow) /\ UNCHANGED <<row, bio>>
        /\ theme' = CASE q.theme = Keep -> DefaultTheme
                      [] q.had /\ q.theme = q.copy -> theme
                      [] OTHER -> q.theme
    BY <1>2, <1>4, <1>7 DEF CommitPreferences, Runs
  <2>2. q.theme = Keep => theme = NoRow
    BY <1>1, <2>1 DEF EditShape
  <2>3. QED
    BY <2>1, <2>2
<1>8. CASE ~(CommitUser(e) \/ CommitProfile(e) \/ CommitPreferences(e))
  <2>1. UNCHANGED <<row, bio, theme>>
    BY <1>8 DEF EditStep, BeginProfile, BeginAccount, BeginPreferences, BeginFollow,
       BeginUnfollow, Start, FlushName, UserConflicts, RowConflicts, PreferencesConflict,
       EditDies, Refuse, CommitFollow, CommitUnfollow
  <2>2. QED
    BY <2>1
<1>9. QED
  BY <1>5, <1>6, <1>7, <1>8

\* Only a request for a picture changes what pictures the profile has.
LEMMA PictureAsks ==
    ASSUME MediaInv, Next, NEW c \in Columns,
           {profile[c], profile'[c]} \cap Ids # {}, profile'[c] # profile[c]
    PROVE  \E s \in Slots : /\ req[s].pc = "commit" /\ req'[s].pc = "idle"
                            /\ req[s].column = c /\ profile'[c] = req[s].id
<1>1. PICK s \in Slots : CommitPicture(s)
  BY PicturesOnly
<1>2. /\ req[s].pc = "commit" /\ req' = [req EXCEPT ![s] = Idle]
      /\ profile' = [d \in Columns |-> IF d = req[s].column THEN req[s].id
                                       ELSE IF profile[d] \in Ids THEN profile[d] ELSE NoFile]
  BY <1>1 DEF CommitPicture, Finish
<1>3. req'[s].pc = "idle"
  BY <1>2, IdleFacts DEF MediaInv, TypeOK
<1>4. req[s].column = c
  <2>1. req[s].column # c =>
          profile'[c] = IF profile[c] \in Ids THEN profile[c] ELSE NoFile
    BY <1>2
  <2>2. QED
    BY <2>1, ColumnFacts
<1>5. QED
  BY <1>2, <1>3, <1>4

LEMMA EveryStepAsked ==
    ASSUME MediaInv, UserInv, ProfilesNext
    PROVE  LET Answered == {edit[e] : e \in {e \in Edits : Runs(e) /\ edit'[e].pc = "idle"}}
               Shown == {req[s] : s \in {s \in Slots : req[s].pc = "commit" /\ req'[s].pc = "idle"}}
           IN /\ \A p \in People, c \in UserColumns : row'[p][c] # row[p][c] =>
                   \E q \in Answered : q.who = p /\ q[c] = row'[p][c]
              /\ bio' # bio => \E q \in Answered : q.bio = bio'
              /\ theme' # theme => \E q \in Answered :
                   \/ q.theme = theme'
                   \/ theme = NoRow /\ q.op = "preferences" /\ theme' = DefaultTheme
              /\ \A c \in Columns :
                   {profile[c], profile'[c]} \cap Ids # {} /\ profile'[c] # profile[c] =>
                     \E q \in Shown : q.column = c /\ profile'[c] = q.id
<1> DEFINE Answered == {edit[e] : e \in {e \in Edits : Runs(e) /\ edit'[e].pc = "idle"}}
           Shown == {req[s] : s \in {s \in Slots : req[s].pc = "commit" /\ req'[s].pc = "idle"}}
<1>1. \A e \in Edits : Runs(e) /\ edit'[e].pc = "idle" => edit[e] \in Answered
  OBVIOUS
<1>2. \A s \in Slots : req[s].pc = "commit" /\ req'[s].pc = "idle" => req[s] \in Shown
  OBVIOUS
<1> HIDE DEF Answered, Shown
<1>3. CASE MediaStep
  <2>1. Next /\ UNCHANGED <<row, bio, theme>>
    BY <1>3 DEF MediaStep
  <2>2. \A c \in Columns :
          {profile[c], profile'[c]} \cap Ids # {} /\ profile'[c] # profile[c] =>
            \E q \in Shown : q.column = c /\ profile'[c] = q.id
    BY <1>2, <2>1, PictureAsks
  <2>3. QED
    BY <2>1, <2>2 DEF Answered, Shown
<1>4. CASE \E x \in Edits \cup Slots : Enter(x) \/ DeadlockAbort(x)
  <2>1. UNCHANGED <<profile, row, bio, theme>>
    BY <1>4 DEF Enter, DeadlockAbort, Refuse, Fail, vars
  <2>2. QED
    BY <2>1
<1>5. ASSUME NEW e \in Edits, EditStep(e)
      PROVE  /\ \A p \in People, c \in UserColumns : row'[p][c] # row[p][c] =>
                  \E q \in Answered : q.who = p /\ q[c] = row'[p][c]
             /\ bio' # bio => \E q \in Answered : q.bio = bio'
             /\ theme' # theme => \E q \in Answered :
                  \/ q.theme = theme'
                  \/ theme = NoRow /\ q.op = "preferences" /\ theme' = DefaultTheme
             /\ \A c \in Columns : {profile'[c]} \cap Ids = {profile[c]} \cap Ids
  BY <1>1, <1>5, EditAsks, EditWrites
<1>6. ASSUME NEW c \in Columns, {profile'[c]} \cap Ids = {profile[c]} \cap Ids
      PROVE  ~({profile[c], profile'[c]} \cap Ids # {} /\ profile'[c] # profile[c])
  BY <1>6
<1>7. CASE \E e \in Edits : EditStep(e)
  <2>1. /\ \A p \in People, c \in UserColumns : row'[p][c] # row[p][c] =>
             \E q \in Answered : q.who = p /\ q[c] = row'[p][c]
        /\ bio' # bio => \E q \in Answered : q.bio = bio'
        /\ theme' # theme => \E q \in Answered :
             \/ q.theme = theme'
             \/ theme = NoRow /\ q.op = "preferences" /\ theme' = DefaultTheme
        /\ \A c \in Columns : {profile'[c]} \cap Ids = {profile[c]} \cap Ids
    BY <1>5, <1>7
  <2>2. QED
    BY <1>6, <2>1 DEF Answered, Shown
<1>8. QED
  BY <1>3, <1>4, <1>7 DEF ProfilesNext

\* Requests take nothing back that they were not asked to change.
THEOREM OnlyAskedIsChanged == ProfilesSpec => OnlyAskedChanges
<1>1. MediaInv /\ UserInv /\ [ProfilesNext]_profilesVars =>
        [LET Answered == {edit[e] : e \in {e \in Edits : Runs(e) /\ edit'[e].pc = "idle"}}
             Shown == {req[s] : s \in {s \in Slots : req[s].pc = "commit" /\ req'[s].pc = "idle"}}
         IN /\ \A p \in People, c \in UserColumns : row'[p][c] # row[p][c] =>
                 \E q \in Answered : q.who = p /\ q[c] = row'[p][c]
            /\ bio' # bio => \E q \in Answered : q.bio = bio'
            /\ theme' # theme => \E q \in Answered :
                 \/ q.theme = theme'
                 \/ theme = NoRow /\ q.op = "preferences" /\ theme' = DefaultTheme
            /\ \A c \in Columns :
                 {profile[c], profile'[c]} \cap Ids # {} /\ profile'[c] # profile[c] =>
                   \E q \in Shown : q.column = c /\ profile'[c] = q.id]_profilesVars
  BY EveryStepAsked
<1>2. QED
  BY <1>1, ProfilesInvariant, PTL DEF ProfilesSpec, OnlyAskedChanges

LEMMA EveryAnswerStored ==
    ASSUME UserInv, MediaInv, ProfilesNext, NEW e \in Edits, Runs(e), edit'[e].pc = "idle", ~clashed
    PROVE  LET q == edit[e] IN
           /\ \A c \in UserColumns : q[c] # Keep => row'[q.who][c] = q[c]
           /\ q.bio # Keep => bio' = q.bio
           /\ q.theme # Keep => theme' = q.theme
           /\ q.op \in {"follow", "unfollow"} => follows' = (q.op = "follow")
<1> DEFINE q == edit[e]
<1>1. /\ edit \in [Edits -> EditRequest] /\ q \in EditRequest /\ EditShape(q)
      /\ row \in [People -> [UserColumns -> Names]]
      /\ q.op = "profile" /\ q.had /\ q.bio # Keep => q.copy = bio
      /\ q.op = "preferences" /\ q.had => q.copy = theme
  BY EditTypes DEF UserInv, EditInv
<1>2. q.pc \in {"user", "row"}
  BY DEF Runs
<1>3. edit'[e] # edit[e]
  BY <1>2
<1>4. ~Refuse(e)
  <2>1. "failed" # "idle"
    OBVIOUS
  <2>2. Refuse(e) => edit'[e].pc = "failed"
    BY <1>1, NoEditFacts DEF Refuse, End
  <2>3. QED
    BY <2>1, <2>2
<1>5. EditStep(e)
  <2>1. ~MediaStep
    BY <1>3 DEF MediaStep
  <2>2. \A o \in Edits \ {e} : ~EditStep(o)
    BY <1>3, EditWrites
  <2>3. \A x \in Edits \cup Slots : ~Enter(x)
    BY <1>3 DEF Enter
  <2>4. \A x \in Edits : DeadlockAbort(x) => x = e
    BY <1>1, <1>3 DEF DeadlockAbort, Refuse, End
  <2>5. \A x \in Edits \cup Slots : ~DeadlockAbort(x)
    BY <1>3, <1>4, <2>4 DEF DeadlockAbort
  <2>6. QED
    BY <2>1, <2>2, <2>3, <2>5 DEF ProfilesNext
<1>6. CommitUser(e) \/ CommitProfile(e) \/ CommitPreferences(e) \/ CommitFollow(e)
        \/ CommitUnfollow(e)
  <2>1. \A r : ~Start(e, r)
    BY <1>2 DEF Start, Runs
  <2>2. ~(BeginProfile(e) \/ BeginAccount(e) \/ BeginPreferences(e) \/ BeginFollow(e)
            \/ BeginUnfollow(e))
    BY <2>1 DEF BeginProfile, BeginAccount, BeginPreferences, BeginFollow, BeginUnfollow
  <2>3. ~FlushName(e)
    <3>1. FlushName(e) => edit'[e].pc = "row"
      BY <1>1 DEF FlushName, EditRequest
    <3>2. QED
      BY <3>1
  <2>4. ~(UserConflicts(e) \/ RowConflicts(e) \/ PreferencesConflict(e) \/ EditDies(e))
    BY <1>4 DEF UserConflicts, RowConflicts, PreferencesConflict, EditDies
  <2>5. QED
    BY <1>5, <2>2, <2>3, <2>4 DEF EditStep
<1>7. \A c \in UserColumns : q[c] # Keep => Renamed(q)[q.who][c] = q[c]
  <2>1. q.who \in People
    BY <1>1 DEF EditRequest
  <2>2. QED
    BY <1>1, <2>1, RenamedFacts
<1>8. CASE CommitUser(e)
  <2>1. q.pc = "user" /\ q.bio = Keep /\ row' = Renamed(q)
    BY <1>8 DEF CommitUser
  <2>2. q.theme = Keep /\ q.op \notin {"follow", "unfollow"}
    BY <1>1, <2>1 DEF EditShape, EditRequest
  <2>3. QED
    BY <1>7, <2>1, <2>2
<1>9. CASE CommitProfile(e)
  <2>1. /\ q.op = "profile" /\ row' = Renamed(q)
        /\ bio' = (IF q.had /\ q.bio = q.copy THEN bio ELSE q.bio)
    BY <1>9 DEF CommitProfile
  <2>2. q.theme = Keep
    BY <1>1, <2>1 DEF EditShape
  <2>3. QED
    BY <1>1, <1>7, <2>1, <2>2
<1>10. CASE CommitPreferences(e)
  <2>1. /\ q.op = "preferences"
        /\ theme' = CASE q.theme = Keep -> DefaultTheme
                      [] q.had /\ q.theme = q.copy -> theme
                      [] OTHER -> q.theme
    BY <1>10 DEF CommitPreferences
  <2>2. q.username = Keep /\ q.email = Keep /\ q.bio = Keep
    BY <1>1, <2>1 DEF EditShape
  <2>3. q.theme # Keep => theme' = q.theme
    BY <1>1, <2>1
  <2>4. \A c \in UserColumns : q[c] = Keep
    BY <2>2, TextFacts
  <2>5. QED
    BY <2>1, <2>2, <2>3, <2>4
<1>11. CASE CommitFollow(e) \/ CommitUnfollow(e)
  <2>1. q.op \in {"follow", "unfollow"} /\ follows' = (q.op = "follow")
    BY <1>11 DEF CommitFollow, CommitUnfollow
  <2>2. q.username = Keep /\ q.email = Keep /\ q.bio = Keep /\ q.theme = Keep
    BY <1>1, <2>1 DEF EditShape
  <2>3. \A c \in UserColumns : q[c] = Keep
    BY <2>2, TextFacts
  <2>4. QED
    BY <2>1, <2>2, <2>3
<1>12. QED
  BY <1>6, <1>8, <1>9, <1>10, <1>11

\* What was answered 200 is stored, unless requests for the same columns overlap.
THEOREM AnsweredIsStored == ProfilesSpec => AskedIsStored
<1>1. MediaInv /\ UserInv /\ [ProfilesNext]_profilesVars =>
        [\A e \in Edits : Runs(e) /\ edit'[e].pc = "idle" /\ ~clashed =>
           LET q == edit[e] IN
           /\ \A c \in UserColumns : q[c] # Keep => row'[q.who][c] = q[c]
           /\ q.bio # Keep => bio' = q.bio
           /\ q.theme # Keep => theme' = q.theme
           /\ q.op \in {"follow", "unfollow"} => follows' = (q.op = "follow")]_profilesVars
  BY EveryAnswerStored
<1>2. QED
  BY <1>1, ProfilesInvariant, PTL DEF ProfilesSpec, AskedIsStored

=============================================================================
