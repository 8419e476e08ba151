------------------------- MODULE NotificationsProofs -------------------------
(***************************************************************************)
(* The registry of connections and the pushes, for every number of notices *)
(* and websockets.  The first section shows what a removal does to a list: *)
(* the others keep their order and only move up, so that what a loop over  *)
(* the list has behind it stays behind it.                                 *)
(***************************************************************************)
EXTENDS Notifications, FiniteSetTheorems, WellFoundedInduction, TLAPS

-----------------------------------------------------------------------------
(* Lists. *)

LEMMA Smallest ==
    ASSUME NEW T, T \subseteq Nat, T # {}
    PROVE  \E m \in T : \A n \in T : m <= n
<1>1. IsWellFoundedOn(OpToRel(<, Nat), Nat)
  BY NatLessThanWellFounded
<1>2. PICK m \in T : \A n \in T : ~ (<<n, m>> \in OpToRel(<, Nat))
  BY <1>1, WFMin
<1>3. ASSUME NEW n \in T, n < m PROVE <<n, m>> \in OpToRel(<, Nat)
  BY <1>3 DEF OpToRel
<1>4. \A n \in T : ~ (n < m)
  BY <1>2, <1>3
<1>5. m \in Nat /\ \A n \in T : n \in Nat
  OBVIOUS
<1>6. QED
  BY <1>4, <1>5

Upto(K, i) == {j \in K : j <= i}

LEMMA UptoMembers ==
    \A K, i, x : x \in Upto(K, i) <=> x \in K /\ x <= i
  BY DEF Upto

\* Some places of a list of length N.
Places(K, N) == N \in Nat /\ K \subseteq 1 .. N

LEMMA RankFacts ==
    ASSUME NEW K, NEW N, Places(K, N)
    PROVE  /\ IsFiniteSet(K)
           /\ \A i \in Nat : IsFiniteSet(Upto(K, i)) /\ Rank(K, i) \in Nat
           /\ \A i \in Nat : Rank(K, i) <= i
           /\ Rank(K, 0) = 0
           /\ Rank(K, N) = Cardinality(K)
           /\ \A i \in Nat : Rank(K, i) <= Cardinality(K)
<1>0. /\ N \in Nat /\ K \subseteq 1 .. N
      /\ \A j \in K : j \in Nat /\ 1 <= j /\ j <= N
  BY DEF Places
<1>1. IsFiniteSet(K)
  <2>1. 1 \in Int /\ N \in Int
    BY <1>0
  <2>2. IsFiniteSet(1 .. N)
    BY <2>1, FS_Interval
  <2>3. QED
    BY <1>0, <2>2, FS_Subset
<1>2. ASSUME NEW i \in Nat
      PROVE  /\ IsFiniteSet(Upto(K, i)) /\ Rank(K, i) \in Nat /\ Rank(K, i) <= i
             /\ Rank(K, i) <= Cardinality(K)
  <2>1. Upto(K, i) \subseteq K /\ Upto(K, i) \subseteq 1 .. i
    BY <1>0, UptoMembers
  <2>2. IsFiniteSet(1 .. i) /\ Cardinality(1 .. i) = i
    <3>1. 1 \in Int /\ i \in Int
      OBVIOUS
    <3>2. QED
      BY <3>1, FS_Interval
  <2>3. IsFiniteSet(Upto(K, i)) /\ Cardinality(Upto(K, i)) \in Nat
    BY <1>1, <2>1, FS_Subset, FS_CardinalityType
  <2>4. Cardinality(Upto(K, i)) <= Cardinality(K)
    BY <1>1, <2>1, FS_Subset
  <2>5. Cardinality(Upto(K, i)) <= i
    BY <2>1, <2>2, FS_Subset
  <2>6. QED
    BY <2>3, <2>4, <2>5 DEF Rank, Upto
<1>3. Rank(K, 0) = 0
  <2>0. \A x \in K : ~(x <= 0)
    BY <1>0
  <2>1. \A x : x \notin Upto(K, 0)
    BY <2>0, UptoMembers
  <2>2. QED
    BY <2>1, FS_EmptySet DEF Rank, Upto
<1>4. Rank(K, N) = Cardinality(K)
  <2>1. Upto(K, N) = K
    BY <1>0 DEF Upto
  <2>2. QED
    BY <2>1 DEF Rank, Upto
<1>5. QED
  BY <1>1, <1>2, <1>3, <1>4

\* The rank grows by one at each of the places.
LEMMA RankGrows ==
    ASSUME NEW K, NEW N, Places(K, N), NEW i \in Nat, NEW j \in K, i < j
    PROVE  /\ Rank(K, i) < Rank(K, j)
           /\ j - 1 = i => Rank(K, j) = Rank(K, i) + 1
<1>0. j \in Nat /\ \A x \in K : x \in Nat
  BY DEF Places
<1>1. IsFiniteSet(Upto(K, j)) /\ IsFiniteSet(Upto(K, i))
  BY <1>0, RankFacts
<1>2. j \in Upto(K, j)
  BY <1>0 DEF Upto
<1>3. /\ IsFiniteSet(Upto(K, j) \ {j})
      /\ Cardinality(Upto(K, j) \ {j}) = Cardinality(Upto(K, j)) - 1
  BY <1>1, <1>2, FS_RemoveElement
<1>11. \A x \in K : /\ x <= i => x <= j /\ x # j
                    /\ j - 1 = i /\ x <= j /\ x # j => x <= i
  <2> SUFFICES ASSUME NEW x \in K
               PROVE  /\ x <= i => x <= j /\ x # j
                      /\ j - 1 = i /\ x <= j /\ x # j => x <= i
    OBVIOUS
  <2>1. x \in Nat /\ j \in Nat /\ i < j
    BY <1>0
  <2>2. QED
    BY <2>1
<1>4. Upto(K, i) \subseteq Upto(K, j) \ {j}
  BY <1>11, UptoMembers
<1>5. Cardinality(Upto(K, i)) <= Cardinality(Upto(K, j)) - 1
  BY <1>3, <1>4, FS_Subset
<1>6. j - 1 = i => \A x : x \in Upto(K, i) <=> x \in Upto(K, j) \ {j}
  BY <1>11, UptoMembers
<1>7. Cardinality(Upto(K, j)) \in Nat /\ Cardinality(Upto(K, i)) \in Nat
  BY <1>1, FS_CardinalityType
<1>8. j - 1 = i => Cardinality(Upto(K, j)) = Cardinality(Upto(K, i)) + 1
  BY <1>3, <1>6, <1>7
<1>9. Cardinality(Upto(K, i)) < Cardinality(Upto(K, j))
  BY <1>5, <1>7
<1>10. QED
  BY <1>8, <1>9 DEF Rank, Upto

\* Every rank is taken, by one place.
LEMMA RankTaken ==
    ASSUME NEW K, NEW N, Places(K, N), NEW k \in 1 .. Cardinality(K)
    PROVE  \E i \in K : Rank(K, i) = k
<1>0. /\ N \in Nat /\ Cardinality(K) \in Nat /\ k \in Nat
      /\ k >= 1 /\ k <= Cardinality(K)
      /\ \A j \in K : j \in Nat
  <2>1. N \in Nat /\ \A j \in K : j \in Nat
    BY DEF Places
  <2>2. Cardinality(K) \in Nat
    BY RankFacts, FS_CardinalityType
  <2>3. QED
    BY <2>1, <2>2
<1> DEFINE T == {i \in Nat : Rank(K, i) >= k}
<1>1. N \in T
  BY <1>0, RankFacts
<1>2. PICK m \in T : \A n \in T : m <= n
  BY <1>1, Smallest
<1>3. m \in Nat /\ Rank(K, m) >= k /\ m # 0
  BY <1>0, <1>2, RankFacts
<1>4. m - 1 \in Nat /\ ~(m <= m - 1)
  BY <1>3
<1>5. m - 1 \notin T
  BY <1>2, <1>4
<1>6. Rank(K, m - 1) < k
  <2>1. Rank(K, m - 1) \in Nat
    BY <1>4, RankFacts
  <2>2. QED
    BY <1>0, <1>4, <1>5, <2>1
<1>7. m \in K
  <2>1. SUFFICES ASSUME m \notin K PROVE FALSE
    OBVIOUS
  <2>2. Upto(K, m) = Upto(K, m - 1)
    BY <1>0, <1>3, <2>1 DEF Upto
  <2>3. Rank(K, m) = Rank(K, m - 1)
    BY <2>2 DEF Rank, Upto
  <2>4. QED
    BY <1>0, <1>3, <1>4, <1>6, <2>3, RankFacts
<1>8. Rank(K, m) = Rank(K, m - 1) + 1
  <2>1. m - 1 < m /\ m - 1 = m - 1
    BY <1>3
  <2>2. QED
    BY <1>4, <1>7, <2>1, RankGrows
<1>9. Rank(K, m) = k
  <2>1. Rank(K, m - 1) \in Nat /\ Rank(K, m) \in Nat
    BY <1>3, <1>4, RankFacts
  <2>2. QED
    BY <1>0, <1>3, <1>6, <1>8, <2>1
<1>10. QED
  BY <1>7, <1>9

LEMMA RankUnique ==
    ASSUME NEW K, NEW N, Places(K, N), NEW i \in K, NEW j \in K,
           Rank(K, i) = Rank(K, j)
    PROVE  i = j
<1>1. i \in Nat /\ j \in Nat
  BY DEF Places
<1>2. Rank(K, i) \in Nat /\ Rank(K, j) \in Nat
  BY <1>1, RankFacts
<1>3. ~(i < j) /\ ~(j < i)
  BY <1>1, <1>2, RankGrows
<1>4. QED
  BY <1>1, <1>3

Distinct(s) == \A i, j \in DOMAIN s : s[i] = s[j] => i = j

\* A removal: the others stay, nobody twice, and none moves down; those before
\* the first one removed keep their places.
LEMMA WithoutFacts ==
    ASSUME NEW list \in Seq(Connections), NEW S
    PROVE  LET r == Without(list, S) IN
           /\ r \in Seq(Connections)
           /\ Elements(r) = Elements(list) \ S
           /\ Distinct(list) => Distinct(r)
           /\ \A k \in DOMAIN r : \E i \in DOMAIN list : k <= i /\ r[k] = list[i]
           /\ \A m \in DOMAIN list :
                (\A i \in DOMAIN list : i <= m => list[i] \notin S) =>
                   m \in DOMAIN r /\ r[m] = list[m]
<1> DEFINE K == Kept(list, S)
           N == Len(list)
           C == Cardinality(K)
           Place(k) == CHOOSE i \in K : Rank(K, i) = k
           r == Without(list, S)
<1>1. N \in Nat /\ DOMAIN list = 1 .. N /\ \A i \in 1 .. N : list[i] \in Connections
  OBVIOUS
<1>2. /\ Places(K, N) /\ C \in Nat
      /\ \A i : i \in K <=> i \in 1 .. N /\ list[i] \notin S
  <2>1. Places(K, N)
    BY <1>1 DEF Kept, Places
  <2>2. QED
    BY <1>1, <2>1, RankFacts, FS_CardinalityType DEF Kept
<1>3. \A k \in 1 .. C : Place(k) \in K /\ Rank(K, Place(k)) = k
  <2> SUFFICES ASSUME NEW k \in 1 .. C PROVE Place(k) \in K /\ Rank(K, Place(k)) = k
    OBVIOUS
  <2>1. \E i \in K : Rank(K, i) = k
    BY <1>2, RankTaken
  <2>2. QED
    BY <2>1
<1>4. r = [k \in 1 .. C |-> list[Place(k)]]
  BY DEF Without
<1>5. \A i \in K : Rank(K, i) \in 1 .. C /\ Place(Rank(K, i)) = i
  <2> SUFFICES ASSUME NEW i \in K
               PROVE  Rank(K, i) \in 1 .. C /\ Place(Rank(K, i)) = i
    OBVIOUS
  <2>1. i \in Nat /\ 0 < i /\ 0 \in Nat
    BY <1>1, <1>2
  <2>2. Rank(K, 0) < Rank(K, i)
    BY <1>2, <2>1, RankGrows
  <2>3. Rank(K, i) \in Nat /\ Rank(K, 0) = 0 /\ Rank(K, i) <= C
    BY <1>2, <2>1, RankFacts
  <2>4. Rank(K, i) \in 1 .. C
    BY <1>2, <2>2, <2>3
  <2>5. Place(Rank(K, i)) \in K /\ Rank(K, Place(Rank(K, i))) = Rank(K, i)
    BY <1>3, <2>4
  <2>6. Place(Rank(K, i)) = i
    BY <1>2, <2>5, RankUnique
  <2>7. QED
    BY <2>4, <2>6
<1>6. \A k \in 1 .. C : k <= Place(k) /\ Place(k) \in 1 .. N
  BY <1>1, <1>2, <1>3, RankFacts
<1>7. \A m \in 1 .. N : (\A i \in 1 .. N : i <= m => list[i] \notin S) =>
        m \in 1 .. C /\ Place(m) = m
  <2> SUFFICES ASSUME NEW m \in 1 .. N, \A i \in 1 .. N : i <= m => list[i] \notin S
               PROVE  m \in 1 .. C /\ Place(m) = m
    OBVIOUS
  <2>1. Upto(K, m) = 1 .. m
    BY <1>1, <1>2 DEF Upto
  <2>2. Rank(K, m) = m
    <3>1. 1 \in Int /\ m \in Int /\ m >= 1
      BY <1>1
    <3>2. Cardinality(1 .. m) = m
      BY <3>1, FS_Interval
    <3>3. QED
      BY <2>1, <3>2 DEF Rank, Upto
  <2>3. m \in K
    BY <1>1, <1>2
  <2>4. QED
    BY <1>5, <2>2, <2>3
<1> HIDE DEF K, N, C, Place, r
<1>8. r \in Seq(Connections)
  BY <1>1, <1>2, <1>4, <1>6
<1>9. DOMAIN r = 1 .. C /\ \A k \in 1 .. C : r[k] = list[Place(k)]
  BY <1>4
<1>10. Elements(r) = Elements(list) \ S
  <2>1. ASSUME NEW c \in Elements(r) PROVE c \in Elements(list) \ S
    BY <1>1, <1>2, <1>3, <1>9 DEF Elements
  <2>2. ASSUME NEW c \in Elements(list) \ S PROVE c \in Elements(r)
    <3>1. PICK i \in 1 .. N : c = list[i]
      BY <1>1 DEF Elements
    <3>2. i \in K
      BY <1>2, <3>1
    <3>3. Rank(K, i) \in DOMAIN r /\ r[Rank(K, i)] = c
      BY <1>5, <1>9, <3>1, <3>2
    <3>4. QED
      BY <3>3 DEF Elements
  <2>3. QED
    BY <2>1, <2>2
<1>11. Distinct(list) => Distinct(r)
  <2> SUFFICES ASSUME Distinct(list), NEW k \in 1 .. C, NEW l \in 1 .. C, r[k] = r[l]
               PROVE  k = l
    BY <1>9 DEF Distinct
  <2>1. Place(k) = Place(l)
    BY <1>1, <1>6, <1>9 DEF Distinct
  <2>2. QED
    BY <1>3, <2>1
<1>12. \A k \in DOMAIN r : \E i \in DOMAIN list : k <= i /\ r[k] = list[i]
  BY <1>1, <1>6, <1>9
<1>13. \A m \in DOMAIN list :
         (\A i \in DOMAIN list : i <= m => list[i] \notin S) =>
            m \in DOMAIN r /\ r[m] = list[m]
  BY <1>1, <1>7, <1>9
<1>14. QED
  BY <1>8, <1>10, <1>11, <1>12, <1>13 DEF r

-----------------------------------------------------------------------------
(* The invariant of the pushes. *)

\* The push of n is not past i: nobody at i or later has been sent the notice.
Ahead(n, i) == \A j \in DOMAIN active : i <= j => got[active[j]][n] = 0

\* c, which was there when the push t of n began, has got the notice or its
\* turn, at i or later, is to come.
Served(n, t, i, c) ==
    \/ got[c][n] > 0
    \/ t.list = lists /\ \E j \in DOMAIN active : i <= j /\ active[j] = c

\* What a loop that has not yet taken the element at i still has to do, c
\* being the connection whose send is awaited.
Looping(n, t, i, c) ==
    /\ i \in Nat /\ t.list \in Nat /\ t.list <= lists
    /\ t.list = lists => Ahead(n, i)
    /\ ~t.shrunk => \A x \in t.audience \ {c} :
                      socket[x] = "open" => Served(n, t, i, x)

\* The websockets a push deals with have been registered, and those whose send
\* failed are gone.
Dealt(n, t) ==
    /\ \A c \in t.audience : socket[c] # "new"
    /\ \A j \in DOMAIN t.dead : socket[t.dead[j]] \in {"lost", "closed"}
    /\ \A c \in Connections :
         /\ got[c][n] \in {0, 1}
         /\ socket[c] = "new" => got[c][n] = 0

PushInv(n) ==
    LET t == push[n] IN
    /\ t \in Push /\ Dealt(n, t)
    /\ t.pc = "sending" <=> t.to # Nobody
    /\ t.pc = "idle" => row[n] = "none"
    /\ t.pc # "idle" => row[n] # "none"
    /\ t.pc \in {"idle", "stored", "counted"} =>
         /\ t.audience = {} /\ t.dead = <<>>
         /\ \A c \in Connections : got[c][n] = 0
    /\ t.pc = "sending" =>
         /\ socket[t.to] # "new" /\ got[t.to][n] = 0
         /\ t.list = lists => \A j \in DOMAIN active : t.index < j => active[j] # t.to
         /\ Looping(n, t, t.index + 1, t.to)
    /\ t.pc = "done" /\ ~t.shrunk =>
         \A c \in t.audience : socket[c] = "open" => got[c][n] > 0

Registry ==
    /\ row \in [Notices -> {"none", "unread", "read"}]
    /\ push \in [Notices -> Push]
    /\ socket \in [Connections -> Socket]
    /\ active \in Seq(Connections)
    /\ lists \in Nat
    /\ got \in [Connections -> [Notices -> Nat]]
    /\ RegistryExact

PushesInv == Registry /\ \A n \in Notices : PushInv(n)

-----------------------------------------------------------------------------
(* What happens to the registry. *)

\* Handlers only go forward: a websocket that is open was open or new.
SocketsForward ==
    \A c \in Connections :
        /\ socket'[c] = "new" => socket[c] = "new"
        /\ socket'[c] = "open" => socket[c] \in {"new", "open"}
        /\ socket[c] \in {"lost", "closed"} => socket'[c] \in {"lost", "closed"}

\* A websocket is registered.
Joins(c) ==
    /\ c \in Connections /\ socket[c] = "new"
    /\ active' = Append(active, c)
    /\ lists' = IF active = <<>> THEN lists + 1 ELSE lists

\* Those of S that are in the list, none of them open, are removed from it.
Leave(S) ==
    /\ \A c \in S \cap Connections : socket[c] # "open"
    /\ active' = Without(active, S) /\ lists' = lists

ListStep(S) ==
    \/ UNCHANGED <<active, lists>> /\ S = {}
    \/ (\E c : Joins(c)) /\ S = {}
    \/ Leave(S)

\* What the list was: its new elements are old ones that may have moved up, or
\* have just been registered.
LEMMA ListBefore ==
    ASSUME Registry, NEW S, ListStep(S), NEW l \in Nat, l <= lists
    PROVE  /\ active' \in Seq(Connections) /\ lists' \in Nat /\ l <= lists'
           /\ l = lists' =>
                /\ l = lists
                /\ \A k \in DOMAIN active' :
                     \/ socket[active'[k]] = "new"
                     \/ \E j \in DOMAIN active : k <= j /\ active'[k] = active[j]
<1>0. active \in Seq(Connections) /\ lists \in Nat
  BY DEF Registry
<1>1. CASE UNCHANGED <<active, lists>>
  BY <1>0, <1>1
<1>2. ASSUME NEW c, Joins(c)
      PROVE  /\ active' \in Seq(Connections) /\ lists' \in Nat /\ l <= lists'
             /\ l = lists' =>
                  /\ l = lists
                  /\ \A k \in DOMAIN active' :
                       \/ socket[active'[k]] = "new"
                       \/ \E j \in DOMAIN active : k <= j /\ active'[k] = active[j]
  <2>1. /\ active' \in Seq(Connections) /\ DOMAIN active' = 1 .. Len(active) + 1
        /\ \A k \in DOMAIN active : active'[k] = active[k]
        /\ active'[Len(active) + 1] = c
        /\ DOMAIN active = 1 .. Len(active) /\ Len(active) \in Nat
    BY <1>0, <1>2 DEF Joins
  <2>2. \A k \in DOMAIN active' :
          \/ socket[active'[k]] = "new"
          \/ \E j \in DOMAIN active : k <= j /\ active'[k] = active[j]
    BY <1>2, <2>1 DEF Joins
  <2>3. lists' \in {lists, lists + 1}
    BY <1>2 DEF Joins
  <2>4. QED
    BY <1>0, <2>1, <2>2, <2>3
<1>3. CASE Leave(S)
  <2>1. active' = Without(active, S) /\ lists' = lists
    BY <1>3 DEF Leave
  <2>2. /\ active' \in Seq(Connections)
        /\ \A k \in DOMAIN active' : \E j \in DOMAIN active :
              k <= j /\ active'[k] = active[j]
    BY <1>0, <2>1, WithoutFacts
  <2>3. QED
    BY <1>0, <2>1, <2>2
<1>4. QED
  BY <1>1, <1>2, <1>3 DEF ListStep

\* What becomes of a registered connection: if it is open it stays, and it stays
\* after i unless one of the first i is removed.
LEMMA ListAfter ==
    ASSUME Registry, NEW S, ListStep(S), NEW i \in Nat, NEW j \in DOMAIN active,
           i < j, socket[active[j]] = "open",
           \A k \in DOMAIN active : k <= i => active[k] \notin S
    PROVE  lists' = lists /\ \E k \in DOMAIN active' : i < k /\ active'[k] = active[j]
<1>0. /\ active \in Seq(Connections) /\ lists \in Nat /\ Distinct(active)
      /\ j \in Nat /\ active # <<>> /\ active[j] \in Connections
      /\ DOMAIN active = 1 .. Len(active) /\ Len(active) \in Nat
  BY DEF Registry, RegistryExact, Distinct
<1>1. CASE UNCHANGED <<active, lists>>
  BY <1>1
<1>2. ASSUME NEW c, Joins(c)
      PROVE  lists' = lists /\ \E k \in DOMAIN active' : i < k /\ active'[k] = active[j]
  BY <1>0, <1>2 DEF Joins
<1>3. CASE Leave(S)
  <2>1. /\ active' = Without(active, S) /\ lists' = lists /\ active[j] \notin S
    BY <1>0, <1>3 DEF Leave
  <2>2. /\ active' \in Seq(Connections) /\ Elements(active') = Elements(active) \ S
        /\ \A m \in DOMAIN active :
             (\A k \in DOMAIN active : k <= m => active[k] \notin S) =>
                m \in DOMAIN active' /\ active'[m] = active[m]
    <3>1. active \in Seq(Connections) /\ Without(active, S) = active'
      BY <1>0, <2>1
    <3>2. QED
      BY <3>1, WithoutFacts
  <2>3. PICK k \in DOMAIN active' : active'[k] = active[j]
    BY <2>1, <2>2 DEF Elements
  <2>4. k \in Nat /\ k >= 1
    BY <2>2
  <2>5. i < k
    <3>1. SUFFICES ASSUME k <= i PROVE FALSE
      BY <2>4
    <3>2. k \in DOMAIN active /\ k # j
      BY <1>0, <2>4, <3>1
    <3>3. \A x \in DOMAIN active : x <= k => active[x] \notin S
      BY <1>0, <2>4, <3>1
    <3>4. active'[k] = active[k]
      BY <2>2, <3>2, <3>3
    <3>5. QED
      BY <1>0, <2>3, <3>2, <3>4 DEF Distinct
  <2>6. QED
    BY <2>1, <2>3, <2>5
<1>4. QED
  BY <1>1, <1>2, <1>3 DEF ListStep

\* A push that does not move: its loop is marked if the list shrinks under it.
Waits(n, S) ==
    /\ \A c \in Connections : got'[c][n] = got[c][n]
    /\ row'[n] = "none" <=> row[n] = "none"
    /\ push'[n] = IF /\ push[n].pc = "sending" /\ push[n].list = lists
                     /\ \E i \in DOMAIN active : i <= push[n].index /\ active[i] \in S
                  THEN [push[n] EXCEPT !.shrunk = TRUE] ELSE push[n]

LEMMA WaitsInv ==
    ASSUME PushesInv, NEW S, ListStep(S), SocketsForward, NEW n \in Notices, Waits(n, S)
    PROVE  PushInv(n)'
<1> DEFINE t == push[n]
           u == push'[n]
<1>0. /\ Registry /\ PushInv(n)
      /\ active \in Seq(Connections) /\ lists \in Nat
      /\ t \in Push /\ Dealt(n, t)
  BY DEF PushesInv, Registry, PushInv
<1>1. /\ u \in Push /\ u.pc = t.pc /\ u.list = t.list /\ u.index = t.index
      /\ u.to = t.to /\ u.dead = t.dead /\ u.audience = t.audience
      /\ ~u.shrunk =>
           /\ ~t.shrunk
           /\ t.pc = "sending" /\ t.list = lists =>
                \A k \in DOMAIN active : k <= t.index => active[k] \notin S
  BY <1>0 DEF Waits, Push
<1>2. /\ t.index \in Nat /\ t.list \in Nat /\ t.audience \subseteq Connections
      /\ t.dead \in Seq(Connections) /\ t.to \in Connections \cup {Nobody}
  BY <1>0 DEF Push
<1> HIDE DEF t, u
<1>3. \A c \in Connections : got'[c][n] = got[c][n]
  BY DEF Waits
<1>4. Dealt(n, push[n])'
  <2>1. \A c \in u.audience : socket'[c] # "new"
    BY <1>0, <1>1, <1>2 DEF Dealt, SocketsForward
  <2>2. \A j \in DOMAIN u.dead : socket'[u.dead[j]] \in {"lost", "closed"}
    BY <1>0, <1>1, <1>2 DEF Dealt, SocketsForward
  <2>3. \A c \in Connections : /\ got'[c][n] \in {0, 1}
                               /\ socket'[c] = "new" => got'[c][n] = 0
    BY <1>0, <1>3 DEF Dealt, SocketsForward
  <2>4. QED
    BY <2>1, <2>2, <2>3 DEF Dealt, u
<1>5. ASSUME u.pc = "sending"
      PROVE  /\ socket'[u.to] # "new" /\ got'[u.to][n] = 0
             /\ u.list = lists' => \A k \in DOMAIN active' : u.index < k => active'[k] # u.to
             /\ Looping(n, push[n], push[n].index + 1, push[n].to)'
  <2>1. /\ t.pc = "sending" /\ t.to \in Connections
        /\ socket[t.to] # "new" /\ got[t.to][n] = 0
        /\ t.list = lists => \A j \in DOMAIN active : t.index < j => active[j] # t.to
        /\ Looping(n, t, t.index + 1, t.to)
    BY <1>0, <1>1, <1>2, <1>5 DEF PushInv, t
  <2>2. socket'[u.to] # "new" /\ got'[u.to][n] = 0
    BY <1>1, <1>3, <2>1 DEF SocketsForward
  <2>3. /\ active' \in Seq(Connections) /\ lists' \in Nat /\ t.list <= lists'
        /\ t.list = lists' =>
             /\ t.list = lists
             /\ \A k \in DOMAIN active' :
                  \/ socket[active'[k]] = "new"
                  \/ \E j \in DOMAIN active : k <= j /\ active'[k] = active[j]
    BY <1>0, <1>2, <2>1, ListBefore DEF Looping
  <2>4. ASSUME u.list = lists', NEW k \in DOMAIN active', u.index < k
        PROVE  active'[k] # u.to /\ got'[active'[k]][n] = 0
    <3>0. active'[k] \in Connections /\ k \in Nat
      BY <2>3
    <3>1. CASE socket[active'[k]] = "new"
      BY <1>0, <1>1, <1>3, <2>1, <3>0, <3>1 DEF Dealt
    <3>2. CASE \E j \in DOMAIN active : k <= j /\ active'[k] = active[j]
      <4>1. PICK j \in DOMAIN active : k <= j /\ active'[k] = active[j]
        BY <3>2
      <4>2. j \in Nat /\ t.index < j /\ t.index + 1 <= j /\ t.list = lists
        BY <1>0, <1>1, <1>2, <2>3, <2>4, <3>0, <4>1
      <4>3. got[active[j]][n] = 0 /\ active[j] # t.to
        BY <2>1, <4>2 DEF Looping, Ahead
      <4>4. QED
        BY <1>1, <1>3, <3>0, <4>1, <4>3
    <3>3. QED
      BY <1>1, <2>3, <2>4, <3>1, <3>2
  <2>5. ASSUME ~u.shrunk, NEW x \in u.audience \ {u.to}, socket'[x] = "open"
        PROVE  Served(n, push[n], push[n].index + 1, x)'
    <3>1. x \in Connections /\ socket[x] = "open"
      BY <1>0, <1>1, <1>2, <2>5 DEF Dealt, SocketsForward
    <3>2. Served(n, t, t.index + 1, x)
      BY <1>1, <2>1, <2>5, <3>1 DEF Looping
    <3>3. CASE got[x][n] > 0
      BY <1>3, <3>1, <3>3 DEF Served
    <3>4. ASSUME t.list = lists,
                 NEW j \in DOMAIN active, t.index + 1 <= j, active[j] = x
          PROVE  Served(n, push[n], push[n].index + 1, x)'
      <4>1. j \in Nat /\ t.index < j
        BY <1>0, <1>2, <3>4
      <4>2. \A k \in DOMAIN active : k <= t.index => active[k] \notin S
        BY <1>1, <2>1, <2>5, <3>4
      <4>3. lists' = lists /\ \E k \in DOMAIN active' : t.index < k /\ active'[k] = x
        BY <1>0, <1>2, <3>1, <3>4, <4>1, <4>2, ListAfter
      <4>4. PICK k \in DOMAIN active' : t.index < k /\ active'[k] = x
        BY <4>3
      <4>5. k \in Nat /\ u.index + 1 <= k
        BY <1>1, <1>2, <2>3, <4>4
      <4>6. QED
        BY <1>1, <3>4, <4>3, <4>4, <4>5 DEF Served, u
    <3>5. QED
      BY <3>2, <3>3, <3>4 DEF Served
  <2>6. Looping(n, push[n], push[n].index + 1, push[n].to)'
    <3>1. u.index + 1 \in Nat /\ u.list \in Nat /\ u.list <= lists'
      BY <1>1, <1>2, <2>3
    <3>2. u.list = lists' => \A k \in DOMAIN active' :
             u.index + 1 <= k => got'[active'[k]][n] = 0
      <4>1. ASSUME NEW k \in DOMAIN active', u.index + 1 <= k PROVE u.index < k
        BY <1>1, <1>2, <2>3, <4>1
      <4>2. QED
        BY <2>4, <4>1
    <3>3. QED
      BY <2>5, <3>1, <3>2 DEF Looping, Ahead, u
  <2>7. QED
    BY <2>2, <2>4, <2>6
<1>6. ASSUME u.pc = "done", ~u.shrunk, NEW c \in u.audience, socket'[c] = "open"
      PROVE  got'[c][n] > 0
  <2>1. c \in Connections /\ socket[c] = "open"
    BY <1>0, <1>1, <1>2, <1>6 DEF Dealt, SocketsForward
  <2>2. got[c][n] > 0
    BY <1>0, <1>1, <1>6, <2>1 DEF PushInv, t
  <2>3. QED
    BY <1>3, <2>1, <2>2
<1>7. /\ u.pc = "sending" <=> u.to # Nobody
      /\ u.pc = "idle" => row'[n] = "none"
      /\ u.pc # "idle" => row'[n] # "none"
      /\ u.pc \in {"idle", "stored", "counted"} =>
           /\ u.audience = {} /\ u.dead = <<>>
           /\ \A c \in Connections : got'[c][n] = 0
  BY <1>0, <1>1, <1>3 DEF PushInv, Waits, t
<1>8. QED
  BY <1>1, <1>4, <1>5, <1>6, <1>7 DEF PushInv, u

\* The registry stays exact when those that leave are removed.
LEMMA LeaveExact ==
    ASSUME Registry, NEW S, Leave(S),
           \A c \in Connections :
              /\ socket'[c] \in {"new", "open"} => socket'[c] = socket[c]
              /\ socket'[c] = "closed" /\ c \notin S => socket[c] \in {"new", "closed"}
    PROVE  RegistryExact'
<1>1. /\ active \in Seq(Connections) /\ Without(active, S) = active'
      /\ Distinct(active)
      /\ \A c \in Connections :
           /\ socket[c] = "open" => c \in Elements(active)
           /\ socket[c] \in {"new", "closed"} => c \notin Elements(active)
  BY DEF Registry, RegistryExact, Leave, Distinct
<1>2. Elements(active') = Elements(active) \ S /\ Distinct(active')
  BY <1>1, WithoutFacts
<1>3. ASSUME NEW c \in Connections
      PROVE  /\ socket'[c] = "open" => c \in Elements(active')
             /\ socket'[c] \in {"new", "closed"} => c \notin Elements(active')
  BY <1>1, <1>2 DEF Leave
<1>4. QED
  BY <1>2, <1>3 DEF RegistryExact, Distinct

LEMMA SameExact ==
    ASSUME Registry, active' = active,
           \A c \in Connections :
              /\ socket'[c] = "open" => socket[c] = "open"
              /\ socket'[c] \in {"new", "closed"} => socket[c] \in {"new", "closed"}
    PROVE  RegistryExact'
  BY DEF Registry, RegistryExact, Elements

LEMMA JoinsExact ==
    ASSUME Registry, NEW c, Joins(c), socket' = [socket EXCEPT ![c] = "open"]
    PROVE  RegistryExact'
<1>1. /\ active \in Seq(Connections) /\ socket \in [Connections -> Socket]
      /\ Distinct(active)
      /\ \A x \in Connections :
           /\ socket[x] = "open" => x \in Elements(active)
           /\ socket[x] \in {"new", "closed"} => x \notin Elements(active)
      /\ c \in Connections /\ socket[c] = "new" /\ active' = Append(active, c)
  BY DEF Registry, RegistryExact, Joins, Distinct
<1>2. /\ Len(active) \in Nat /\ DOMAIN active = 1 .. Len(active)
      /\ DOMAIN active' = 1 .. Len(active) + 1
      /\ \A k \in DOMAIN active : active'[k] = active[k]
      /\ active'[Len(active) + 1] = c
  BY <1>1
<1>3. c \notin Elements(active)
  BY <1>1
<1>4. Distinct(active')
  BY <1>1, <1>2, <1>3 DEF Distinct, Elements
<1>5. Elements(active') = Elements(active) \cup {c}
  BY <1>2 DEF Elements
<1>6. QED
  BY <1>1, <1>4, <1>5 DEF RegistryExact, Distinct

-----------------------------------------------------------------------------
(* A step of a loop. *)

LEMMA ContinueInv ==
    ASSUME PushesInv, NEW n \in Notices, NEW t \in Push, NEW i \in Nat, 1 <= i,
           Continue(n, t, i), UNCHANGED <<row, socket, lists>>, row[n] # "none",
           got' \in [Connections -> [Notices -> Nat]],
           \A m \in Notices \ {n}, c \in Connections : got'[c][m] = got[c][m],
           \A c \in Connections : /\ got'[c][n] \in {0, 1}
                                  /\ socket[c] = "new" => got'[c][n] = 0,
           \A c \in t.audience : socket[c] # "new",
           \A j \in DOMAIN t.dead : socket[t.dead[j]] \in {"lost", "closed"},
           t.list <= lists,
           t.list = lists =>
              \A j \in DOMAIN active : i <= j => got'[active[j]][n] = 0,
           ~t.shrunk => \A x \in t.audience : socket[x] = "open" =>
              \/ got'[x][n] > 0
              \/ t.list = lists /\ \E j \in DOMAIN active : i <= j /\ active[j] = x
    PROVE  PushesInv'
<1>0. /\ Registry /\ push \in [Notices -> Push] /\ active \in Seq(Connections)
      /\ lists \in Nat /\ socket \in [Connections -> Socket]
      /\ DOMAIN active = 1 .. Len(active) /\ Len(active) \in Nat
      /\ Distinct(active)
      /\ \A j \in DOMAIN active : active[j] \in Connections /\ socket[active[j]] # "new"
      /\ t.list \in Nat /\ t.audience \subseteq Connections /\ t.dead \in Seq(Connections)
  <2>1. /\ Registry /\ push \in [Notices -> Push] /\ active \in Seq(Connections)
        /\ lists \in Nat /\ socket \in [Connections -> Socket] /\ RegistryExact
    BY DEF PushesInv, Registry
  <2>2. /\ DOMAIN active = 1 .. Len(active) /\ Len(active) \in Nat
        /\ \A j \in DOMAIN active : active[j] \in Connections
    BY <2>1
  <2>3. Distinct(active) /\ \A j \in DOMAIN active : socket[active[j]] # "new"
    BY <2>1, <2>2 DEF RegistryExact, Distinct, Elements
  <2>4. t.list \in Nat /\ t.audience \subseteq Connections /\ t.dead \in Seq(Connections)
    BY DEF Push
  <2>5. QED
    BY <2>1, <2>2, <2>3, <2>4
<1>1. SocketsForward
  BY <1>0 DEF SocketsForward, Socket
<1>2. \A c \in Connections :
        /\ socket'[c] \in {"new", "open"} => socket'[c] = socket[c]
        /\ socket'[c] = "closed" => socket[c] \in {"new", "closed"}
        /\ socket'[c] \in {"new", "closed"} => socket[c] \in {"new", "closed"}
        /\ socket'[c] = "open" => socket[c] = "open"
  OBVIOUS
<1>3. ASSUME NEW S, ListStep(S), \A m \in Notices \ {n} : Waits(m, S)
      PROVE  \A m \in Notices \ {n} : PushInv(m)'
  BY <1>1, <1>3, WaitsInv
<1>4. Dealt(n, t)'
  BY DEF Dealt
<1>5. ASSUME i <= Len(Iterated(t)), UNCHANGED active,
             push' = [push EXCEPT ![n] =
                        [t EXCEPT !.pc = "sending", !.index = i, !.to = Iterated(t)[i]]]
      PROVE  PushesInv'
  <2>1. t.list = lists /\ Iterated(t) = active /\ i \in DOMAIN active
    <3>1. Len(<<>>) = 0
      OBVIOUS
    <3>2. QED
      BY <1>0, <1>5, <3>1 DEF Iterated
  <2>2. active[i] \in Connections /\ socket[active[i]] # "new" /\ active[i] # Nobody
    BY <1>0, <2>1, NobodyAssumption
  <2>3. PICK u \in Push : /\ push' = [push EXCEPT ![n] = u]
                          /\ u.pc = "sending" /\ u.index = i /\ u.to = active[i]
                          /\ u.list = t.list /\ u.dead = t.dead
                          /\ u.audience = t.audience /\ u.shrunk = t.shrunk
    <3> DEFINE v == [t EXCEPT !.pc = "sending", !.index = i, !.to = active[i]]
    <3>1. v \in Push
      BY <2>2 DEF Push
    <3>2. /\ v.pc = "sending" /\ v.index = i /\ v.to = active[i]
          /\ v.list = t.list /\ v.dead = t.dead
          /\ v.audience = t.audience /\ v.shrunk = t.shrunk
      BY DEF Push
    <3>3. push' = [push EXCEPT ![n] = v]
      BY <1>5, <2>1
    <3>4. QED
      BY <3>1, <3>2, <3>3
  <2>4. push'[n] = u /\ \A m \in Notices \ {n} : push'[m] = push[m]
    BY <1>0, <2>3
  <2>5. \A m \in Notices \ {n} : Waits(m, {})
    BY <2>4 DEF Waits
  <2>6. \A m \in Notices \ {n} : PushInv(m)'
    BY <1>3, <1>5, <2>5 DEF ListStep
  <2>7. \A j \in DOMAIN active : i < j => active[j] # active[i]
    <3>1. \A j \in DOMAIN active : i < j => j # i
      BY <1>0
    <3>2. QED
      BY <1>0, <2>1, <3>1 DEF Distinct
  <2>8. Looping(n, push[n], push[n].index + 1, push[n].to)'
    <3>1. i + 1 \in Nat /\ \A j \in DOMAIN active : i + 1 <= j => i <= j
      BY <1>0
    <3>2. \A x \in t.audience \ {active[i]} : ~t.shrunk /\ socket[x] = "open" =>
            \/ got'[x][n] > 0
            \/ t.list = lists /\ \E j \in DOMAIN active : i + 1 <= j /\ active[j] = x
      <4> SUFFICES ASSUME NEW x \in t.audience \ {active[i]}, ~t.shrunk,
                          socket[x] = "open", ~(got'[x][n] > 0)
                   PROVE  t.list = lists /\
                            \E j \in DOMAIN active : i + 1 <= j /\ active[j] = x
        OBVIOUS
      <4>1. PICK j \in DOMAIN active : i <= j /\ active[j] = x
        OBVIOUS
      <4>2. j # i /\ i + 1 <= j
        BY <1>0, <4>1
      <4>3. QED
        BY <2>1, <4>1, <4>2
    <3>3. QED
      BY <1>0, <1>5, <2>1, <2>3, <2>4, <3>1, <3>2 DEF Looping, Ahead, Served
  <2>9. PushInv(n)'
    <3>1. Dealt(n, push[n])'
      BY <1>4, <2>3, <2>4 DEF Dealt
    <3>2. got'[active[i]][n] = 0
      BY <2>1
    <3>3. /\ u \in Push /\ u.pc = "sending" /\ u.to = active[i] /\ u.index = i
      BY <2>3
    <3>4. QED
      BY <1>5, <2>2, <2>4, <2>7, <2>8, <3>1, <3>2, <3>3 DEF PushInv
  <2>10. Registry'
    <3>1. push' \in [Notices -> Push]
      BY <1>0, <2>3
    <3>2. RegistryExact'
      BY <1>0, <1>2, <1>5, SameExact
    <3>3. QED
      BY <1>0, <1>5, <3>1, <3>2 DEF Registry
  <2>11. QED
    BY <2>6, <2>9, <2>10 DEF PushesInv
<1>6. ASSUME i > Len(Iterated(t)),
             push' = Shrink([push EXCEPT ![n] = [t EXCEPT !.pc = "done", !.to = Nobody]],
                            Cleanable(active, t.dead)),
             active' = Without(active, Cleanable(active, t.dead))
      PROVE  PushesInv'
  <2> DEFINE S == Cleanable(active, t.dead)
  <2>1. \A c \in S : socket[c] \in {"lost", "closed"}
    BY DEF Cleanable
  <2> HIDE DEF S
  <2>2. Leave(S) /\ ListStep(S)
    BY <1>6, <2>1 DEF Leave, ListStep, S
  <2>3. PICK u \in Push : /\ push' = Shrink([push EXCEPT ![n] = u], S)
                          /\ u.pc = "done" /\ u.to = Nobody
                          /\ u.list = t.list /\ u.dead = t.dead
                          /\ u.audience = t.audience /\ u.shrunk = t.shrunk
    <3> DEFINE v == [t EXCEPT !.pc = "done", !.to = Nobody]
    <3>1. v \in Push
      BY DEF Push
    <3>2. /\ v.pc = "done" /\ v.to = Nobody
          /\ v.list = t.list /\ v.dead = t.dead
          /\ v.audience = t.audience /\ v.shrunk = t.shrunk
      BY DEF Push
    <3>3. push' = Shrink([push EXCEPT ![n] = v], S)
      BY <1>6 DEF S
    <3>4. QED
      BY <3>1, <3>2, <3>3
  <2>4. push'[n] = u /\ DOMAIN push' = Notices
    BY <1>0, <2>3 DEF Shrink
  <2>12. /\ u \in Push /\ u.pc = "done" /\ u.to = Nobody
        /\ u.dead = t.dead /\ u.audience = t.audience /\ u.shrunk = t.shrunk
    BY <2>3
  <2>5. \A m \in Notices \ {n} : Waits(m, S)
    BY <1>0, <2>3 DEF Shrink, Waits
  <2>6. \A m \in Notices \ {n} : PushInv(m)'
    BY <1>3, <2>2, <2>5
  <2>7. \A x \in t.audience : ~t.shrunk /\ socket[x] = "open" => got'[x][n] > 0
    BY <1>0, <1>6 DEF Iterated
  <2>8. Dealt(n, push[n])'
    BY <1>4, <2>4, <2>12 DEF Dealt
  <2>9. PushInv(n)'
    BY <2>4, <2>7, <2>8, <2>12 DEF PushInv
  <2>10. Registry'
    <3>1. push' \in [Notices -> Push]
      <4>1. \A m \in Notices \ {n} : push'[m] \in Push
        <5>1. ASSUME NEW v \in Push PROVE [v EXCEPT !.shrunk = TRUE] \in Push
          BY DEF Push
        <5>2. \A m \in Notices \ {n} :
                 push'[m] = push[m] \/ push'[m] = [push[m] EXCEPT !.shrunk = TRUE]
          BY <2>5 DEF Waits
        <5>3. \A m \in Notices : push[m] \in Push
          BY <1>0
        <5>4. QED
          BY <5>1, <5>2, <5>3, Zenon
      <4>2. push' = [m \in Notices |-> push'[m]]
        BY <2>3 DEF Shrink
      <4>3. QED
        BY <2>4, <4>1, <4>2
    <3>2. RegistryExact'
      BY <1>0, <1>2, <2>2, LeaveExact
    <3>3. active' \in Seq(Connections)
      BY <1>0, <1>6, WithoutFacts
    <3>4. QED
      BY <1>0, <3>1, <3>2, <3>3 DEF Registry
  <2>11. QED
    BY <2>6, <2>9, <2>10 DEF PushesInv
<1>7. QED
  BY <1>5, <1>6 DEF Continue

-----------------------------------------------------------------------------

LEMMA PushesInit == Init => PushesInv
<1> SUFFICES ASSUME Init PROVE PushesInv
  OBVIOUS
<1> DEFINE p == [pc |-> "idle", list |-> 0, index |-> 0, to |-> Nobody,
                 dead |-> <<>>, audience |-> {}, shrunk |-> FALSE]
<1>1. p \in Push
  BY DEF Push
<1>2. \A n \in Notices : push[n] = p
  BY DEF Init
<1>3. Registry
  BY <1>1 DEF Init, Registry, RegistryExact, Socket, Elements
<1>4. ASSUME NEW n \in Notices PROVE PushInv(n)
  <2>1. \A c \in Connections : got[c][n] = 0 /\ row[n] = "none"
    BY DEF Init
  <2>2. /\ p.pc = "idle" /\ p.to = Nobody /\ p.audience = {} /\ p.dead = <<>>
        /\ DOMAIN p.dead = {}
    OBVIOUS
  <2>3. Dealt(n, p)
    BY <2>1, <2>2 DEF Dealt
  <2>4. row[n] = "none"
    BY DEF Init
  <2> HIDE DEF p
  <2>5. QED
    BY <1>1, <1>2, <2>1, <2>2, <2>3, <2>4 DEF PushInv
<1>5. QED
  BY <1>3, <1>4 DEF PushesInv

\* The handlers of the websockets.
LEMMA HandlerInv ==
    ASSUME PushesInv, NEW c \in Connections,
           Connect(c) \/ Reject(c) \/ Lose(c) \/ HandlerReturns(c)
    PROVE  PushesInv'
<1>0. /\ Registry /\ push \in [Notices -> Push] /\ socket \in [Connections -> Socket]
      /\ active \in Seq(Connections) /\ lists \in Nat
  BY DEF PushesInv, Registry
<1>1. SocketsForward /\ socket' \in [Connections -> Socket]
  BY <1>0 DEF Connect, Reject, Lose, HandlerReturns, SocketsForward, Socket
<1>2. UNCHANGED <<row, got>>
  BY DEF Connect, Reject, Lose, HandlerReturns
<1>3. ASSUME NEW S, ListStep(S), \A n \in Notices : Waits(n, S)
      PROVE  \A n \in Notices : PushInv(n)'
  BY <1>1, <1>3, WaitsInv
<1>4. CASE Connect(c)
  <2>1. Joins(c) /\ push' = push
    BY <1>4 DEF Connect, Joins
  <2>2. ListStep({}) /\ \A n \in Notices : Waits(n, {})
    BY <1>2, <2>1 DEF ListStep, Waits
  <2>3. RegistryExact'
    BY <1>0, <1>4, <2>1, JoinsExact DEF Connect
  <2>4. active' \in Seq(Connections) /\ lists' \in Nat
    BY <1>0, <2>1 DEF Joins
  <2>5. Registry'
    BY <1>0, <1>1, <1>2, <2>1, <2>3, <2>4 DEF Registry
  <2>6. QED
    BY <1>3, <2>2, <2>5 DEF PushesInv
<1>5. CASE Reject(c) \/ Lose(c)
  <2>1. UNCHANGED <<push, active, lists>>
    BY <1>5 DEF Reject, Lose
  <2>2. ListStep({}) /\ \A n \in Notices : Waits(n, {})
    BY <1>2, <2>1 DEF ListStep, Waits
  <2>3. RegistryExact'
    <3>1. \A x \in Connections :
            /\ socket'[x] = "open" => socket[x] = "open"
            /\ socket'[x] \in {"new", "closed"} => socket[x] \in {"new", "closed"}
      BY <1>0, <1>5 DEF Reject, Lose
    <3>2. QED
      BY <1>0, <2>1, <3>1, SameExact
  <2>4. Registry'
    BY <1>0, <1>1, <1>2, <2>1, <2>3 DEF Registry
  <2>5. QED
    BY <1>3, <2>2, <2>4 DEF PushesInv
<1>6. CASE HandlerReturns(c)
  <2>1. /\ socket' = [socket EXCEPT ![c] = "closed"] /\ socket[c] = "lost"
        /\ active' = Without(active, {c}) /\ push' = Shrink(push, {c}) /\ lists' = lists
    BY <1>6 DEF HandlerReturns
  <2>2. Leave({c}) /\ ListStep({c})
    BY <2>1 DEF Leave, ListStep
  <2>3. \A n \in Notices : Waits(n, {c})
    BY <1>2, <2>1 DEF Waits, Shrink
  <2>4. RegistryExact'
    <3>1. \A x \in Connections :
            /\ socket'[x] \in {"new", "open"} => socket'[x] = socket[x]
            /\ socket'[x] = "closed" /\ x \notin {c} => socket[x] \in {"new", "closed"}
      BY <1>0, <2>1
    <3>2. QED
      BY <1>0, <2>2, <3>1, LeaveExact
  <2>5. push' \in [Notices -> Push]
    <3>1. ASSUME NEW v \in Push PROVE [v EXCEPT !.shrunk = TRUE] \in Push
      BY DEF Push
    <3>2. \A n \in Notices : push[n] \in Push
      BY <1>0
    <3>3. \A n \in Notices :
            push'[n] = push[n] \/ push'[n] = [push[n] EXCEPT !.shrunk = TRUE]
      BY <2>3 DEF Waits
    <3>4. \A n \in Notices : push'[n] \in Push
      BY <3>1, <3>2, <3>3, Zenon
    <3>5. push' = [n \in Notices |-> push'[n]]
      BY <2>1 DEF Shrink
    <3>6. QED
      BY <3>4, <3>5
  <2>6. active' \in Seq(Connections)
    BY <1>0, <2>1, WithoutFacts
  <2>7. Registry'
    BY <1>0, <1>1, <1>2, <2>1, <2>4, <2>5, <2>6 DEF Registry
  <2>8. QED
    BY <1>3, <2>2, <2>3, <2>7 DEF PushesInv
<1>7. QED
  BY <1>4, <1>5, <1>6

\* What create_notification does before the loop, and the requests that mark.
LEMMA StoredInv ==
    ASSUME PushesInv,
           \/ \E n \in Notices : Store(n) \/ Count(n) \/ GiveUp(n) \/ MarkRead(n)
           \/ MarkAllRead
    PROVE  PushesInv'
<1>0. /\ Registry /\ push \in [Notices -> Push] /\ socket \in [Connections -> Socket]
      /\ row \in [Notices -> {"none", "unread", "read"}]
  BY DEF PushesInv, Registry
<1>1. /\ UNCHANGED <<socket, active, lists, got>>
      /\ row' \in [Notices -> {"none", "unread", "read"}]
  BY <1>0 DEF Store, Count, GiveUp, MarkRead, MarkAllRead
<1>2. SocketsForward /\ ListStep({})
  BY <1>0, <1>1 DEF SocketsForward, ListStep, Socket
<1>3. RegistryExact'
  BY <1>0, <1>1, SameExact
<1>4. ASSUME NEW n \in Notices, Waits(n, {})
      PROVE  PushInv(n)'
  BY <1>2, <1>4, WaitsInv
<1>5. ASSUME NEW n \in Notices, Store(n) \/ Count(n) \/ GiveUp(n)
      PROVE  PushesInv'
  <2>1. PICK q \in {"stored", "counted", "done"} :
          /\ push' = [push EXCEPT ![n].pc = q] /\ row'[n] # "none"
          /\ push[n].pc \in {"idle", "stored"}
    BY <1>0, <1>5 DEF Store, Count, GiveUp, Move, At, PushesInv, PushInv
  <2>2. \A m \in Notices : m # n => row'[m] = row[m]
    BY <1>0, <1>5 DEF Store, Count, GiveUp
  <2>3. ASSUME NEW m \in Notices, m # n PROVE PushInv(m)'
    <3>1. Waits(m, {})
      BY <1>0, <1>1, <2>1, <2>2, <2>3 DEF Waits
    <3>2. QED
      BY <1>4, <3>1
  <2>4. PICK u \in Push : /\ push'[n] = u /\ u.pc = q /\ u.to = push[n].to
                          /\ u.audience = push[n].audience /\ u.dead = push[n].dead
    <3> DEFINE v == [push[n] EXCEPT !.pc = q]
    <3>1. v \in Push /\ push'[n] = v
      BY <1>0, <2>1 DEF Push
    <3>2. /\ v.pc = q /\ v.to = push[n].to
          /\ v.audience = push[n].audience /\ v.dead = push[n].dead
      BY <1>0 DEF Push
    <3>3. QED
      BY <3>1, <3>2
  <2>5. /\ push[n].to = Nobody /\ push[n].audience = {} /\ push[n].dead = <<>>
        /\ \A c \in Connections : got[c][n] = 0
    BY <2>1 DEF PushesInv, PushInv
  <2>6. PushInv(n)'
    <3>1. u.to = Nobody /\ u.audience = {} /\ u.dead = <<>> /\ DOMAIN u.dead = {}
      BY <2>4, <2>5
    <3>2. Dealt(n, push[n])'
      BY <1>1, <2>4, <2>5, <3>1 DEF Dealt
    <3>3. QED
      BY <1>1, <2>1, <2>4, <2>5, <3>1, <3>2 DEF PushInv
  <2>7. push' \in [Notices -> Push]
    <3>1. push' = [push EXCEPT ![n] = push'[n]] /\ push'[n] \in Push
      BY <1>0, <2>1, <2>4
    <3>2. QED
      BY <1>0, <3>1
  <2>8. Registry'
    BY <1>0, <1>1, <1>3, <2>7 DEF Registry
  <2>9. QED
    BY <2>3, <2>6, <2>8 DEF PushesInv
<1>6. ASSUME (\E n \in Notices : MarkRead(n)) \/ MarkAllRead PROVE PushesInv'
  <2>1. push' = push /\ \A m \in Notices : row'[m] = "none" <=> row[m] = "none"
    BY <1>0, <1>6 DEF MarkRead, MarkAllRead
  <2>2. \A m \in Notices : Waits(m, {})
    BY <1>1, <2>1 DEF Waits
  <2>3. Registry'
    BY <1>0, <1>1, <1>3, <2>1 DEF Registry
  <2>4. QED
    BY <1>4, <2>2, <2>3 DEF PushesInv
<1>7. QED
  BY <1>5, <1>6

LEMMA BeginInv ==
    ASSUME PushesInv, NEW n \in Notices, Begin(n)
    PROVE  PushesInv'
<1>0. /\ Registry /\ push[n] \in Push /\ PushInv(n) /\ push[n].pc = "counted"
      /\ got \in [Connections -> [Notices -> Nat]] /\ active \in Seq(Connections)
      /\ lists \in Nat
  BY DEF PushesInv, Registry, Begin, At
<1>1. /\ \A c \in Connections : got[c][n] = 0
      /\ push[n].dead = <<>> /\ row[n] # "none"
  BY <1>0 DEF PushInv
<1>2. /\ \A j \in DOMAIN active : active[j] \in Connections /\ socket[active[j]] # "new"
      /\ \A j \in DOMAIN active : 1 <= j
      /\ Elements(active) \subseteq Connections
  BY <1>0 DEF Registry, RegistryExact, Elements
<1>3. PICK t \in Push : /\ Continue(n, t, 1) /\ t.list = lists /\ t.dead = <<>>
                        /\ t.audience = Elements(active)
  <2> DEFINE v == [push[n] EXCEPT !.list = lists, !.audience = Elements(active)]
  <2>1. v \in Push
    BY <1>0, <1>2 DEF Push
  <2>2. v.list = lists /\ v.dead = <<>> /\ v.audience = Elements(active)
    BY <1>0, <1>1 DEF Push
  <2>3. Continue(n, v, 1)
    BY DEF Begin
  <2> HIDE DEF v
  <2>4. QED
    BY <2>1, <2>2, <2>3
<1>4. UNCHANGED <<row, socket, lists, got>>
  BY DEF Begin
<1>5. /\ \A c \in t.audience : socket[c] # "new"
      /\ \A x \in t.audience : \E j \in DOMAIN active : 1 <= j /\ active[j] = x
      /\ DOMAIN t.dead = {}
  BY <1>2, <1>3 DEF Elements
<1>6. QED
  BY <1>0, <1>1, <1>2, <1>3, <1>4, <1>5, ContinueInv

LEMMA SendInv ==
    ASSUME PushesInv, NEW n \in Notices, Send(n)
    PROVE  PushesInv'
<1>0. /\ Registry /\ push[n] \in Push /\ PushInv(n) /\ push[n].pc = "sending"
      /\ got \in [Connections -> [Notices -> Nat]] /\ active \in Seq(Connections)
      /\ lists \in Nat /\ UNCHANGED <<row, socket, lists>>
  BY DEF PushesInv, Registry, Send, SendReturns, SendFails, At
<1> DEFINE t == push[n]
           i == t.index + 1
<1>1. /\ t.to \in Connections /\ t.index \in Nat /\ t.audience \subseteq Connections
      /\ t.dead \in Seq(Connections)
      /\ socket[t.to] # "new" /\ got[t.to][n] = 0 /\ row[n] # "none"
      /\ t.list = lists => \A j \in DOMAIN active : t.index < j => active[j] # t.to
      /\ Looping(n, t, i, t.to) /\ Dealt(n, t)
  BY <1>0 DEF PushInv, Push
<1>2. /\ i \in Nat /\ 1 <= i /\ t.list <= lists
      /\ t.list = lists => \A j \in DOMAIN active : i <= j =>
            active[j] # t.to /\ got[active[j]][n] = 0
      /\ ~t.shrunk => \A x \in t.audience : socket[x] = "open" =>
           \/ x = t.to
           \/ got[x][n] > 0
           \/ t.list = lists /\ \E j \in DOMAIN active : i <= j /\ active[j] = x
      /\ \A c \in t.audience : socket[c] # "new"
      /\ \A j \in DOMAIN t.dead : socket[t.dead[j]] \in {"lost", "closed"}
      /\ \A c \in Connections : /\ got[c][n] \in {0, 1}
                                /\ socket[c] = "new" => got[c][n] = 0
  <2>1. i \in Nat /\ 1 <= i /\ \A j \in DOMAIN active : i <= j => t.index < j
    BY <1>0, <1>1
  <2>2. QED
    BY <1>1, <2>1 DEF Looping, Ahead, Served, Dealt
<1> HIDE DEF i
<1>3. CASE SendReturns(n)
  <2>1. got' = [got EXCEPT ![t.to][n] = got[t.to][n] + 1] /\ Continue(n, t, i)
    BY <1>3 DEF SendReturns, i
  <2>2. /\ got' \in [Connections -> [Notices -> Nat]]
        /\ \A m \in Notices \ {n}, c \in Connections : got'[c][m] = got[c][m]
        /\ got'[t.to][n] = 1
        /\ \A c \in Connections : c # t.to => got'[c][n] = got[c][n]
    BY <1>0, <1>1, <2>1
  <2>3. \A j \in DOMAIN active : active[j] \in Connections
    BY <1>0
  <2> HIDE DEF t
  <2>4. /\ \A c \in Connections : /\ got'[c][n] \in {0, 1}
                                  /\ socket[c] = "new" => got'[c][n] = 0
        /\ t.list = lists =>
             \A j \in DOMAIN active : i <= j => got'[active[j]][n] = 0
        /\ ~t.shrunk => \A x \in t.audience : socket[x] = "open" =>
             \/ got'[x][n] > 0
             \/ t.list = lists /\ \E j \in DOMAIN active : i <= j /\ active[j] = x
    <3>1. \A c \in Connections : /\ got'[c][n] \in {0, 1}
                                 /\ socket[c] = "new" => got'[c][n] = 0
      <4> SUFFICES ASSUME NEW c \in Connections
                   PROVE  got'[c][n] \in {0, 1} /\ (socket[c] = "new" => got'[c][n] = 0)
        OBVIOUS
      <4>1. CASE c = t.to
        BY <1>1, <2>2, <4>1
      <4>2. CASE c # t.to
        BY <1>2, <2>2, <4>2
      <4>3. QED
        BY <4>1, <4>2
    <3>2. ASSUME t.list = lists, NEW j \in DOMAIN active, i <= j
          PROVE  got'[active[j]][n] = 0
      BY <1>2, <2>2, <2>3, <3>2
    <3>3. ASSUME ~t.shrunk, NEW x \in t.audience, socket[x] = "open"
          PROVE  \/ got'[x][n] > 0
                 \/ t.list = lists /\ \E j \in DOMAIN active : i <= j /\ active[j] = x
      <4>1. x \in Connections
        BY <1>1, <3>3
      <4>2. CASE x = t.to
        BY <2>2, <4>2
      <4>3. CASE x # t.to
        BY <1>2, <2>2, <3>3, <4>1, <4>3
      <4>4. QED
        BY <4>2, <4>3
    <3>4. QED
      BY <3>1, <3>2, <3>3
  <2>5. t \in Push
    BY <1>0 DEF t
  <2>6. QED
    BY <1>0, <1>1, <1>2, <2>1, <2>2, <2>4, <2>5, ContinueInv
<1>4. CASE SendFails(n)
  <2>1. /\ got' = got /\ socket[t.to] # "open"
        /\ Continue(n, [t EXCEPT !.dead = Append(t.dead, t.to)], i)
    BY <1>4 DEF SendFails, i
  <2>2. PICK u \in Push : /\ Continue(n, u, i) /\ u.list = t.list
                          /\ u.audience = t.audience /\ u.shrunk = t.shrunk
                          /\ u.dead = Append(t.dead, t.to)
    <3> DEFINE v == [t EXCEPT !.dead = Append(t.dead, t.to)]
    <3>1. v \in Push
      <4>1. Append(t.dead, t.to) \in Seq(Connections)
        BY <1>1
      <4>2. \A d \in Seq(Connections) : [t EXCEPT !.dead = d] \in Push
        BY <1>0 DEF Push
      <4>3. QED
        BY <4>1, <4>2
    <3>2. /\ v.list = t.list /\ v.audience = t.audience /\ v.shrunk = t.shrunk
          /\ v.dead = Append(t.dead, t.to)
      BY <1>0 DEF Push
    <3>3. Continue(n, v, i)
      BY <2>1
    <3> HIDE DEF v
    <3>4. QED
      BY <3>1, <3>2, <3>3
  <2> HIDE DEF t
  <2>3. socket[t.to] \in {"lost", "closed"}
    BY <1>0, <1>1, <2>1 DEF Registry, Socket
  <2>4. \A j \in DOMAIN u.dead : socket[u.dead[j]] \in {"lost", "closed"}
    BY <1>1, <1>2, <2>2, <2>3
  <2>5. /\ \A c \in u.audience : socket[c] # "new"
        /\ u.list <= lists
        /\ u.list = lists =>
              \A j \in DOMAIN active : i <= j => got'[active[j]][n] = 0
        /\ ~u.shrunk => \A x \in u.audience : socket[x] = "open" =>
              \/ got'[x][n] > 0
              \/ u.list = lists /\ \E j \in DOMAIN active : i <= j /\ active[j] = x
    BY <1>2, <2>1, <2>2
  <2>6. QED
    BY <1>0, <1>1, <1>2, <2>1, <2>2, <2>4, <2>5, ContinueInv
<1>5. QED
  BY <1>3, <1>4 DEF Send

LEMMA PushesStep == PushesInv /\ [Next]_vars => PushesInv'
<1> SUFFICES ASSUME PushesInv, [Next]_vars PROVE PushesInv'
  OBVIOUS
<1>1. CASE UNCHANGED vars
  BY <1>1 DEF vars, PushesInv, Registry, RegistryExact, PushInv, Dealt, Looping,
     Ahead, Served
<1>2. CASE \E c \in Connections : Connect(c) \/ Reject(c) \/ Lose(c) \/ HandlerReturns(c)
  BY <1>2, HandlerInv
<1>3. CASE \/ \E n \in Notices : Store(n) \/ Count(n) \/ GiveUp(n) \/ MarkRead(n)
           \/ MarkAllRead
  BY <1>3, StoredInv
<1>4. CASE \E n \in Notices : Begin(n) \/ Send(n)
  BY <1>4, BeginInv, SendInv
<1>5. QED
  BY <1>1, <1>2, <1>3, <1>4 DEF Next

\* Where every push stands in the list it iterates over.
THEOREM PushesInvariant == Spec => []PushesInv
  BY PushesInit, PushesStep, PTL DEF Spec

\* The list holds every connection whose handler waits, once, and none whose
\* handler has returned, however the removals and the new lists overlap.
THEOREM RegistryStaysExact == Spec => []RegistryExact
<1>1. PushesInv => RegistryExact
  BY DEF PushesInv, Registry
<1>2. QED
  BY <1>1, PushesInvariant, PTL

\* What a push has delivered is stored and delivered once, and an open
\* connection is passed over only when the list shrank under the loop.
THEOREM PushesStaySound == Spec => []PushSound
<1>1. ASSUME PushesInv PROVE PushSound
  <2>1. TypeOK
    BY <1>1 DEF PushesInv, Registry, PushInv, TypeOK
  <2>2. AtMostOnce
    BY <1>1 DEF PushesInv, PushInv, Dealt, AtMostOnce
  <2>3. PushedIsStored
    BY <1>1 DEF PushesInv, PushInv, PushedIsStored
  <2>4. OpenGetAll
    BY <1>1 DEF PushesInv, PushInv, OpenGetAll, At
  <2>5. QED
    BY <2>1, <2>2, <2>3, <2>4 DEF PushSound
<1>2. QED
  BY <1>1, PushesInvariant, PTL

=============================================================================
