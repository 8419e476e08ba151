----------------------------- MODULE AdminProofs -----------------------------
(***************************************************************************)
(* Proofs about AdminAccess and the second factor in it, for any numbers   *)
(* of accounts, requests and handlers and any bound on the work.           *)
(***************************************************************************)
EXTENDS AdminAccess, FiniteSetTheorems, TLAPS

-----------------------------------------------------------------------------
(* The second factor: what each request still knows of the row it read. *)

\* A copy that will be written over the row, or compared with it, is one of a
\* row that exists; a verification's is still the row's unless a set-up that it
\* overlapped has replaced the secret, and a set-up that no verification has
\* overlapped still finds the factor not enabled.
CopyInv(r) ==
    /\ req[r].pc = "checked" => req[r].op = "setup"
    /\ req[r].op \in {"verify", "regenerate"} /\ req[r].pc = "write"
         => twofa # NoRow
    /\ req[r].op = "verify" /\ req[r].pc = "write" =>
         /\ req[r].row.secret \in shown
         /\ twofa.secret \notin crossed => req[r].row.secret = twofa.secret
    /\ req[r].op = "setup" /\ req[r].pc \in {"checked", "write"} /\ r \notin crossed
         => ~twofa.enabled

\* Every set-up that a verification overlaps before its commit is recorded.
CrossingsKept == Crossing \subseteq crossed

\* A secret in the row has been shown, or its set-up has yet to answer.
SecretKept ==
    twofa # NoRow =>
        \/ died
        \/ twofa.secret \in shown
        \/ req[twofa.secret].pc = "answer"

EnabledSound ==
    twofa.enabled /\ twofa.secret \notin crossed => twofa.secret \in shown \cap verified

FactorInv ==
    /\ TwoFactorTypeOK
    /\ \A r \in Requests : CopyInv(r)
    /\ CrossingsKept
    /\ SecretKept
    /\ EnabledSound

LEMMA RowsTyped ==
    ASSUME TwoFactorTypeOK, NEW r \in Requests
    PROVE  twofa.enabled \in BOOLEAN /\ req[r].row.enabled \in BOOLEAN
<1>1. NoRow.enabled \in BOOLEAN
  BY DEF NoRow
<1>2. \A x \in [secret : Requests, codes : Requests, enabled : BOOLEAN] :
        x.enabled \in BOOLEAN
  OBVIOUS
<1>3. \A x \in Row : x.enabled \in BOOLEAN
  BY <1>1, <1>2, Zenon DEF Row
<1>4. twofa \in Row /\ req[r] \in Request
  BY DEF TwoFactorTypeOK
<1>5. req[r].row \in Row
  BY <1>4 DEF Request
<1>6. QED
  BY <1>3, <1>4, <1>5

\* Setting the pc of one request, which is what most steps do.
LEMMA GotoFacts ==
    ASSUME TwoFactorTypeOK, NEW r \in Requests,
           NEW pc \in {"idle", "checked", "write", "answer", "factor", "in", "done"},
           Goto(r, pc)
    PROVE  /\ req' \in [Requests -> Request]
           /\ req'[r].pc = pc
           /\ req'[r].op = req[r].op
           /\ req'[r].row = req[r].row
           /\ \A o \in Requests \ {r} : req'[o] = req[o]
<1>1. req[r] \in Request
  BY DEF TwoFactorTypeOK
<1> DEFINE v == [req[r] EXCEPT !.pc = pc]
<1>2. v \in Request /\ v.pc = pc /\ v.op = req[r].op /\ v.row = req[r].row
  BY <1>1 DEF Request
<1>3. req' = [req EXCEPT ![r] = v]
  BY DEF Goto
<1> HIDE DEF v
<1>4. QED
  BY <1>2, <1>3 DEF TwoFactorTypeOK

LEMMA BeginFacts ==
    ASSUME TwoFactorTypeOK, NEW r \in Requests,
           NEW op \in {"setup", "verify", "regenerate", "disable", "login", "admin_login"},
           NEW pc \in {"checked", "write", "factor", "in"},
           Begin(r, op, pc)
    PROVE  /\ req' \in [Requests -> Request]
           /\ req'[r].pc = pc
           /\ req'[r].op = op
           /\ req'[r].row = twofa
           /\ req[r].pc = "idle"
           /\ \A o \in Requests \ {r} : req'[o] = req[o]
           /\ work' \in 0 .. MaxWork
           /\ crossed' = crossed \cup Crossing'
           /\ crossed' \subseteq Requests
           /\ UNCHANGED <<twofa, shown, verified, died>>
<1> DEFINE v == [op |-> op, pc |-> pc, row |-> twofa]
<1>1. v \in Request /\ v.pc = pc /\ v.op = op /\ v.row = twofa
  BY DEF Request, TwoFactorTypeOK
<1>2. req' = [req EXCEPT ![r] = v]
  BY DEF Begin
<1> HIDE DEF v
<1>3. work' \in 0 .. MaxWork
  BY TwoFactorAssumption DEF Begin, TwoFactorTypeOK
<1>4. crossed' = crossed \cup Crossing' /\ crossed' \subseteq Requests
  BY DEF Begin, Crossing, TwoFactorTypeOK
<1>5. QED
  BY <1>1, <1>2, <1>3, <1>4 DEF TwoFactorTypeOK, Begin

\* A new request whose copy is the row as it is now.
LEMMA BeginKeepsFactor ==
    ASSUME FactorInv, NEW r \in Requests,
           NEW op \in {"setup", "verify", "regenerate", "disable", "login", "admin_login"},
           NEW pc \in {"checked", "write", "factor", "in"},
           Begin(r, op, pc),
           pc = "checked" => op = "setup",
           op = "setup" => pc = "checked" /\ ~twofa.enabled,
           op = "verify" => twofa.secret \in shown,
           op = "regenerate" => twofa.enabled
    PROVE  FactorInv'
<1> USE DEF FactorInv
<1>1. /\ req' \in [Requests -> Request]
      /\ req'[r].pc = pc
      /\ req'[r].op = op
      /\ req'[r].row = twofa
      /\ req[r].pc = "idle"
      /\ \A o \in Requests \ {r} : req'[o] = req[o]
      /\ work' \in 0 .. MaxWork
      /\ crossed' = crossed \cup Crossing'
      /\ crossed' \subseteq Requests
      /\ UNCHANGED <<twofa, shown, verified, died>>
  BY BeginFacts
<1>2. TwoFactorTypeOK'
  BY <1>1 DEF TwoFactorTypeOK
<1>3. op \in {"verify", "regenerate"} => twofa # NoRow
  BY TwoFactorAssumption DEF NoRow, TwoFactorTypeOK
<1>4. ASSUME NEW o \in Requests PROVE CopyInv(o)'
  BY <1>1, <1>3, CopyInv(o) DEF CopyInv
<1>5. CrossingsKept'
  BY <1>1 DEF CrossingsKept
<1>6. SecretKept'
  BY <1>1 DEF SecretKept, TwoFactorTypeOK, Row, NoRow
<1>7. EnabledSound'
  BY <1>1 DEF EnabledSound
<1>8. QED
  BY <1>2, <1>4, <1>5, <1>6, <1>7

\* A request that goes on without writing the row: an answer must still come
\* from whoever has put a secret into the row.
LEMMA GotoKeepsFactor ==
    ASSUME FactorInv, NEW r \in Requests, NEW pc \in {"write", "in", "done"},
           Goto(r, pc), Running(r),
           pc = "write" => req[r].op = "admin_login",
           req[r].pc = "answer" => died',
           UNCHANGED <<twofa, shown, verified, crossed>>,
           died' \in BOOLEAN, died => died', work' \in 0 .. MaxWork
    PROVE  FactorInv'
<1> USE DEF FactorInv
<1>1. /\ req' \in [Requests -> Request]
      /\ req'[r].pc = pc
      /\ req'[r].op = req[r].op
      /\ req'[r].row = req[r].row
      /\ \A o \in Requests \ {r} : req'[o] = req[o]
  BY GotoFacts
<1>2. TwoFactorTypeOK'
  BY <1>1 DEF TwoFactorTypeOK
<1>3. ASSUME NEW o \in Requests PROVE CopyInv(o)'
  BY <1>1, CopyInv(o) DEF CopyInv
<1>4. CrossingsKept'
  <2>1. Crossing' \subseteq Crossing
    BY <1>1 DEF Crossing, Running
  <2>2. QED
    BY <2>1 DEF CrossingsKept
<1>5. SecretKept'
  BY <1>1 DEF SecretKept, TwoFactorTypeOK, Row, NoRow
<1>6. EnabledSound'
  BY DEF EnabledSound
<1>7. QED
  BY <1>2, <1>3, <1>4, <1>5, <1>6

LEMMA SetupReadsKeepsFactor ==
    ASSUME FactorInv, NEW r \in Requests, SetupReads(r)
    PROVE  FactorInv'
<1> USE DEF FactorInv
<1> DEFINE v == [req[r] EXCEPT !.pc = "write", !.row = twofa]
<1>1. v \in Request /\ v.pc = "write" /\ v.op = "setup" /\ v.row = twofa
  <2>1. req[r] \in Request /\ req[r].op = "setup" /\ twofa \in Row
    BY CopyInv(r) DEF SetupReads, CopyInv, TwoFactorTypeOK
  <2>2. QED
    BY <2>1 DEF Request
<1>2. req' = [req EXCEPT ![r] = v] /\ req[r].pc = "checked"
      /\ UNCHANGED <<twofa, work, shown, verified, crossed, died>>
  BY DEF SetupReads
<1> HIDE DEF v
<1>3. /\ req' \in [Requests -> Request]
      /\ req'[r].pc = "write" /\ req'[r].op = "setup" /\ req[r].op = "setup"
      /\ \A o \in Requests \ {r} : req'[o] = req[o]
  BY <1>1, <1>2, CopyInv(r) DEF TwoFactorTypeOK, CopyInv
<1>4. TwoFactorTypeOK'
  BY <1>2, <1>3 DEF TwoFactorTypeOK
<1>5. ASSUME NEW o \in Requests PROVE CopyInv(o)'
  BY <1>2, <1>3, CopyInv(o) DEF CopyInv
<1>6. CrossingsKept'
  <2>1. Crossing' \subseteq Crossing
    BY <1>2, <1>3 DEF Crossing, Running
  <2>2. QED
    BY <1>2, <2>1 DEF CrossingsKept
<1>7. SecretKept'
  BY <1>2, <1>3 DEF SecretKept, TwoFactorTypeOK, Row, NoRow
<1>8. EnabledSound'
  BY <1>2 DEF EnabledSound
<1>9. QED
  BY <1>4, <1>5, <1>6, <1>7, <1>8

\* Setting up and answering.
LEMMA CommitSetupKeepsFactor ==
    ASSUME FactorInv, NEW r \in Requests, CommitSetup(r)
    PROVE  FactorInv'
<1> USE DEF FactorInv
<1>1. /\ req' \in [Requests -> Request]
      /\ req'[r].pc = "answer"
      /\ req'[r].op = req[r].op
      /\ req'[r].row = req[r].row
      /\ \A o \in Requests \ {r} : req'[o] = req[o]
  BY GotoFacts DEF CommitSetup
<1>2. /\ req[r].op = "setup" /\ req[r].pc = "write"
      /\ twofa'.secret = r
      /\ twofa' \in Row /\ twofa' # NoRow
      /\ r \notin crossed => ~twofa'.enabled
      /\ UNCHANGED <<work, shown, verified, crossed, died>>
  <2>1. twofa.enabled \in BOOLEAN /\ req[r].row.enabled \in BOOLEAN
    BY RowsTyped
  <2>2. r \notin crossed => ~twofa.enabled
    BY CopyInv(r) DEF CopyInv, CommitSetup
  <2>3. QED
    BY <2>1, <2>2, TwoFactorAssumption DEF CommitSetup, Row, NoRow
<1>3. TwoFactorTypeOK'
  BY <1>1, <1>2 DEF TwoFactorTypeOK
<1>4. ASSUME NEW o \in Requests PROVE CopyInv(o)'
  <2>1. req[o].op = "verify" /\ req[o].pc = "write" => r \in crossed
    BY <1>2 DEF CrossingsKept, Crossing, Running
  <2>2. twofa'.enabled => twofa.enabled
    BY RowsTyped DEF CommitSetup
  <2>3. QED
    BY <1>1, <1>2, <2>1, <2>2, CopyInv(o) DEF CopyInv
<1>5. CrossingsKept'
  <2>1. Crossing' \subseteq Crossing
    BY <1>1, <1>2 DEF Crossing, Running
  <2>2. QED
    BY <1>2, <2>1 DEF CrossingsKept
<1>6. SecretKept'
  BY <1>1, <1>2 DEF SecretKept
<1>7. EnabledSound'
  BY <1>2 DEF EnabledSound
<1>8. QED
  BY <1>3, <1>4, <1>5, <1>6, <1>7

LEMMA AnswerKeepsFactor ==
    ASSUME FactorInv, NEW r \in Requests, Answer(r)
    PROVE  FactorInv'
<1> USE DEF FactorInv
<1>1. /\ req' \in [Requests -> Request]
      /\ req'[r].pc = "done"
      /\ req'[r].op = req[r].op
      /\ req'[r].row = req[r].row
      /\ \A o \in Requests \ {r} : req'[o] = req[o]
  BY GotoFacts DEF Answer
<1>2. /\ req[r].pc = "answer"
      /\ shown' = shown \cup {r}
      /\ UNCHANGED <<twofa, work, verified, crossed, died>>
  BY DEF Answer
<1>3. TwoFactorTypeOK'
  BY <1>1, <1>2 DEF TwoFactorTypeOK
<1>4. ASSUME NEW o \in Requests PROVE CopyInv(o)'
  BY <1>1, <1>2, CopyInv(o) DEF CopyInv
<1>5. CrossingsKept'
  <2>1. Crossing' \subseteq Crossing
    BY <1>1, <1>2 DEF Crossing, Running
  <2>2. QED
    BY <1>2, <2>1 DEF CrossingsKept
<1>6. SecretKept'
  BY <1>1, <1>2 DEF SecretKept, TwoFactorTypeOK, Row, NoRow
<1>7. EnabledSound'
  BY <1>2 DEF EnabledSound
<1>8. QED
  BY <1>3, <1>4, <1>5, <1>6, <1>7

\* The code was one of the row's secret unless a set-up overlapped.
LEMMA CommitVerifyKeepsFactor ==
    ASSUME FactorInv, NEW r \in Requests, CommitVerify(r)
    PROVE  FactorInv'
<1> USE DEF FactorInv
<1>1. /\ req' \in [Requests -> Request]
      /\ req'[r].pc = "done"
      /\ req'[r].op = req[r].op
      /\ req'[r].row = req[r].row
      /\ \A o \in Requests \ {r} : req'[o] = req[o]
  BY GotoFacts DEF CommitVerify
<1>2. /\ req[r].op = "verify" /\ req[r].pc = "write"
      /\ twofa # NoRow /\ req[r].row.secret \in shown
      /\ twofa.secret \notin crossed => req[r].row.secret = twofa.secret
  BY CopyInv(r) DEF CopyInv, CommitVerify
<1>3. /\ twofa' \in Row /\ twofa' # NoRow /\ twofa'.secret = twofa.secret
      /\ verified' = verified \cup {req[r].row.secret}
      /\ UNCHANGED <<work, shown, crossed, died>>
  <2>1. req[r].row.enabled \in BOOLEAN
    BY RowsTyped
  <2>2. twofa \in [secret : Requests, codes : Requests, enabled : BOOLEAN]
    BY <1>2 DEF TwoFactorTypeOK, Row
  <2>3. QED
    BY <2>1, <2>2, TwoFactorAssumption DEF CommitVerify, Row, NoRow
<1>4. TwoFactorTypeOK'
  BY <1>1, <1>2, <1>3 DEF TwoFactorTypeOK
<1>5. ASSUME NEW o \in Requests PROVE CopyInv(o)'
  <2>1. req[o].op = "setup" /\ req[o].pc \in {"checked", "write"} => o \in crossed
    BY <1>2 DEF CrossingsKept, Crossing, Running
  <2>2. QED
    BY <1>1, <1>2, <1>3, <2>1, CopyInv(o) DEF CopyInv
<1>6. CrossingsKept'
  <2>1. Crossing' \subseteq Crossing
    BY <1>1, <1>2 DEF Crossing, Running
  <2>2. QED
    BY <1>3, <2>1 DEF CrossingsKept
<1>7. SecretKept'
  BY <1>1, <1>2, <1>3 DEF SecretKept, TwoFactorTypeOK, Row, NoRow
<1>8. EnabledSound'
  BY <1>2, <1>3 DEF EnabledSound
<1>9. QED
  BY <1>4, <1>5, <1>6, <1>7, <1>8

LEMMA CommitRegenerateKeepsFactor ==
    ASSUME FactorInv, NEW r \in Requests, CommitRegenerate(r)
    PROVE  FactorInv'
<1> USE DEF FactorInv
<1>1. /\ req' \in [Requests -> Request]
      /\ req'[r].pc = "answer"
      /\ req'[r].op = req[r].op
      /\ req'[r].row = req[r].row
      /\ \A o \in Requests \ {r} : req'[o] = req[o]
  BY GotoFacts DEF CommitRegenerate
<1>2. req[r].op = "regenerate" /\ req[r].pc = "write" /\ twofa # NoRow
  BY CopyInv(r) DEF CopyInv, CommitRegenerate
<1>3. /\ twofa' \in Row /\ twofa' # NoRow
      /\ twofa'.secret = twofa.secret /\ twofa'.enabled = twofa.enabled
      /\ UNCHANGED <<work, shown, verified, crossed, died>>
  <2>1. twofa \in [secret : Requests, codes : Requests, enabled : BOOLEAN]
    BY <1>2 DEF TwoFactorTypeOK, Row
  <2>2. QED
    BY <2>1, TwoFactorAssumption DEF CommitRegenerate, Row, NoRow
<1>4. TwoFactorTypeOK'
  BY <1>1, <1>2, <1>3 DEF TwoFactorTypeOK
<1>5. ASSUME NEW o \in Requests PROVE CopyInv(o)'
  BY <1>1, <1>2, <1>3, CopyInv(o) DEF CopyInv
<1>6. CrossingsKept'
  <2>1. Crossing' \subseteq Crossing
    BY <1>1, <1>2 DEF Crossing, Running
  <2>2. QED
    BY <1>3, <2>1 DEF CrossingsKept
<1>7. SecretKept'
  BY <1>1, <1>2, <1>3 DEF SecretKept, TwoFactorTypeOK, Row, NoRow
<1>8. EnabledSound'
  BY <1>3 DEF EnabledSound
<1>9. QED
  BY <1>4, <1>5, <1>6, <1>7, <1>8

LEMMA FactorInit == TwoFactorInit => FactorInv
<1> SUFFICES ASSUME TwoFactorInit PROVE FactorInv
  OBVIOUS
<1>1. TwoFactorTypeOK
  <2>1. NoRow \in Row /\ Idle \in Request
    BY DEF Row, Idle, Request
  <2>2. work \in 0 .. MaxWork
    BY TwoFactorAssumption DEF TwoFactorInit
  <2>3. QED
    BY <2>1, <2>2, Zenon DEF TwoFactorInit, TwoFactorTypeOK
<1>2. \A r \in Requests : req[r].op = "none" /\ req[r].pc = "idle"
  BY DEF TwoFactorInit, Idle
<1>3. twofa = NoRow /\ ~twofa.enabled
  BY DEF TwoFactorInit, NoRow
<1>4. QED
  BY <1>1, <1>2, <1>3 DEF FactorInv, CopyInv, CrossingsKept, Crossing, SecretKept,
     EnabledSound

LEMMA FactorStep ==
    ASSUME FactorInv, NEW r \in Requests, TwoFactorStep(r)
    PROVE  FactorInv'
<1>1. TwoFactorTypeOK /\ work \in 0 .. MaxWork /\ died \in BOOLEAN
  BY DEF FactorInv, TwoFactorTypeOK
<1>2. CASE Setup(r)
  BY <1>2, BeginKeepsFactor DEF Setup
<1>3. CASE SetupReads(r)
  BY <1>3, SetupReadsKeepsFactor
<1>4. CASE CommitSetup(r)
  BY <1>4, CommitSetupKeepsFactor
<1>5. CASE SetupConflicts(r) \/ DisableRefused(r)
  BY <1>1, <1>5, GotoKeepsFactor DEF SetupConflicts, DisableRefused, Running
<1>6. CASE Verify(r)
  BY <1>6, BeginKeepsFactor DEF Verify
<1>7. CASE CommitVerify(r)
  BY <1>7, CommitVerifyKeepsFactor
<1>8. CASE Regenerate(r)
  BY <1>8, BeginKeepsFactor DEF Regenerate
<1>9. CASE CommitRegenerate(r)
  BY <1>9, CommitRegenerateKeepsFactor
<1>10. CASE Disable(r)
  BY <1>10, BeginKeepsFactor DEF Disable
<1>11. CASE Login(r)
  <2>1. CASE twofa.enabled
    BY <1>11, <2>1, BeginKeepsFactor DEF Login
  <2>2. CASE ~twofa.enabled
    BY <1>11, <2>2, BeginKeepsFactor DEF Login
  <2>3. QED
    BY <2>1, <2>2
<1>12. CASE AdminLogin(r)
  BY <1>12, BeginKeepsFactor DEF AdminLogin
<1>13. CASE Factor(r)
  BY <1>1, <1>13, GotoKeepsFactor DEF Factor, Running
<1>14. CASE FactorRefused(r) \/ LoginEnds(r)
  BY <1>1, <1>14, GotoKeepsFactor DEF FactorRefused, LoginEnds, Running
<1>15. CASE Answer(r)
  BY <1>15, AnswerKeepsFactor
<1>16. CASE Die(r)
  <2>1. work' \in 0 .. MaxWork /\ died' = TRUE
    BY <1>1, <1>16, TwoFactorAssumption DEF Die
  <2>2. QED
    BY <1>1, <1>16, <2>1, GotoKeepsFactor DEF Die
<1>17. QED
  BY <1>2, <1>3, <1>4, <1>5, <1>6, <1>7, <1>8, <1>9, <1>10, <1>11, <1>12,
     <1>13, <1>14, <1>15, <1>16 DEF TwoFactorStep

-----------------------------------------------------------------------------
(* What the steps about the second factor do to the logins of admins. *)

\* An enabled factor stays enabled with its secret, but for the commit of a
\* set-up that a verification has overlapped.
EnabledGoesOn ==
    twofa.enabled =>
        \/ twofa'.enabled /\ twofa'.secret = twofa.secret
        \/ \E r \in Requests :
             req'[r] # req[r] /\ req[r].op = "setup" /\ r \in crossed

\* Admins' logins run only under an enabled factor, and none is between its
\* token and its audit row that was not there before.
LoginsGoOn ==
    /\ EnabledGoesOn
    /\ crossed \subseteq crossed'
    /\ died => died'
    /\ \A o \in Requests :
         /\ req'[o].op = "admin_login" /\ Running(o)' =>
              \/ twofa.enabled
              \/ req[o].op = "admin_login" /\ Running(o)
         /\ req'[o].op = "admin_login" /\ req'[o].pc = "write"
              => req[o].op = "admin_login" /\ req[o].pc = "write"
         /\ req[o].op = "admin_login" /\ req[o].pc = "write" /\ ~died'
              => req'[o].op = "admin_login" /\ req'[o].pc = "write"

LEMMA BeginLetsLoginsGoOn ==
    ASSUME FactorInv, NEW r \in Requests,
           NEW op \in {"setup", "verify", "regenerate", "disable", "login", "admin_login"},
           NEW pc \in {"checked", "write", "factor", "in"},
           Begin(r, op, pc),
           op = "admin_login" => pc = "factor" /\ twofa.enabled
    PROVE  LoginsGoOn
<1>1. /\ req'[r].pc = pc
      /\ req'[r].op = op
      /\ req[r].pc = "idle"
      /\ \A o \in Requests \ {r} : req'[o] = req[o]
      /\ crossed \subseteq crossed'
      /\ UNCHANGED <<twofa, shown, verified, died>>
  BY BeginFacts DEF FactorInv
<1>2. QED
  BY <1>1 DEF LoginsGoOn, EnabledGoesOn, Running

LEMMA GotoLetsLoginsGoOn ==
    ASSUME FactorInv, NEW r \in Requests,
           NEW pc \in {"write", "answer", "in", "done"},
           Goto(r, pc), Running(r),
           req[r].op = "admin_login" => pc # "write" /\ (req[r].pc # "write" \/ died'),
           UNCHANGED crossed, died => died', EnabledGoesOn
    PROVE  LoginsGoOn
<1>1. /\ req'[r].pc = pc
      /\ req'[r].op = req[r].op
      /\ \A o \in Requests \ {r} : req'[o] = req[o]
  BY GotoFacts DEF FactorInv
<1>2. QED
  BY <1>1 DEF LoginsGoOn, Running

LEMMA FactorStepLetsLoginsGoOn ==
    ASSUME FactorInv, NEW r \in Requests, TwoFactorStep(r)
    PROVE  LoginsGoOn
<1>1. CASE Setup(r) \/ Verify(r) \/ Regenerate(r) \/ Disable(r)
  BY <1>1, BeginLetsLoginsGoOn DEF Setup, Verify, Regenerate, Disable
<1>2. CASE Login(r)
  <2>1. CASE twofa.enabled
    BY <1>2, <2>1, BeginLetsLoginsGoOn DEF Login
  <2>2. CASE ~twofa.enabled
    BY <1>2, <2>2, BeginLetsLoginsGoOn DEF Login
  <2>3. QED
    BY <2>1, <2>2
<1>3. CASE AdminLogin(r)
  BY <1>3, BeginLetsLoginsGoOn DEF AdminLogin
<1>4. CASE SetupReads(r)
  <2>1. req[r].op = "setup" /\ req[r] \in Request
    BY <1>4 DEF FactorInv, CopyInv, SetupReads, TwoFactorTypeOK
  <2>2. [req[r] EXCEPT !.pc = "write", !.row = twofa].op = "setup"
    BY <2>1 DEF Request
  <2>3. req'[r].op = "setup" /\ \A o \in Requests \ {r} : req'[o] = req[o]
    BY <1>4, <2>2 DEF SetupReads, FactorInv, TwoFactorTypeOK
  <2>4. QED
    BY <1>4, <2>1, <2>3 DEF SetupReads, LoginsGoOn, EnabledGoesOn, Running
<1>5. CASE CommitSetup(r)
  <2>1. twofa.enabled => r \in crossed
    BY <1>5 DEF FactorInv, CopyInv, CommitSetup
  <2>2. req'[r].pc = "answer" /\ req[r].pc = "write"
    BY <1>5, GotoFacts DEF CommitSetup, FactorInv
  <2>3. EnabledGoesOn
    BY <1>5, <2>1, <2>2 DEF CommitSetup, EnabledGoesOn
  <2>4. QED
    BY <1>5, <2>3, GotoLetsLoginsGoOn DEF CommitSetup, Running
<1>6. CASE SetupConflicts(r) \/ DisableRefused(r)
  BY <1>6, GotoLetsLoginsGoOn DEF SetupConflicts, DisableRefused, Running, EnabledGoesOn
<1>7. CASE CommitVerify(r)
  <2>1. twofa # NoRow
    BY <1>7 DEF FactorInv, CopyInv, CommitVerify
  <2>2. twofa \in [secret : Requests, codes : Requests, enabled : BOOLEAN]
    BY <2>1 DEF FactorInv, TwoFactorTypeOK, Row
  <2>3. twofa.enabled => twofa'.enabled /\ twofa'.secret = twofa.secret
    BY <1>7, <2>2 DEF CommitVerify
  <2>4. QED
    BY <1>7, <2>3, GotoLetsLoginsGoOn DEF CommitVerify, EnabledGoesOn, Running
<1>8. CASE CommitRegenerate(r)
  <2>1. twofa # NoRow
    BY <1>8 DEF FactorInv, CopyInv, CommitRegenerate
  <2>2. twofa \in [secret : Requests, codes : Requests, enabled : BOOLEAN]
    BY <2>1 DEF FactorInv, TwoFactorTypeOK, Row
  <2>3. twofa.enabled => twofa'.enabled /\ twofa'.secret = twofa.secret
    BY <1>8, <2>2 DEF CommitRegenerate
  <2>4. QED
    BY <1>8, <2>3, GotoLetsLoginsGoOn DEF CommitRegenerate, EnabledGoesOn, Running
<1>9. CASE Factor(r)
  BY <1>9, GotoLetsLoginsGoOn DEF Factor, Running, EnabledGoesOn
<1>10. CASE FactorRefused(r) \/ LoginEnds(r)
  BY <1>10, GotoLetsLoginsGoOn DEF FactorRefused, LoginEnds, Running, EnabledGoesOn
<1>11. CASE Answer(r)
  BY <1>11, GotoLetsLoginsGoOn DEF Answer, Running, EnabledGoesOn
<1>12. CASE Die(r)
  BY <1>12, GotoLetsLoginsGoOn DEF Die, EnabledGoesOn
<1>13. QED
  BY <1>1, <1>2, <1>3, <1>4, <1>5, <1>6, <1>7, <1>8, <1>9, <1>10, <1>11, <1>12
     DEF TwoFactorStep

LEMMA FrameKeepsFactor ==
    ASSUME FactorInv, UNCHANGED Factors, work' \in 0 .. MaxWork
    PROVE  FactorInv' /\ LoginsGoOn
  BY DEF FactorInv, Factors, TwoFactorTypeOK, CopyInv, CrossingsKept, Crossing,
         SecretKept, EnabledSound, LoginsGoOn, EnabledGoesOn, Running

-----------------------------------------------------------------------------
(* Types of the admins' part. *)

AdminTypeOK ==
    /\ role \in [Targets -> {"user", "admin"}]
    /\ touched \in [Targets -> SUBSET (Guarded \cup Free)]
    /\ permission \in [Scopes -> Nat]
    /\ audit \in [Actions -> Nat]
    /\ done \in [Actions -> Nat]
    /\ tx \in [Handlers \cup {Bulk} -> Tx]
    /\ bulk \in BulkRequest
    /\ raced \subseteq {"role"} \cup Scopes

Ops == Guarded \cup Free \cup {"update_user"}
OnTarget == [op : Ops, target : Targets]
Grants == [op : {"grant"}, scope : Scopes]

LEMMA TxShapes ==
    ASSUME NEW x \in Tx
    PROVE  /\ "target" \in DOMAIN x => x \in OnTarget
           /\ x.op \in Ops => x \in OnTarget
           /\ x.op = "grant" => x \in Grants
           /\ x \notin OnTarget /\ x \notin Grants => x = NoTx
<1>1. x \in OnTarget \/ x \in Grants \/ x = NoTx
  BY DEF Tx, OnTarget, Grants, Ops
<1>2. CASE x \in OnTarget
  <2>1. x.op # "grant"
    BY <1>2 DEF OnTarget, Ops, Guarded, Free
  <2>2. QED
    BY <1>2, <2>1
<1>3. CASE x \in Grants
  <2>1. x.op = "grant" /\ x.op \notin Ops /\ "target" \notin DOMAIN x
    BY <1>3 DEF Grants, Ops, Guarded, Free
  <2>2. QED
    BY <1>3, <2>1
<1>4. CASE x = NoTx
  <2>1. x.op = "none" /\ DOMAIN x = {"op"}
    BY <1>4 DEF NoTx
  <2>2. QED
    BY <1>4, <2>1 DEF Ops, Guarded, Free
<1>5. QED
  BY <1>1, <1>2, <1>3, <1>4

LEMMA NoTxFacts == NoTx \in Tx /\ NoTx.op = "none" /\ "none" \notin Ops
  BY DEF NoTx, Tx, Ops, Guarded, Free

\* A handler's change reaches the role only by update_user, and what must not
\* happen to an admin only in a request that does just that.
LEMMA EffectFacts ==
    ASSUME AdminTypeOK, NEW h \in Handlers \cup {Bulk}, tx[h] \in OnTarget, Effect(h)
    PROVE  /\ role' \in [Targets -> {"user", "admin"}]
           /\ \A t \in Targets : t # tx[h].target \/ tx[h].op # "update_user"
                                    => role'[t] = role[t]
           /\ touched' \in [Targets -> SUBSET (Guarded \cup Free)]
           /\ \A t \in Targets : t # tx[h].target \/ tx[h].op \notin Guarded
                                    => touched'[t] \cap Guarded \subseteq touched[t]
           /\ tx' = [tx EXCEPT ![h] = NoTx]
           /\ tx' \in [Handlers \cup {Bulk} -> Tx]
<1> DEFINE op == tx[h].op
           tt == tx[h].target
<1>1. op \in Ops /\ tt \in Targets
  BY DEF OnTarget
<1>2. /\ role' \in IF op = "update_user"
                   THEN {[role EXCEPT ![tt] = r] : r \in {"user", "admin"}}
                   ELSE {role}
      /\ touched' = CASE op = "update_user" -> touched
                      [] op = "delete_note" -> [touched EXCEPT ![tt] = @ \ {"add_note"}]
                      [] op = "unsuspend_user" ->
                           [touched EXCEPT ![tt] = @ \ {"suspend_user"}]
                      [] OTHER -> [touched EXCEPT ![tt] = @ \cup {op}]
      /\ tx' = [tx EXCEPT ![h] = NoTx]
  BY DEF Effect
<1> HIDE DEF op, tt
<1>3. /\ role' \in [Targets -> {"user", "admin"}]
      /\ \A t \in Targets : t # tt \/ op # "update_user" => role'[t] = role[t]
  BY <1>1, <1>2 DEF AdminTypeOK
<1>4. /\ touched' \in [Targets -> SUBSET (Guarded \cup Free)]
      /\ \A t \in Targets : t # tt \/ op \notin Guarded
                               => touched'[t] \cap Guarded \subseteq touched[t]
  <2>1. CASE op = "update_user"
    BY <1>2, <2>1 DEF AdminTypeOK, Guarded
  <2>2. CASE op = "delete_note"
    <3>1. touched' = [touched EXCEPT ![tt] = @ \ {"add_note"}]
      BY <1>2, <2>2
    <3>2. QED
      BY <1>1, <2>2, <3>1 DEF AdminTypeOK, Guarded
  <2>3. CASE op = "unsuspend_user"
    <3>1. touched' = [touched EXCEPT ![tt] = @ \ {"suspend_user"}]
      BY <1>2, <2>3
    <3>2. QED
      BY <1>1, <2>3, <3>1 DEF AdminTypeOK
  <2>4. CASE op \notin {"update_user", "delete_note", "unsuspend_user"}
    <3>1. touched' = [touched EXCEPT ![tt] = @ \cup {op}] /\ op \in Guarded \cup Free
      BY <1>1, <1>2, <2>4 DEF Ops
    <3>2. QED
      BY <1>1, <3>1 DEF AdminTypeOK
  <2>5. QED
    BY <2>1, <2>2, <2>3, <2>4
<1>5. tx' \in [Handlers \cup {Bulk} -> Tx]
  BY <1>2, NoTxFacts DEF AdminTypeOK
<1>6. QED
  BY <1>2, <1>3, <1>4, <1>5 DEF op, tt

LEMMA BeginOnFacts ==
    ASSUME AdminTypeOK, NEW h \in Handlers \cup {Bulk}, NEW op \in Ops,
           NEW t \in Targets, BeginOn(h, op, t)
    PROVE  /\ tx' \in [Handlers \cup {Bulk} -> Tx]
           /\ tx'[h] \in OnTarget /\ tx'[h].op = op /\ tx'[h].target = t
           /\ \A o \in (Handlers \cup {Bulk}) \ {h} : tx'[o] = tx[o]
           /\ tx[h] = NoTx
           /\ op \in Guarded => role[t] = "user"
           /\ raced \subseteq raced' /\ raced' \subseteq raced \cup {"role"}
           /\ "role" \notin raced' =>
                \A o \in (Handlers \cup {Bulk}) \ {h} :
                  tx[o].op \in Guarded \cup {"update_user"} /\ tx[o].target = t
                    => (op = "update_user" <=> tx[o].op = "update_user")
<1> DEFINE v == [op |-> op, target |-> t]
<1>1. v \in OnTarget /\ v \in Tx /\ v.op = op /\ v.target = t
  BY DEF OnTarget, Tx, Ops
<1>2. /\ tx' = [tx EXCEPT ![h] = v] /\ tx[h] = NoTx
      /\ op \in Guarded => role[t] = "user"
      /\ raced' = raced \cup
         {"role" : o \in {o \in DOMAIN tx \ {h} :
             /\ tx[o].op \in Guarded \cup {"update_user"}
             /\ tx[o].target = t
             /\ (op = "update_user") # (tx[o].op = "update_user")}}
  BY DEF BeginOn, NotAnAdmin
<1> HIDE DEF v
<1>3. DOMAIN tx = Handlers \cup {Bulk}
  BY DEF AdminTypeOK
<1>4. QED
  BY <1>1, <1>2, <1>3 DEF AdminTypeOK

\* One id of the list is done: it is counted once.
LEMMA TargetDone ==
    ASSUME NEW b \in BulkRequest, b.todo # <<>>,
           NEW n, n = Failed(b) \/ n = Succeeded(b)
    PROVE  /\ n \in BulkRequest
           /\ n.pc = b.pc /\ n.action = b.action /\ n.asked = b.asked
           /\ n.changes = b.changes /\ n.broken = b.broken
           /\ n.todo \in Seq(Targets) /\ Len(n.todo) = Len(b.todo) - 1
           /\ n = Failed(b) => n.failed = b.failed + 1 /\ n.success = b.success
           /\ n = Succeeded(b) => n.failed = b.failed /\ n.success = b.success + 1
<1> DEFINE todo == Tail(b.todo)
<1>1. /\ b.todo \in Seq(Targets) /\ todo \in Seq(Targets)
      /\ Len(todo) = Len(b.todo) - 1
      /\ b.failed + 1 \in Nat /\ b.success + 1 \in Nat
      /\ b.failed # b.failed + 1
  BY DEF BulkRequest
<1>2. /\ Failed(b) = [b EXCEPT !.todo = todo, !.failed = b.failed + 1]
      /\ Succeeded(b) = [b EXCEPT !.todo = todo, !.success = b.success + 1]
  BY DEF Failed, Succeeded, BulkRequest
<1> HIDE DEF todo
<1>3. /\ Failed(b) \in BulkRequest
      /\ Failed(b).pc = b.pc /\ Failed(b).action = b.action
      /\ Failed(b).asked = b.asked /\ Failed(b).changes = b.changes
      /\ Failed(b).broken = b.broken /\ Failed(b).todo = todo
      /\ Failed(b).failed = b.failed + 1 /\ Failed(b).success = b.success
  BY <1>1, <1>2 DEF BulkRequest
<1>4. /\ Succeeded(b) \in BulkRequest
      /\ Succeeded(b).pc = b.pc /\ Succeeded(b).action = b.action
      /\ Succeeded(b).asked = b.asked /\ Succeeded(b).changes = b.changes
      /\ Succeeded(b).broken = b.broken /\ Succeeded(b).todo = todo
      /\ Succeeded(b).failed = b.failed /\ Succeeded(b).success = b.success + 1
  BY <1>1, <1>2 DEF BulkRequest
<1>5. QED
  BY <1>1, <1>3, <1>4

\* A change is counted, or the session is marked as broken.
LEMMA BulkMarked ==
    ASSUME NEW b \in BulkRequest, NEW n, n = Changed(b) \/ n = Broken(b)
    PROVE  /\ n \in BulkRequest
           /\ n.pc = b.pc /\ n.action = b.action /\ n.asked = b.asked
           /\ n.todo = b.todo /\ n.success = b.success /\ n.failed = b.failed
           /\ n = Changed(b) => n.changes = b.changes + 1 /\ n.broken = b.broken
           /\ n = Broken(b) => n.changes = b.changes /\ n.broken = TRUE
<1>1. /\ Changed(b) = [b EXCEPT !.changes = b.changes + 1]
      /\ Broken(b) = [b EXCEPT !.broken = TRUE]
      /\ b.changes + 1 \in Nat /\ b.changes # b.changes + 1
  BY DEF Changed, Broken, BulkRequest
<1>2. /\ Changed(b) \in BulkRequest
      /\ Changed(b).pc = b.pc /\ Changed(b).action = b.action
      /\ Changed(b).asked = b.asked /\ Changed(b).todo = b.todo
      /\ Changed(b).success = b.success /\ Changed(b).failed = b.failed
      /\ Changed(b).changes = b.changes + 1 /\ Changed(b).broken = b.broken
  BY <1>1 DEF BulkRequest
<1>3. /\ Broken(b) \in BulkRequest
      /\ Broken(b).pc = b.pc /\ Broken(b).action = b.action
      /\ Broken(b).asked = b.asked /\ Broken(b).todo = b.todo
      /\ Broken(b).success = b.success /\ Broken(b).failed = b.failed
      /\ Broken(b).changes = b.changes /\ Broken(b).broken = TRUE
  BY <1>1 DEF BulkRequest
<1>4. QED
  BY <1>1, <1>2, <1>3

LEMMA NoBulkFacts ==
    /\ NoBulk \in BulkRequest
    /\ NoBulk.pc = "idle" /\ NoBulk.action = "none" /\ NoBulk.todo = <<>>
    /\ NoBulk.asked = 0 /\ NoBulk.success = 0 /\ NoBulk.failed = 0
    /\ NoBulk.changes = 0 /\ NoBulk.broken = FALSE
  BY DEF NoBulk, BulkRequest

LEMMA WorkFacts ==
    ASSUME work \in 0 .. MaxWork
    PROVE  Work => work' \in 0 .. MaxWork
  BY TwoFactorAssumption DEF Work

-----------------------------------------------------------------------------
(* The bulk request, alone in its session. *)

\* The call under way is for the next id of the list, the numbers told and the
\* ids left add up to the ids asked, a change is told of unless it broke the
\* session, and the summary is audited exactly when the loop ends in a session
\* that still works.
BulkInv ==
    /\ tx[Bulk] # NoTx =>
         /\ tx[Bulk] \in OnTarget /\ tx[Bulk].op = bulk.action
         /\ bulk.action \in Calls /\ bulk.todo # <<>>
         /\ bulk.pc = "loop" /\ ~bulk.broken
    /\ bulk.success + bulk.failed + Len(bulk.todo) = bulk.asked
    /\ bulk.action \in Changing =>
         /\ bulk.success <= bulk.changes
         /\ bulk.changes <= bulk.success + (IF bulk.broken THEN 1 ELSE 0)
         /\ bulk.changes <= done[bulk.action]
    /\ bulk.action \notin Changing => bulk.changes = 0
    /\ audit["bulk"] = IF bulk.pc = "logged" THEN 1 ELSE 0
    /\ bulk.pc = "error" => bulk.broken

\* The handlers and the audit rows of theirs, as the bulk request sees them.
HandlersOnly ==
    /\ tx'[Bulk] = tx[Bulk]
    /\ bulk' = bulk
    /\ audit'["bulk"] = audit["bulk"]
    /\ done' \in [Actions -> Nat]
    /\ \A a \in Actions : done[a] <= done'[a]

LEMMA ChangingCounted == Changing \subseteq Actions /\ Calls \subseteq Ops
  BY DEF Changing, Calls, Actions, Ops, Guarded, Free, Unaudited

LEMMA HandlersKeepBulk ==
    ASSUME AdminTypeOK, BulkInv, HandlersOnly
    PROVE  BulkInv'
<1>1. bulk.changes \in Nat
  BY DEF AdminTypeOK, BulkRequest
<1>2. bulk.action \in Changing => bulk.changes <= done'[bulk.action]
  BY <1>1, ChangingCounted DEF HandlersOnly, BulkInv, AdminTypeOK
<1>3. QED
  BY <1>2 DEF HandlersOnly, BulkInv

\* A step of the bulk request itself that has dealt with one id.
LEMMA OneIdDone ==
    ASSUME AdminTypeOK, BulkInv, bulk.pc = "loop", bulk.todo # <<>>, tx'[Bulk] = NoTx,
           done' \in [Actions -> Nat], \A a \in Actions : done[a] <= done'[a],
           audit'["bulk"] = audit["bulk"],
           NEW q, q = Failed(bulk) \/ q = Succeeded(bulk),
           \/ /\ bulk' = q
              /\ q = Failed(bulk) \/ bulk.action \notin Changing
           \/ bulk' = Broken(q) /\ q = Failed(bulk)
           \/ /\ bulk.action \in Changing /\ ~bulk.broken
              /\ done'[bulk.action] = done[bulk.action] + 1
              /\ \/ bulk' = Changed(q) /\ q = Succeeded(bulk)
                 \/ bulk' = Broken(Changed(q))
    PROVE  bulk' \in BulkRequest /\ BulkInv'
<1>1. /\ bulk \in BulkRequest /\ bulk.success \in Nat /\ bulk.failed \in Nat
      /\ bulk.changes \in Nat /\ bulk.asked \in Nat /\ Len(bulk.todo) \in Nat
  BY DEF AdminTypeOK, BulkRequest
<1>2. /\ q \in BulkRequest
      /\ q.pc = bulk.pc /\ q.action = bulk.action /\ q.asked = bulk.asked
      /\ q.changes = bulk.changes /\ q.broken = bulk.broken
      /\ q.todo \in Seq(Targets) /\ Len(q.todo) = Len(bulk.todo) - 1
      /\ q = Failed(bulk) => q.failed = bulk.failed + 1 /\ q.success = bulk.success
      /\ q = Succeeded(bulk) => q.failed = bulk.failed /\ q.success = bulk.success + 1
  BY <1>1, TargetDone
<1>3. /\ Changed(q) \in BulkRequest
      /\ Changed(q).pc = q.pc /\ Changed(q).action = q.action
      /\ Changed(q).asked = q.asked /\ Changed(q).todo = q.todo
      /\ Changed(q).success = q.success /\ Changed(q).failed = q.failed
      /\ Changed(q).changes = q.changes + 1 /\ Changed(q).broken = q.broken
  BY <1>2, BulkMarked
<1>4. ASSUME NEW b \in BulkRequest
      PROVE  /\ Broken(b) \in BulkRequest
             /\ Broken(b).pc = b.pc /\ Broken(b).action = b.action
             /\ Broken(b).asked = b.asked /\ Broken(b).todo = b.todo
             /\ Broken(b).success = b.success /\ Broken(b).failed = b.failed
             /\ Broken(b).changes = b.changes /\ Broken(b).broken = TRUE
  BY BulkMarked
<1>5. /\ bulk' \in BulkRequest
      /\ bulk'.pc = "loop" /\ bulk'.action = bulk.action
      /\ bulk'.asked = bulk.asked /\ Len(bulk'.todo) = Len(bulk.todo) - 1
      /\ bulk'.success = q.success /\ bulk'.failed = q.failed
      /\ bulk.broken => bulk'.broken
      /\ \/ /\ bulk'.changes = bulk.changes /\ q = Failed(bulk)
         \/ /\ bulk'.changes = bulk.changes /\ bulk.action \notin Changing
         \/ /\ bulk'.changes = bulk.changes + 1 /\ bulk.action \in Changing
            /\ ~bulk.broken
            /\ done'[bulk.action] = done[bulk.action] + 1
            /\ q = Succeeded(bulk) \/ bulk'.broken
  <2>1. CASE bulk' = q /\ (q = Failed(bulk) \/ bulk.action \notin Changing)
    BY <1>2, <2>1
  <2>2. CASE bulk' = Broken(q) /\ q = Failed(bulk)
    <3>1. /\ Broken(q) \in BulkRequest
          /\ Broken(q).pc = q.pc /\ Broken(q).action = q.action
          /\ Broken(q).asked = q.asked /\ Broken(q).todo = q.todo
          /\ Broken(q).success = q.success /\ Broken(q).failed = q.failed
          /\ Broken(q).changes = q.changes /\ Broken(q).broken = TRUE
      BY <1>2, <1>4
    <3>2. QED
      BY <1>2, <2>2, <3>1
  <2>3. CASE /\ bulk.action \in Changing /\ ~bulk.broken
             /\ done'[bulk.action] = done[bulk.action] + 1
             /\ bulk' = Changed(q) /\ q = Succeeded(bulk)
    BY <1>2, <1>3, <2>3
  <2>4. CASE /\ bulk.action \in Changing /\ ~bulk.broken
             /\ done'[bulk.action] = done[bulk.action] + 1
             /\ bulk' = Broken(Changed(q))
    <3> DEFINE c == Changed(q)
    <3>1. /\ Broken(c) \in BulkRequest
          /\ Broken(c).pc = c.pc /\ Broken(c).action = c.action
          /\ Broken(c).asked = c.asked /\ Broken(c).todo = c.todo
          /\ Broken(c).success = c.success /\ Broken(c).failed = c.failed
          /\ Broken(c).changes = c.changes /\ Broken(c).broken = TRUE
      BY <1>3, <1>4
    <3>2. QED
      BY <1>2, <1>3, <2>4, <3>1
  <2>5. QED
    BY <2>1, <2>2, <2>3, <2>4
<1>6. bulk'.success + bulk'.failed + Len(bulk'.todo) = bulk'.asked
  <2>1. bulk.success + bulk.failed + Len(bulk.todo) = bulk.asked
    BY DEF BulkInv
  <2>2. CASE q = Failed(bulk)
    <3>1. /\ bulk'.success = bulk.success /\ bulk'.failed = bulk.failed + 1
          /\ Len(bulk'.todo) = Len(bulk.todo) - 1 /\ bulk'.asked = bulk.asked
      BY <1>2, <1>5, <2>2
    <3>2. bulk.success \in Nat /\ bulk.failed \in Nat /\ Len(bulk.todo) \in Nat
      BY <1>1
    <3> DEFINE x == bulk.success
               y == bulk.failed
               z == Len(bulk.todo)
    <3>3. x \in Nat /\ y \in Nat /\ z \in Nat
      BY <3>2
    <3> HIDE DEF x, y, z
    <3>4. x + (y + 1) + (z - 1) = x + y + z
      BY <3>3
    <3>5. QED
      BY <2>1, <3>1, <3>4 DEF x, y, z
  <2>3. CASE q = Succeeded(bulk)
    BY <1>1, <1>2, <1>5, <2>1, <2>3
  <2>4. QED
    BY <2>2, <2>3
<1>7. bulk.action \in Changing =>
        /\ bulk'.success <= bulk'.changes
        /\ bulk'.changes <= bulk'.success + (IF bulk'.broken THEN 1 ELSE 0)
        /\ bulk'.changes <= done'[bulk.action]
  <2>1. SUFFICES ASSUME bulk.action \in Changing
                 PROVE  /\ bulk'.success <= bulk'.changes
                        /\ bulk'.changes <= bulk'.success + (IF bulk'.broken THEN 1 ELSE 0)
                        /\ bulk'.changes <= done'[bulk.action]
    OBVIOUS
  <2>2. /\ bulk.success <= bulk.changes
        /\ bulk.changes <= bulk.success + (IF bulk.broken THEN 1 ELSE 0)
        /\ bulk.changes <= done[bulk.action]
    BY <2>1 DEF BulkInv
  <2>3. done[bulk.action] \in Nat /\ done'[bulk.action] \in Nat
        /\ done[bulk.action] <= done'[bulk.action]
    BY <2>1, ChangingCounted DEF AdminTypeOK
  <2>4. QED
    BY <1>1, <1>2, <1>5, <2>1, <2>2, <2>3
<1>8. bulk.action \notin Changing => bulk'.changes = 0
  BY <1>1, <1>5 DEF BulkInv
<1>9. BulkInv'
  BY <1>5, <1>6, <1>7, <1>8 DEF BulkInv
<1>10. QED
  BY <1>5, <1>9

-----------------------------------------------------------------------------
(* Requests that overlap. *)

\* A grant under way has found no row, and is the only one of its scope.
GrantInv ==
    \A s \in Scopes \ raced :
        /\ \A h, g \in Handlers :
             /\ tx[h].op = "grant" /\ tx[h].scope = s
             /\ tx[g].op = "grant" /\ tx[g].scope = s
             => h = g
        /\ \A h \in Handlers :
             tx[h].op = "grant" /\ tx[h].scope = s => permission[s] = 0
        /\ permission[s] <= 1

\* What is about to be done to an account is done to no admin's, and nobody is
\* about to change the role of that account.
RoleInv ==
    "role" \notin raced =>
        \A h \in Handlers \cup {Bulk} :
            tx[h].op \in Guarded =>
                /\ role[tx[h].target] = "user"
                /\ \A g \in Handlers :
                     tx[g].op = "update_user" => tx[g].target # tx[h].target

LEMMA GrantKept ==
    ASSUME AdminTypeOK, GrantInv, raced \subseteq raced',
           \A g \in Handlers : tx'[g].op = "grant" => tx'[g] = tx[g],
           \A s \in Scopes : permission'[s] \in {0, permission[s]}
    PROVE  GrantInv'
<1>1. SUFFICES ASSUME NEW s \in Scopes \ raced'
               PROVE  /\ \A g, o \in Handlers :
                           /\ tx'[g].op = "grant" /\ tx'[g].scope = s
                           /\ tx'[o].op = "grant" /\ tx'[o].scope = s
                           => g = o
                      /\ \A g \in Handlers :
                           tx'[g].op = "grant" /\ tx'[g].scope = s => permission'[s] = 0
                      /\ permission'[s] <= 1
  BY DEF GrantInv
<1>2. /\ \A g, o \in Handlers :
           /\ tx[g].op = "grant" /\ tx[g].scope = s
           /\ tx[o].op = "grant" /\ tx[o].scope = s
           => g = o
      /\ \A g \in Handlers : tx[g].op = "grant" /\ tx[g].scope = s => permission[s] = 0
      /\ permission[s] <= 1
  BY <1>1 DEF GrantInv
<1>3. permission'[s] \in {0, permission[s]}
  OBVIOUS
<1>4. QED
  BY <1>2, <1>3

LEMMA RoleKept ==
    ASSUME AdminTypeOK, RoleInv, "role" \in raced => "role" \in raced',
           \A o \in Handlers \cup {Bulk} :
             tx'[o].op \in Guarded \cup {"update_user"} => tx'[o] = tx[o],
           \A o \in Handlers \cup {Bulk} :
             tx'[o].op \in Guarded /\ "role" \notin raced
               => role'[tx[o].target] = role[tx[o].target]
    PROVE  RoleInv'
  BY DEF RoleInv

\* A request that ends without a commit.
LEMMA Cleared ==
    ASSUME AdminTypeOK, NEW h \in Handlers \cup {Bulk}, tx' = [tx EXCEPT ![h] = NoTx]
    PROVE  /\ tx' \in [Handlers \cup {Bulk} -> Tx]
           /\ tx'[h] = NoTx
           /\ \A o \in (Handlers \cup {Bulk}) \ {h} : tx'[o] = tx[o]
           /\ \A o \in Handlers \cup {Bulk} :
                tx'[o].op \in Guarded \cup {"update_user", "grant"} => tx'[o] = tx[o]
  BY NoTxFacts DEF AdminTypeOK, Ops, NoTx, Guarded

LEMMA BegunKeepsOverlaps ==
    ASSUME AdminTypeOK, GrantInv, RoleInv, NEW h \in Handlers \cup {Bulk},
           NEW op \in Ops, NEW t \in Targets, BeginOn(h, op, t),
           h = Bulk => op # "update_user",
           UNCHANGED <<role, permission>>
    PROVE  GrantInv' /\ RoleInv'
<1>1. /\ tx'[h] \in OnTarget /\ tx'[h].op = op /\ tx'[h].target = t
      /\ \A o \in (Handlers \cup {Bulk}) \ {h} : tx'[o] = tx[o]
      /\ op \in Guarded => role[t] = "user"
      /\ raced \subseteq raced'
      /\ "role" \notin raced' =>
           \A o \in (Handlers \cup {Bulk}) \ {h} :
             tx[o].op \in Guarded \cup {"update_user"} /\ tx[o].target = t
               => (op = "update_user" <=> tx[o].op = "update_user")
  BY BeginOnFacts
<1>2. op # "grant"
  BY DEF Ops, Guarded, Free
<1>3. GrantInv'
  BY <1>1, <1>2, GrantKept
<1>4. RoleInv'
  <2>1. SUFFICES ASSUME "role" \notin raced', NEW o \in Handlers \cup {Bulk},
                        tx'[o].op \in Guarded
                 PROVE  /\ role[tx'[o].target] = "user"
                        /\ \A g \in Handlers : tx'[g].op = "update_user"
                             => tx'[g].target # tx'[o].target
    BY DEF RoleInv
  <2>2. CASE o = h
    BY <1>1, <2>1, <2>2 DEF Guarded
  <2>3. CASE o # h
    <3>1. tx'[o] = tx[o] /\ "role" \notin raced
      BY <1>1, <2>1, <2>3
    <3>2. role[tx[o].target] = "user"
      BY <2>1, <3>1 DEF RoleInv
    <3>3. ASSUME NEW g \in Handlers, tx'[g].op = "update_user"
          PROVE  tx'[g].target # tx[o].target
      <4>1. CASE g = h
        BY <1>1, <2>1, <2>3, <3>1, <3>3, <4>1 DEF Guarded
      <4>2. CASE g # h
        BY <1>1, <2>1, <3>1, <3>3, <4>2 DEF RoleInv
      <4>3. QED
        BY <4>1, <4>2
    <3>4. QED
      BY <3>1, <3>2, <3>3
  <2>4. QED
    BY <2>2, <2>3
<1>5. QED
  BY <1>3, <1>4

-----------------------------------------------------------------------------
(* The steps of the admins' requests. *)

\* What has to hold of the admins' part, and follows from it alone.
HandlerInv ==
    /\ AdminTypeOK
    /\ BulkInv
    /\ ChangesAudited
    /\ GrantInv
    /\ RoleInv

LEMMA BeginActionKeeps ==
    ASSUME HandlerInv, NEW h \in Handlers, BeginAction(h)
    PROVE  HandlerInv'
<1> USE DEF HandlerInv
<1>1. PICK op \in Ops, t \in Targets : BeginOn(h, op, t)
  BY DEF BeginAction, Ops
<1>2. UNCHANGED <<role, touched, permission, audit, done, bulk>>
  BY DEF BeginAction
<1>3. /\ tx' \in [Handlers \cup {Bulk} -> Tx]
      /\ \A o \in (Handlers \cup {Bulk}) \ {h} : tx'[o] = tx[o]
      /\ raced' \subseteq raced \cup {"role"}
  BY <1>1, BeginOnFacts
<1>4. AdminTypeOK'
  BY <1>2, <1>3 DEF AdminTypeOK
<1>5. BulkInv'
  BY <1>2, <1>3, AdminAssumption, HandlersKeepBulk DEF HandlersOnly, AdminTypeOK
<1>6. ChangesAudited'
  BY <1>2 DEF ChangesAudited
<1>7. GrantInv' /\ RoleInv'
  BY <1>1, <1>2, AdminAssumption, BegunKeepsOverlaps
<1>8. QED
  BY <1>4, <1>5, <1>6, <1>7

LEMMA OpsAudited ==
    /\ Ops \subseteq Actions /\ Unaudited \subseteq Actions
    /\ Ops \cap Unaudited = {}
    /\ {"login", "bulk"} \subseteq Actions
    /\ {"login", "bulk"} \cap (Ops \cup Unaudited) = {}
  BY DEF Ops, Actions, Unaudited, Guarded, Free

\* A committed change leaves as many audit rows as changes.
LEMMA AuditedFacts ==
    ASSUME AdminTypeOK, NEW a \in Actions, Audited(a)
    PROVE  /\ audit' \in [Actions -> Nat] /\ done' \in [Actions -> Nat]
           /\ audit'[a] = audit[a] + 1 /\ done'[a] = done[a] + 1
           /\ \A b \in Actions \ {a} : audit'[b] = audit[b] /\ done'[b] = done[b]
           /\ \A b \in Actions : done[b] <= done'[b]
  BY DEF AdminTypeOK, Audited

LEMMA CommitKeeps ==
    ASSUME HandlerInv, NEW h \in Handlers \cup {Bulk}, tx[h] \in OnTarget,
           Effect(h), Audited(tx[h].op), UNCHANGED <<permission, raced>>
    PROVE  ChangesAudited' /\ GrantInv' /\ RoleInv'
<1> USE DEF HandlerInv
<1>1. /\ \A t \in Targets : t # tx[h].target \/ tx[h].op # "update_user"
                                => role'[t] = role[t]
      /\ tx' = [tx EXCEPT ![h] = NoTx]
  BY EffectFacts
<1>2. tx[h].op \in Ops /\ tx[h].op \in Actions /\ tx[h].target \in Targets
  BY DEF OnTarget, Ops, Actions
<1>3. ChangesAudited'
  <2>1. Ops \subseteq Actions /\ Unaudited \subseteq Actions /\ tx[h].op \notin Unaudited
    BY <1>2, OpsAudited
  <2>2. /\ audit'[tx[h].op] = audit[tx[h].op] + 1 /\ done'[tx[h].op] = done[tx[h].op] + 1
        /\ \A b \in Actions \ {tx[h].op} : audit'[b] = audit[b] /\ done'[b] = done[b]
    BY <1>2, AuditedFacts
  <2>3. QED
    BY <2>1, <2>2 DEF ChangesAudited, Ops
<1>4. /\ tx'[h] = NoTx
      /\ \A o \in Handlers \cup {Bulk} :
           tx'[o].op \in Guarded \cup {"update_user", "grant"} => tx'[o] = tx[o]
  BY <1>1, Cleared
<1>5. GrantInv'
  BY <1>4, GrantKept
<1>6. ASSUME NEW o \in Handlers \cup {Bulk}, tx'[o].op \in Guarded, "role" \notin raced
      PROVE  role'[tx[o].target] = role[tx[o].target]
  <2>1. tx[o].op \in Guarded /\ tx[o].target \in Targets
    BY <1>4, <1>6, TxShapes DEF AdminTypeOK, Ops, OnTarget
  <2>2. CASE tx[h].op # "update_user"
    BY <1>1, <2>1, <2>2
  <2>3. CASE tx[h].op = "update_user"
    <3>1. h \in Handlers
      BY <2>3, NoTxFacts DEF BulkInv, Ops, Calls
    <3>2. tx[o].target # tx[h].target
      BY <1>6, <2>1, <2>3, <3>1 DEF RoleInv
    <3>3. QED
      BY <1>1, <2>1, <3>2
  <2>4. QED
    BY <2>2, <2>3
<1>7. RoleInv'
  BY <1>4, <1>6, RoleKept
<1>8. QED
  BY <1>3, <1>5, <1>7

LEMMA CommitActionKeeps ==
    ASSUME HandlerInv, NEW h \in Handlers, CommitAction(h)
    PROVE  HandlerInv'
<1> USE DEF HandlerInv
<1>1. tx[h] \in OnTarget
  BY TxShapes DEF CommitAction, AdminTypeOK
<1>2. Effect(h) /\ Audited(tx[h].op) /\ UNCHANGED <<permission, bulk, raced>>
  BY DEF CommitAction
<1>3. /\ role' \in [Targets -> {"user", "admin"}]
      /\ touched' \in [Targets -> SUBSET (Guarded \cup Free)]
      /\ tx' = [tx EXCEPT ![h] = NoTx]
      /\ tx' \in [Handlers \cup {Bulk} -> Tx]
  BY <1>1, <1>2, EffectFacts
<1>4. tx[h].op \in Actions /\ tx[h].op # "bulk"
  BY <1>1 DEF OnTarget, Ops, Actions, Guarded, Free
<1>5. AdminTypeOK'
  BY <1>2, <1>3, <1>4, AuditedFacts DEF AdminTypeOK
<1>6. BulkInv'
  <2>1. tx'[Bulk] = tx[Bulk]
    BY <1>3, AdminAssumption DEF AdminTypeOK
  <2>2. /\ audit'["bulk"] = audit["bulk"]
        /\ done' \in [Actions -> Nat]
        /\ \A a \in Actions : done[a] <= done'[a]
    BY <1>2, <1>4, AuditedFacts DEF Actions
  <2>3. QED
    BY <1>2, <1>3, <2>1, <2>2, HandlersKeepBulk DEF HandlersOnly, AdminTypeOK
<1>7. ChangesAudited' /\ GrantInv' /\ RoleInv'
  BY <1>1, <1>2, CommitKeeps
<1>8. QED
  BY <1>5, <1>6, <1>7

LEMMA ActionFailsKeeps ==
    ASSUME HandlerInv, NEW h \in Handlers, ActionFails(h)
    PROVE  HandlerInv'
<1> USE DEF HandlerInv
<1>1. tx' = [tx EXCEPT ![h] = NoTx]
      /\ UNCHANGED <<role, touched, permission, audit, done, bulk, raced>>
  BY DEF ActionFails
<1>2. /\ tx' \in [Handlers \cup {Bulk} -> Tx]
      /\ \A o \in (Handlers \cup {Bulk}) \ {h} : tx'[o] = tx[o]
      /\ \A o \in Handlers \cup {Bulk} :
           tx'[o].op \in Guarded \cup {"update_user", "grant"} => tx'[o] = tx[o]
  BY <1>1, Cleared
<1>3. AdminTypeOK'
  BY <1>1, <1>2 DEF AdminTypeOK
<1>4. BulkInv'
  BY <1>1, <1>2, AdminAssumption, HandlersKeepBulk DEF HandlersOnly, AdminTypeOK
<1>5. ChangesAudited'
  BY <1>1 DEF ChangesAudited
<1>6. GrantInv' /\ RoleInv'
  BY <1>1, <1>2, GrantKept, RoleKept
<1>7. QED
  BY <1>3, <1>4, <1>5, <1>6

LEMMA OneMore ==
    ASSUME AdminTypeOK, NEW a \in Actions, done' = [done EXCEPT ![a] = @ + 1]
    PROVE  /\ done' \in [Actions -> Nat]
           /\ done'[a] = done[a] + 1
           /\ \A b \in Actions \ {a} : done'[b] = done[b]
           /\ \A b \in Actions : done[b] <= done'[b]
  BY DEF AdminTypeOK

\* The look-up has found no row, and no other grant is under way.
LEMMA BeginGrantKeeps ==
    ASSUME HandlerInv, NEW h \in Handlers, NEW s \in Scopes, BeginGrant(h, s)
    PROVE  HandlerInv'
<1> USE DEF HandlerInv
<1> DEFINE v == [op |-> "grant", scope |-> s]
<1>1. v \in Tx /\ v.op = "grant" /\ v.scope = s
  BY DEF Tx
<1>2. /\ tx' = [tx EXCEPT ![h] = v] /\ tx[h] = NoTx /\ permission[s] = 0
      /\ raced' = raced \cup {s : o \in {o \in Handlers :
                                           tx[o] = [op |-> "grant", scope |-> s]}}
      /\ UNCHANGED <<role, touched, permission, audit, done, bulk>>
  BY DEF BeginGrant, NotGranted
<1> HIDE DEF v
<1>3. /\ tx' \in [Handlers \cup {Bulk} -> Tx]
      /\ tx'[h] = v
      /\ \A o \in (Handlers \cup {Bulk}) \ {h} : tx'[o] = tx[o]
  BY <1>1, <1>2 DEF AdminTypeOK
<1>4. AdminTypeOK'
  BY <1>2, <1>3 DEF AdminTypeOK
<1>5. BulkInv'
  BY <1>2, <1>3, AdminAssumption, HandlersKeepBulk DEF HandlersOnly, AdminTypeOK
<1>6. ChangesAudited'
  BY <1>2 DEF ChangesAudited
<1>7. GrantInv'
  <2>1. \A o \in Handlers : tx[o].op = "grant" /\ tx[o].scope = s
          => tx[o] = [op |-> "grant", scope |-> s]
    BY TxShapes DEF AdminTypeOK, Grants
  <2>2. s \notin raced' => \A o \in Handlers : ~(tx[o].op = "grant" /\ tx[o].scope = s)
    BY <1>2, <2>1
  <2>3. QED
    BY <1>1, <1>2, <1>3, <2>2 DEF GrantInv, AdminTypeOK
<1>8. RoleInv'
  <2>1. "grant" \notin Guarded \cup {"update_user"}
    BY DEF Guarded
  <2>2. QED
    BY <1>1, <1>2, <1>3, <2>1, RoleKept
<1>9. QED
  BY <1>4, <1>5, <1>6, <1>7, <1>8

LEMMA CommitGrantKeeps ==
    ASSUME HandlerInv, NEW h \in Handlers, CommitGrant(h)
    PROVE  HandlerInv'
<1> USE DEF HandlerInv
<1>1. /\ tx[h].op = "grant"
      /\ permission' = [permission EXCEPT ![tx[h].scope] = @ + 1]
      /\ tx' = [tx EXCEPT ![h] = NoTx]
      /\ done' = [done EXCEPT !["grant"] = @ + 1]
      /\ UNCHANGED <<role, touched, audit, bulk, raced>>
  BY DEF CommitGrant
<1>2. tx[h].scope \in Scopes
  BY <1>1, TxShapes DEF AdminTypeOK, Grants
<1>3. /\ tx' \in [Handlers \cup {Bulk} -> Tx]
      /\ tx'[h] = NoTx
      /\ \A o \in (Handlers \cup {Bulk}) \ {h} : tx'[o] = tx[o]
      /\ \A o \in Handlers \cup {Bulk} :
           tx'[o].op \in Guarded \cup {"update_user", "grant"} => tx'[o] = tx[o]
  BY <1>1, Cleared
<1>4. /\ done' \in [Actions -> Nat] /\ \A a \in Actions : done[a] <= done'[a]
      /\ \A a \in Ops : done'[a] = done[a]
  BY <1>1, OneMore, OpsAudited DEF Unaudited
<1>5. AdminTypeOK' /\ ChangesAudited'
  BY <1>1, <1>2, <1>3, <1>4 DEF AdminTypeOK, ChangesAudited, Ops
<1>6. BulkInv'
  BY <1>1, <1>3, <1>4, AdminAssumption, HandlersKeepBulk DEF HandlersOnly
<1>7. GrantInv'
  <2>1. SUFFICES ASSUME NEW s \in Scopes \ raced
                 PROVE  /\ \A g, o \in Handlers :
                             /\ tx'[g].op = "grant" /\ tx'[g].scope = s
                             /\ tx'[o].op = "grant" /\ tx'[o].scope = s
                             => g = o
                        /\ \A g \in Handlers :
                             tx'[g].op = "grant" /\ tx'[g].scope = s => permission'[s] = 0
                        /\ permission'[s] <= 1
    BY <1>1 DEF GrantInv
  <2>2. \A g \in Handlers : tx'[g].op = "grant" => tx'[g] = tx[g] /\ g # h
    BY <1>3, NoTxFacts
  <2>3. CASE s = tx[h].scope
    BY <1>1, <1>2, <2>1, <2>2, <2>3 DEF GrantInv, AdminTypeOK
  <2>4. CASE s # tx[h].scope
    BY <1>1, <1>2, <2>1, <2>2, <2>4 DEF GrantInv, AdminTypeOK
  <2>5. QED
    BY <2>3, <2>4
<1>8. RoleInv'
  BY <1>1, <1>3, RoleKept
<1>9. QED
  BY <1>5, <1>6, <1>7, <1>8

LEMMA RevokeKeeps ==
    ASSUME HandlerInv, NEW s \in Scopes, Revoke(s)
    PROVE  HandlerInv'
<1> USE DEF HandlerInv
<1>1. /\ permission' = [x \in Scopes |->
                          IF s \in {x, "any"} THEN 0 ELSE permission[x]]
      /\ done' = [done EXCEPT !["revoke"] = @ + 1]
      /\ UNCHANGED <<role, touched, audit, tx, bulk, raced>>
  BY DEF Revoke
<1>2. /\ done' \in [Actions -> Nat] /\ \A a \in Actions : done[a] <= done'[a]
      /\ \A a \in Ops : done'[a] = done[a]
  BY <1>1, OneMore, OpsAudited DEF Unaudited
<1>3. BulkInv'
  BY <1>1, <1>2, HandlersKeepBulk DEF HandlersOnly
<1>4. AdminTypeOK' /\ ChangesAudited'
  BY <1>1, <1>2 DEF AdminTypeOK, ChangesAudited, Ops
<1>5. GrantInv' /\ RoleInv'
  BY <1>1, GrantKept, RoleKept
<1>6. QED
  BY <1>3, <1>4, <1>5

-----------------------------------------------------------------------------
(* The steps of the bulk request. *)

\* A step of the loop that touches neither rows nor other requests.
LEMMA LoopKeeps ==
    ASSUME HandlerInv, Loop, tx' = tx, raced' = raced, bulk' \in BulkRequest, BulkInv'
    PROVE  HandlerInv'
<1> USE DEF HandlerInv
<1>1. AdminTypeOK' /\ ChangesAudited'
  BY DEF Loop, AdminTypeOK, ChangesAudited
<1>2. GrantInv' /\ RoleInv'
  BY GrantKept, RoleKept DEF Loop
<1>3. QED
  BY <1>1, <1>2

LEMMA StartBulkKeeps == ASSUME HandlerInv, StartBulk PROVE HandlerInv'
<1> USE DEF HandlerInv
<1>1. PICK ids \in Lists, a \in BulkActions, reason \in BOOLEAN :
        bulk' = [bulk EXCEPT !.pc = "loop", !.action = a, !.reason = reason,
                             !.todo = ids, !.asked = Len(ids)]
  BY DEF StartBulk
<1>2. bulk = NoBulk /\ UNCHANGED <<tx, raced>> /\ Loop
  BY DEF StartBulk
<1>3. ids \in Seq(Targets) /\ Len(ids) \in Nat
  BY AdminAssumption DEF Lists
<1>4. /\ bulk' \in BulkRequest /\ bulk'.pc = "loop" /\ bulk'.todo = ids
      /\ bulk'.asked = Len(ids) /\ bulk'.action = a
      /\ bulk'.success = 0 /\ bulk'.failed = 0 /\ bulk'.changes = 0
      /\ bulk'.broken = FALSE
  <2>1. /\ bulk' \in BulkRequest /\ bulk'.pc = "loop" /\ bulk'.todo = ids
        /\ bulk'.asked = Len(ids) /\ bulk'.action = a
        /\ bulk'.success = bulk.success /\ bulk'.failed = bulk.failed
        /\ bulk'.changes = bulk.changes /\ bulk'.broken = bulk.broken
    BY <1>1, <1>3 DEF AdminTypeOK, BulkRequest
  <2>2. QED
    BY <1>2, <2>1, NoBulkFacts
<1>5. tx[Bulk] = NoTx /\ audit["bulk"] = 0
  BY <1>2, NoBulkFacts DEF BulkInv
<1>6. tx'[Bulk] = NoTx /\ audit'["bulk"] = 0 /\ done' = done
  BY <1>2, <1>5 DEF Loop
<1>7. a \in Changing => done[a] \in Nat
  BY ChangingCounted DEF AdminTypeOK
<1>8. BulkInv'
  BY <1>3, <1>4, <1>6, <1>7 DEF BulkInv
<1>9. QED
  BY <1>2, <1>4, <1>8, LoopKeeps

\* An id that is refused, or for which nothing is changed, is counted.
LEMMA RefusedKeeps ==
    ASSUME HandlerInv, NEW t \in Targets,
           BulkRefused(t) \/ BulkStaysBroken(t) \/ BulkChangesNothing(t)
    PROVE  HandlerInv'
<1> USE DEF HandlerInv
<1>1. /\ bulk.pc = "loop" /\ bulk.todo # <<>> /\ tx[Bulk] = NoTx
      /\ \/ bulk' = Failed(bulk)
         \/ bulk' = Succeeded(bulk) /\ bulk.action \notin Changing
      /\ UNCHANGED <<tx, raced>> /\ Loop
  BY DEF BulkRefused, BulkStaysBroken, BulkChangesNothing, NextTarget
<1>2. UNCHANGED <<done, audit>> /\ tx'[Bulk] = NoTx
  BY <1>1 DEF Loop
<1>3. done' \in [Actions -> Nat] /\ \A a \in Actions : done[a] <= done'[a]
  BY <1>2 DEF AdminTypeOK
<1>4. bulk' \in BulkRequest /\ BulkInv'
  BY <1>1, <1>2, <1>3, OneIdDone
<1>5. QED
  BY <1>1, <1>4, LoopKeeps

LEMMA BulkBeginKeeps ==
    ASSUME HandlerInv, NEW t \in Targets, BulkBegin(t)
    PROVE  HandlerInv'
<1> USE DEF HandlerInv
<1>1. /\ bulk.pc = "loop" /\ bulk.todo # <<>> /\ ~bulk.broken
      /\ bulk.action \in Calls
      /\ BeginOn(Bulk, bulk.action, t) /\ UNCHANGED bulk /\ Loop
  BY DEF BulkBegin, NextTarget
<1>2. bulk.action \in Ops /\ bulk.action # "update_user"
  BY <1>1, ChangingCounted DEF Calls
<1>3. /\ tx' \in [Handlers \cup {Bulk} -> Tx]
      /\ tx'[Bulk] \in OnTarget /\ tx'[Bulk].op = bulk.action
      /\ raced' \subseteq raced \cup {"role"}
  BY <1>1, <1>2, BeginOnFacts
<1>4. AdminTypeOK'
  BY <1>1, <1>3 DEF AdminTypeOK, Loop
<1>5. BulkInv'
  BY <1>1, <1>3 DEF BulkInv, Loop
<1>6. ChangesAudited'
  BY <1>1 DEF ChangesAudited, Loop
<1>7. GrantInv' /\ RoleInv'
  BY <1>1, <1>2, BegunKeepsOverlaps DEF Loop
<1>8. QED
  BY <1>4, <1>5, <1>6, <1>7

LEMMA BulkCommitKeeps == ASSUME HandlerInv, BulkCommit PROVE HandlerInv'
<1> USE DEF HandlerInv
<1>1. /\ tx[Bulk] \in OnTarget /\ tx[Bulk].op = bulk.action
      /\ bulk.action \in Calls /\ bulk.todo # <<>>
      /\ bulk.pc = "loop" /\ ~bulk.broken
  BY DEF BulkCommit, BulkInv
<1>2. /\ Effect(Bulk) /\ Audited(bulk.action)
      /\ \/ bulk' = Changed(Succeeded(bulk))
         \/ bulk' = Broken(Changed(Failed(bulk)))
      /\ UNCHANGED <<permission, raced>>
  BY <1>1 DEF BulkCommit
<1>3. /\ role' \in [Targets -> {"user", "admin"}]
      /\ touched' \in [Targets -> SUBSET (Guarded \cup Free)]
      /\ tx' = [tx EXCEPT ![Bulk] = NoTx]
      /\ tx' \in [Handlers \cup {Bulk} -> Tx]
  BY <1>1, <1>2, EffectFacts
<1>4. bulk.action \in Actions \ {"bulk"} /\ bulk.action \in Changing /\ "bulk" \in Actions
  BY <1>1, ChangingCounted, OpsAudited DEF Changing
<1>5. /\ audit' \in [Actions -> Nat] /\ done' \in [Actions -> Nat]
      /\ audit'["bulk"] = audit["bulk"]
      /\ done'[bulk.action] = done[bulk.action] + 1
      /\ \A b \in Actions : done[b] <= done'[b]
  BY <1>2, <1>4, AuditedFacts
<1>6. tx'[Bulk] = NoTx
  BY <1>3 DEF AdminTypeOK
<1>7. bulk' \in BulkRequest /\ BulkInv'
  BY <1>1, <1>2, <1>4, <1>5, <1>6, OneIdDone
<1>8. AdminTypeOK'
  BY <1>2, <1>3, <1>5, <1>7 DEF AdminTypeOK
<1>9. ChangesAudited' /\ GrantInv' /\ RoleInv'
  BY <1>1, <1>2, CommitKeeps
<1>10. QED
  BY <1>7, <1>8, <1>9

LEMMA BulkNotifyKeeps ==
    ASSUME HandlerInv, NEW t \in Targets, BulkNotify(t)
    PROVE  HandlerInv'
<1> USE DEF HandlerInv
<1>1. /\ bulk.pc = "loop" /\ bulk.todo # <<>> /\ tx[Bulk] = NoTx /\ ~bulk.broken
      /\ bulk.action = "notify"
      /\ \/ bulk' = Changed(Succeeded(bulk))
         \/ bulk' \in {Broken(Changed(q)) : q \in {Succeeded(bulk), Failed(bulk)}}
      /\ done' = [done EXCEPT !["notify"] = @ + 1]
      /\ UNCHANGED <<role, touched, permission, audit, tx, raced>>
  BY DEF BulkNotify, NextTarget
<1>2. "notify" \in Actions \ Ops /\ "notify" \in Changing
  BY OpsAudited DEF Unaudited, Changing
<1>3. /\ done' \in [Actions -> Nat]
      /\ done'["notify"] = done["notify"] + 1
      /\ \A b \in Actions \ {"notify"} : done'[b] = done[b]
      /\ \A b \in Actions : done[b] <= done'[b]
  BY <1>1, <1>2, OneMore
<1>4. bulk' \in BulkRequest /\ BulkInv'
  BY <1>1, <1>2, <1>3, OneIdDone
<1>5. AdminTypeOK'
  BY <1>1, <1>3, <1>4 DEF AdminTypeOK
<1>6. ChangesAudited'
  BY <1>1, <1>2, <1>3, OpsAudited DEF ChangesAudited, Ops
<1>7. GrantInv' /\ RoleInv'
  BY <1>1, GrantKept, RoleKept
<1>8. QED
  BY <1>4, <1>5, <1>6, <1>7

\* The call under way, if any, is rolled back with the session.
LEMMA BulkBreaksKeeps ==
    ASSUME HandlerInv, NEW t \in Targets, BulkBreaks(t)
    PROVE  HandlerInv'
<1> USE DEF HandlerInv
<1>1. /\ bulk' = Broken(Failed(bulk))
      /\ tx' = [tx EXCEPT ![Bulk] = NoTx]
      /\ UNCHANGED raced /\ Loop
  BY DEF BulkBreaks
<1>2. bulk.pc = "loop" /\ bulk.todo # <<>>
  BY DEF BulkBreaks, NextTarget, BulkInv
<1>3. /\ tx' \in [Handlers \cup {Bulk} -> Tx] /\ tx'[Bulk] = NoTx
      /\ \A o \in Handlers \cup {Bulk} :
           tx'[o].op \in Guarded \cup {"update_user", "grant"} => tx'[o] = tx[o]
  BY <1>1, Cleared
<1>4. UNCHANGED <<done, audit>>
  BY <1>1 DEF Loop
<1>5. done' \in [Actions -> Nat] /\ \A a \in Actions : done[a] <= done'[a]
  BY <1>4 DEF AdminTypeOK
<1>6. bulk' \in BulkRequest /\ BulkInv'
  BY <1>1, <1>2, <1>3, <1>4, <1>5, OneIdDone
<1>7. AdminTypeOK'
  BY <1>1, <1>3, <1>6 DEF AdminTypeOK, Loop
<1>8. ChangesAudited'
  BY <1>1 DEF ChangesAudited, Loop
<1>9. GrantInv' /\ RoleInv'
  BY <1>1, <1>3, GrantKept, RoleKept DEF Loop
<1>10. QED
  BY <1>6, <1>7, <1>8, <1>9

\* All targets are done, none is under way.
LEMMA BulkEndsKeeps ==
    ASSUME HandlerInv, BulkLogs \/ BulkCannotLog
    PROVE  HandlerInv'
<1> USE DEF HandlerInv
<1>1. /\ bulk.pc = "loop" /\ bulk.todo = <<>> /\ bulk \in BulkRequest
      /\ UNCHANGED <<role, touched, permission, done, tx, raced>>
  BY DEF BulkLogs, BulkCannotLog, Loop, AdminTypeOK
<1>2. tx[Bulk] = NoTx /\ audit["bulk"] = 0
  BY <1>1 DEF BulkInv
<1>3. GrantInv' /\ RoleInv'
  BY <1>1, GrantKept, RoleKept
<1>4. CASE BulkLogs
  <2>1. bulk' = [bulk EXCEPT !.pc = "logged"] /\ audit' = [audit EXCEPT !["bulk"] = @ + 1]
    BY <1>4 DEF BulkLogs
  <2>2. /\ bulk' \in BulkRequest /\ bulk'.pc = "logged"
        /\ bulk'.action = bulk.action /\ bulk'.todo = bulk.todo
        /\ bulk'.asked = bulk.asked /\ bulk'.changes = bulk.changes
        /\ bulk'.success = bulk.success /\ bulk'.failed = bulk.failed
        /\ bulk'.broken = bulk.broken
    BY <1>1, <2>1 DEF BulkRequest
  <2>3. /\ audit' \in [Actions -> Nat] /\ audit'["bulk"] = 1
        /\ \A a \in Ops \cup Unaudited : audit'[a] = audit[a]
    BY <1>2, <2>1, OpsAudited DEF AdminTypeOK
  <2>4. AdminTypeOK'
    BY <1>1, <2>2, <2>3 DEF AdminTypeOK
  <2>5. BulkInv'
    BY <1>1, <1>2, <2>2, <2>3 DEF BulkInv
  <2>6. ChangesAudited'
    BY <1>1, <2>3 DEF ChangesAudited, Ops
  <2>7. QED
    BY <1>3, <2>4, <2>5, <2>6
<1>5. CASE BulkCannotLog
  <2>1. bulk.broken /\ bulk' = [bulk EXCEPT !.pc = "error"] /\ Loop
    BY <1>5 DEF BulkCannotLog
  <2>2. /\ bulk' \in BulkRequest /\ bulk'.pc = "error"
        /\ bulk'.action = bulk.action /\ bulk'.todo = bulk.todo
        /\ bulk'.asked = bulk.asked /\ bulk'.changes = bulk.changes
        /\ bulk'.success = bulk.success /\ bulk'.failed = bulk.failed
        /\ bulk'.broken = bulk.broken
    BY <1>1, <2>1 DEF BulkRequest
  <2>3. BulkInv'
    BY <1>1, <1>2, <2>1, <2>2 DEF BulkInv, Loop
  <2>4. QED
    BY <1>1, <2>1, <2>2, <2>3, LoopKeeps
<1>6. QED
  BY <1>4, <1>5

-----------------------------------------------------------------------------
(* All steps together. *)

\* The admins' steps, which leave the second factor alone.
HandlerStep ==
    \/ \E h \in Handlers :
         \/ BeginAction(h) \/ CommitAction(h) \/ ActionFails(h)
         \/ \E s \in Scopes : BeginGrant(h, s)
         \/ CommitGrant(h)
    \/ \E s \in Scopes : Revoke(s)
    \/ StartBulk
    \/ \E t \in Targets :
         \/ BulkRefused(t) \/ BulkBegin(t) \/ BulkNotify(t)
         \/ BulkChangesNothing(t) \/ BulkBreaks(t) \/ BulkStaysBroken(t)
    \/ BulkCommit \/ BulkLogs \/ BulkCannotLog

LEMMA HandlerStepKeeps == ASSUME HandlerInv, HandlerStep PROVE HandlerInv'
<1>1. ASSUME NEW h \in Handlers,
             \/ BeginAction(h) \/ CommitAction(h) \/ ActionFails(h)
             \/ \E s \in Scopes : BeginGrant(h, s)
             \/ CommitGrant(h)
      PROVE  HandlerInv'
  BY <1>1, BeginActionKeeps, CommitActionKeeps, ActionFailsKeeps, BeginGrantKeeps,
     CommitGrantKeeps
<1>2. ASSUME NEW t \in Targets,
             \/ BulkRefused(t) \/ BulkBegin(t) \/ BulkNotify(t)
             \/ BulkChangesNothing(t) \/ BulkBreaks(t) \/ BulkStaysBroken(t)
      PROVE  HandlerInv'
  BY <1>2, RefusedKeeps, BulkBeginKeeps, BulkNotifyKeeps, BulkBreaksKeeps
<1>3. QED
  BY <1>1, <1>2, RevokeKeeps, StartBulkKeeps, BulkCommitKeeps, BulkEndsKeeps DEF HandlerStep

\* What these steps leave alone.
LEMMA HandlerStepFrame ==
    ASSUME HandlerInv, work \in 0 .. MaxWork, HandlerStep
    PROVE  /\ UNCHANGED Factors
           /\ work' \in 0 .. MaxWork
           /\ done'["login"] = done["login"]
           /\ audit'["login"] = audit["login"]
<1> USE DEF HandlerInv
<1>1. \A h \in Handlers \cup {Bulk} : tx[h] \in OnTarget =>
        tx[h].op \in Actions \ {"login"}
  BY DEF OnTarget, Ops, Actions, Guarded, Free
<1>2. /\ "login" \in Actions /\ "bulk" \in Actions
      /\ {"notify", "grant", "revoke"} \subseteq Actions
  BY DEF Actions, Unaudited
<1>3. ASSUME NEW h \in Handlers, CommitAction(h)
      PROVE  /\ UNCHANGED <<Factors, work>>
             /\ done'["login"] = done["login"] /\ audit'["login"] = audit["login"]
  <2>1. tx[h] \in OnTarget
    BY <1>3, TxShapes DEF CommitAction, AdminTypeOK
  <2>2. QED
    BY <1>1, <1>2, <1>3, <2>1, AuditedFacts DEF CommitAction
<1>4. CASE BulkCommit
  <2>1. tx[Bulk] \in OnTarget
    BY <1>4 DEF BulkCommit, BulkInv
  <2>2. QED
    BY <1>1, <1>2, <1>4, <2>1, AuditedFacts, WorkFacts DEF BulkCommit
<1>5. ASSUME \/ \E t \in Targets : BulkNotify(t)
             \/ \E h \in Handlers : CommitGrant(h)
             \/ \E s \in Scopes : Revoke(s)
      PROVE  /\ UNCHANGED Factors /\ work' \in 0 .. MaxWork
             /\ done'["login"] = done["login"] /\ audit'["login"] = audit["login"]
  BY <1>2, <1>5, WorkFacts DEF BulkNotify, CommitGrant, Revoke, AdminTypeOK
<1>6. CASE BulkLogs
  BY <1>2, <1>6 DEF BulkLogs, AdminTypeOK
<1>7. ASSUME \/ \E h \in Handlers :
                  \/ BeginAction(h) \/ ActionFails(h)
                  \/ \E s \in Scopes : BeginGrant(h, s)
             \/ StartBulk
             \/ \E t \in Targets :
                  \/ BulkRefused(t) \/ BulkBegin(t) \/ BulkChangesNothing(t)
                  \/ BulkBreaks(t) \/ BulkStaysBroken(t)
             \/ BulkCannotLog
      PROVE  UNCHANGED <<Factors, done, audit>> /\ work' \in 0 .. MaxWork
  BY <1>7, WorkFacts DEF BeginAction, ActionFails, BeginGrant, StartBulk, BulkRefused,
     BulkBegin, BulkChangesNothing, BulkBreaks, BulkStaysBroken, BulkCannotLog, Loop
<1>8. QED
  BY <1>3, <1>4, <1>5, <1>6, <1>7 DEF HandlerStep, BulkCommit, BulkLogs

UnderWay == {r \in Requests : req[r].op = "admin_login" /\ req[r].pc = "write"}

\* Only an enabled factor lets an admin in, and the logins whose audit row is
\* still missing are under way: they are finitely many and are counted.
LoginInv ==
    /\ crossed = {} /\ (\/ done["login"] > 0
                       \/ \E r \in Requests : req[r].op = "admin_login" /\ Running(r))
         => twofa.enabled
    /\ IsFiniteSet(UnderWay)
    /\ LoginsAudited

LEMMA LoginsKept ==
    ASSUME LoginInv, LoginsGoOn, done'["login"] = done["login"],
           audit'["login"] = audit["login"]
    PROVE  LoginInv'
<1>1. (crossed = {} /\ (\/ done["login"] > 0
                       \/ \E r \in Requests : req[r].op = "admin_login" /\ Running(r))
         => twofa.enabled)'
  BY DEF LoginInv, LoginsGoOn, EnabledGoesOn
<1>2. UnderWay' \subseteq UnderWay
  BY DEF UnderWay, LoginsGoOn
<1>3. IsFiniteSet(UnderWay')
  BY <1>2, FS_Subset DEF LoginInv
<1>4. LoginsAudited'
  <2>1. CASE died'
    BY <2>1 DEF LoginsAudited
  <2>2. CASE ~died'
    <3>1. UnderWay' = UnderWay
      BY <1>2, <2>2 DEF UnderWay, LoginsGoOn
    <3>2. ~died /\ done["login"] = audit["login"] + Cardinality(UnderWay)
      BY <2>2 DEF LoginInv, LoginsAudited, LoginsGoOn, UnderWay
    <3>3. done'["login"] = audit'["login"] + Cardinality(UnderWay')
      BY <3>1, <3>2
    <3>4. QED
      BY <3>3 DEF LoginsAudited, UnderWay
  <2>3. QED
    BY <2>1, <2>2
<1>5. QED
  BY <1>1, <1>3, <1>4 DEF LoginInv

\* The token comes first ...
LEMMA IssueKeepsLogins ==
    ASSUME FactorInv, AdminTypeOK, LoginInv, NEW r \in Requests, IssueAdminToken(r)
    PROVE  FactorInv' /\ LoginInv'
<1>1. /\ req[r].op = "admin_login" /\ req[r].pc = "in" /\ Goto(r, "write")
      /\ done' = [done EXCEPT !["login"] = @ + 1]
      /\ UNCHANGED <<twofa, work, shown, verified, crossed, died, audit>>
  BY DEF IssueAdminToken
<1>2. Running(r) /\ work \in 0 .. MaxWork /\ died \in BOOLEAN
  BY <1>1 DEF Running, FactorInv, TwoFactorTypeOK
<1>3. FactorInv'
  BY <1>1, <1>2, GotoKeepsFactor
<1>4. /\ req'[r].pc = "write" /\ req'[r].op = "admin_login"
      /\ \A o \in Requests \ {r} : req'[o] = req[o]
  BY <1>1, GotoFacts DEF FactorInv
<1>5. UnderWay' = UnderWay \cup {r} /\ r \notin UnderWay
  BY <1>1, <1>4 DEF UnderWay
<1>6. IsFiniteSet(UnderWay') /\ Cardinality(UnderWay') = Cardinality(UnderWay) + 1
  BY <1>5, FS_AddElement DEF LoginInv
<1>7. LoginsAudited'
  <2>1. "login" \in Actions /\ done["login"] \in Nat /\ audit["login"] \in Nat
    BY DEF AdminTypeOK, Actions
  <2>2. done'["login"] = done["login"] + 1
    BY <1>1, <2>1 DEF AdminTypeOK
  <2>3. Cardinality(UnderWay) \in Nat
    BY FS_CardinalityType DEF LoginInv
  <2>4. died \/ done["login"] = audit["login"] + Cardinality(UnderWay)
    BY DEF LoginInv, LoginsAudited, UnderWay
  <2>5. died' \/ done'["login"] = audit'["login"] + Cardinality(UnderWay')
    BY <1>1, <1>6, <2>1, <2>2, <2>3, <2>4
  <2>6. QED
    BY <2>5 DEF LoginsAudited, UnderWay
<1>8. crossed = {} => twofa.enabled
  BY <1>1, <1>2 DEF LoginInv
<1>9. QED
  BY <1>1, <1>3, <1>6, <1>7, <1>8 DEF LoginInv

\* ... and the audit row ends the login.
LEMMA LogKeepsLogins ==
    ASSUME FactorInv, AdminTypeOK, LoginInv, NEW r \in Requests, LogAdminLogin(r)
    PROVE  FactorInv' /\ LoginInv'
<1>1. /\ req[r].op = "admin_login" /\ req[r].pc = "write" /\ Goto(r, "done")
      /\ audit' = [audit EXCEPT !["login"] = @ + 1]
      /\ UNCHANGED <<twofa, work, shown, verified, crossed, died, done>>
  BY DEF LogAdminLogin
<1>2. Running(r) /\ work \in 0 .. MaxWork /\ died \in BOOLEAN
  BY <1>1 DEF Running, FactorInv, TwoFactorTypeOK
<1>3. FactorInv'
  BY <1>1, <1>2, GotoKeepsFactor
<1>4. /\ req'[r].pc = "done"
      /\ \A o \in Requests \ {r} : req'[o] = req[o]
  BY <1>1, GotoFacts DEF FactorInv
<1>5. UnderWay' = UnderWay \ {r} /\ r \in UnderWay
  BY <1>1, <1>4 DEF UnderWay
<1>6. IsFiniteSet(UnderWay') /\ Cardinality(UnderWay') = Cardinality(UnderWay) - 1
  BY <1>5, FS_RemoveElement DEF LoginInv
<1>7. LoginsAudited'
  <2>1. "login" \in Actions /\ done["login"] \in Nat /\ audit["login"] \in Nat
    BY DEF AdminTypeOK, Actions
  <2>2. audit'["login"] = audit["login"] + 1
    BY <1>1, <2>1 DEF AdminTypeOK
  <2>3. Cardinality(UnderWay) \in Nat
    BY FS_CardinalityType DEF LoginInv
  <2>4. died \/ done["login"] = audit["login"] + Cardinality(UnderWay)
    BY DEF LoginInv, LoginsAudited, UnderWay
  <2>5. died' \/ done'["login"] = audit'["login"] + Cardinality(UnderWay')
    BY <1>1, <1>6, <2>1, <2>2, <2>3, <2>4
  <2>6. QED
    BY <2>5 DEF LoginsAudited, UnderWay
<1>8. crossed = {} => twofa.enabled
  BY <1>1, <1>2 DEF LoginInv
<1>9. QED
  BY <1>1, <1>3, <1>6, <1>7, <1>8 DEF LoginInv

AdminInv == FactorInv /\ LoginInv /\ HandlerInv

LEMMA AdminInit == Init => AdminInv
<1> SUFFICES ASSUME Init PROVE AdminInv
  OBVIOUS
<1>1. FactorInv
  BY FactorInit DEF Init
<1>2. \A r \in Requests : req[r].op = "none" /\ req[r].pc = "idle"
  BY DEF Init, TwoFactorInit, Idle
<1>3. AdminTypeOK
  <2>1. /\ role \in [Targets -> {"user", "admin"}]
        /\ bulk \in BulkRequest /\ raced \subseteq {"role"} \cup Scopes
    BY NoBulkFacts DEF Init
  <2>2. /\ touched \in [Targets -> SUBSET (Guarded \cup Free)]
        /\ permission \in [Scopes -> Nat]
        /\ audit \in [Actions -> Nat] /\ done \in [Actions -> Nat]
        /\ tx \in [Handlers \cup {Bulk} -> Tx]
    BY NoTxFacts DEF Init
  <2>3. QED
    BY <2>1, <2>2 DEF AdminTypeOK
<1>4. /\ \A a \in Actions : audit[a] = 0 /\ done[a] = 0
      /\ \A s \in Scopes : permission[s] = 0
      /\ \A h \in Handlers \cup {Bulk} : tx[h] = NoTx
      /\ bulk = NoBulk
  BY DEF Init
<1>5. "login" \in Actions /\ "bulk" \in Actions /\ Ops \subseteq Actions
  BY DEF Actions, Ops
<1>6. LoginInv
  <2>1. UnderWay = {}
    BY <1>2 DEF UnderWay
  <2>2. IsFiniteSet(UnderWay) /\ Cardinality(UnderWay) = 0
    BY <2>1, FS_EmptySet
  <2>3. done["login"] = audit["login"] + Cardinality(UnderWay) /\ ~(done["login"] > 0)
    BY <1>4, <1>5, <2>2
  <2>4. QED
    BY <1>2, <2>2, <2>3 DEF LoginInv, LoginsAudited, UnderWay
<1>7. BulkInv
  <2>1. bulk.todo = <<>> /\ Len(bulk.todo) = 0 /\ bulk.action \notin Changing
    BY <1>4, NoBulkFacts DEF Changing, Calls
  <2>2. QED
    BY <1>4, <1>5, <2>1, NoBulkFacts DEF BulkInv
<1>8. ChangesAudited
  BY <1>4, <1>5, OpsAudited DEF ChangesAudited, Ops
<1>9. GrantInv /\ RoleInv
  BY <1>4, NoTxFacts DEF GrantInv, RoleInv, Ops
<1>10. QED
  BY <1>1, <1>3, <1>6, <1>7, <1>8, <1>9 DEF AdminInv, HandlerInv

LEMMA NextSplit ==
    Next <=> \/ \E r \in Requests :
                  \/ TwoFactorStep(r) /\ UNCHANGED adminVars
                  \/ IssueAdminToken(r) \/ LogAdminLogin(r)
             \/ HandlerStep
  BY DEF Next, HandlerStep

LEMMA HandlerFrame ==
    ASSUME HandlerInv, UNCHANGED <<role, touched, permission, tx, bulk, raced>>,
           audit' \in [Actions -> Nat], done' \in [Actions -> Nat],
           \A a \in Actions \ {"login"} : audit'[a] = audit[a] /\ done'[a] = done[a]
    PROVE  HandlerInv'
<1> USE DEF HandlerInv
<1>1. /\ AdminTypeOK' /\ GrantInv' /\ RoleInv'
  BY DEF AdminTypeOK, GrantInv, RoleInv
<1>2. ChangesAudited'
  BY OpsAudited DEF ChangesAudited, Ops
<1>3. BulkInv'
  <2>1. "login" \notin Changing /\ Changing \subseteq Actions /\ "bulk" \in Actions \ {"login"}
    BY ChangingCounted, OpsAudited DEF Changing, Calls
  <2>2. QED
    BY <2>1 DEF BulkInv
<1>4. QED
  BY <1>1, <1>2, <1>3

LEMMA AdminStep == AdminInv /\ [Next]_vars => AdminInv'
<1> SUFFICES ASSUME AdminInv, [Next]_vars PROVE AdminInv'
  OBVIOUS
<1> USE DEF AdminInv
<1>1. AdminTypeOK /\ TwoFactorTypeOK
  BY DEF HandlerInv, FactorInv
<1>2. "login" \in Actions
  BY OpsAudited
<1>3. ASSUME NEW r \in Requests, TwoFactorStep(r), UNCHANGED adminVars
      PROVE  AdminInv'
  <2>1. FactorInv'
    BY <1>3, FactorStep
  <2>2. LoginInv'
    BY <1>3, FactorStepLetsLoginsGoOn, LoginsKept DEF adminVars
  <2>3. HandlerInv'
    BY <1>1, <1>3, HandlerFrame DEF adminVars, AdminTypeOK
  <2>4. QED
    BY <2>1, <2>2, <2>3
<1>4. ASSUME NEW r \in Requests, IssueAdminToken(r)
      PROVE  AdminInv'
  <2>1. FactorInv' /\ LoginInv'
    BY <1>1, <1>4, IssueKeepsLogins
  <2>2. HandlerInv'
    BY <1>1, <1>2, <1>4, HandlerFrame DEF IssueAdminToken, AdminTypeOK
  <2>3. QED
    BY <2>1, <2>2
<1>5. ASSUME NEW r \in Requests, LogAdminLogin(r)
      PROVE  AdminInv'
  <2>1. FactorInv' /\ LoginInv'
    BY <1>1, <1>5, LogKeepsLogins
  <2>2. HandlerInv'
    BY <1>1, <1>2, <1>5, HandlerFrame DEF LogAdminLogin, AdminTypeOK
  <2>3. QED
    BY <2>1, <2>2
<1>6. CASE HandlerStep
  <2>1. /\ UNCHANGED Factors /\ work' \in 0 .. MaxWork
        /\ done'["login"] = done["login"] /\ audit'["login"] = audit["login"]
    BY <1>1, <1>6, HandlerStepFrame DEF TwoFactorTypeOK
  <2>2. FactorInv' /\ LoginInv'
    BY <2>1, FrameKeepsFactor, LoginsKept
  <2>3. HandlerInv'
    BY <1>6, HandlerStepKeeps
  <2>4. QED
    BY <2>2, <2>3
<1>7. CASE UNCHANGED vars
  <2>1. work \in 0 .. MaxWork
    BY <1>1 DEF TwoFactorTypeOK
  <2>2. FactorInv' /\ LoginInv'
    BY <1>7, <2>1, FrameKeepsFactor, LoginsKept DEF vars, Factors
  <2>3. HandlerInv'
    BY <1>1, <1>7, HandlerFrame DEF vars, AdminTypeOK
  <2>4. QED
    BY <2>2, <2>3
<1>8. QED
  BY <1>3, <1>4, <1>5, <1>6, <1>7, NextSplit

-----------------------------------------------------------------------------

\* Copies of the two_factor_auth row, logins under way, the bulk loop and the
\* overlapping handlers agree with the rows, as the parts of AdminInv say.
THEOREM AdminInvariant == Spec => []AdminInv
  BY AdminInit, AdminStep, PTL DEF Spec

\* The second factor neither lets an admin in without it nor locks its owner
\* out, for any number of requests (twofa.py:107-177).
THEOREM FactorStaysSound == Spec => []FactorSound
<1>1. AdminInv => FactorSound
  <2>1. AdminInv => TypeOK
    BY DEF AdminInv, FactorInv, HandlerInv, AdminTypeOK, TypeOK
  <2>2. AdminInv => EnabledIsVerified /\ AdminsHaveFactor
    BY DEF AdminInv, FactorInv, EnabledSound, EnabledIsVerified, LoginInv, AdminsHaveFactor
  <2>3. AdminInv => NotLockedOut
    <3>1. AdminInv /\ twofa.enabled => twofa # NoRow
      BY DEF NoRow
    <3>2. AdminInv /\ twofa.enabled => twofa.secret \in Requests
      BY <3>1 DEF AdminInv, FactorInv, TwoFactorTypeOK, Row
    <3>3. QED
      BY <3>1, <3>2 DEF AdminInv, FactorInv, SecretKept, EnabledSound, NotLockedOut
  <2>4. QED
    BY <2>1, <2>2, <2>3 DEF FactorSound
<1>2. QED
  BY <1>1, AdminInvariant, PTL

\* A change of an account or of its notes has its audit row, grants, revocations
\* and bulk notifications have none; every login has its own or is under way or
\* died, and a permission is granted once for a resource type unless two grants
\* of it overlapped (admin_users.py:290, admin/services/__init__.py:301-349).
THEOREM RecordsStayRight == Spec => []RecordsRight
<1>1. AdminInv => RecordsRight
  BY DEF AdminInv, HandlerInv, LoginInv, GrantInv, RecordsRight, GrantedOnce
<1>2. QED
  BY <1>1, AdminInvariant, PTL

\* The numbers of the bulk answer, for lists of any length, with repeated and
\* unknown ids, for all six actions and wherever the database fails
\* (admin_bulk.py:37-97).
THEOREM BulkToldStaysRight == Spec => []BulkToldRight
<1>1. AdminInv => BulkToldRight
  <2>1. SUFFICES ASSUME AdminInv PROVE BulkToldRight
    OBVIOUS
  <2>2. /\ bulk.changes \in Nat /\ bulk.success \in Nat /\ bulk.broken \in BOOLEAN
        /\ BulkInv
    BY <2>1 DEF AdminInv, HandlerInv, AdminTypeOK, BulkRequest
  <2>3. QED
    BY <2>2 DEF BulkInv, BulkToldRight
<1>2. QED
  BY <1>1, AdminInvariant, PTL

\* Once enabled, the factor stays enabled with its secret, but for the commit of
\* a set-up that a verification has overlapped (twofa.py:63) and for requests to
\* disable it.
THEOREM EnabledFactorStays == Spec => EnabledStays
<1>1. ASSUME AdminInv, [Next]_vars
      PROVE  [twofa.enabled /\ (twofa'.enabled => twofa'.secret # twofa.secret)
                => \E r \in Requests :
                     /\ req'[r] # req[r]
                     /\ \/ req[r].op = "setup" /\ r \in crossed
                        \/ req[r].op = "disable"]_twoFactorVars
  <2>1. CASE \E r \in Requests : TwoFactorStep(r)
    BY <1>1, <2>1, FactorStepLetsLoginsGoOn DEF AdminInv, LoginsGoOn, EnabledGoesOn
  <2>2. CASE \E r \in Requests : IssueAdminToken(r) \/ LogAdminLogin(r)
    BY <2>2 DEF IssueAdminToken, LogAdminLogin
  <2>3. CASE HandlerStep
    BY <1>1, <2>3, HandlerStepFrame DEF AdminInv, FactorInv, TwoFactorTypeOK, Factors
  <2>4. CASE UNCHANGED vars
    BY <2>4 DEF vars
  <2>5. QED
    BY <1>1, <2>1, <2>2, <2>3, <2>4, NextSplit
<1>2. QED
  BY <1>1, AdminInvariant, PTL DEF Spec, EnabledStays

\* No admin's account is suspended or impersonated unless its role changed
\* under the handler (admin_users.py:443), also by the bulk loop.
THEOREM AdminsStayUntouched == Spec => AdminsUntouched
<1>1. ASSUME AdminInv, [Next]_vars
      PROVE  [\A t \in Targets :
                role[t] = "admin" /\ "role" \notin raced
                  => touched'[t] \cap Guarded \subseteq touched[t]]_vars
  <2>1. ASSUME NEW h \in Handlers \cup {Bulk}, tx[h] \in OnTarget, Effect(h),
               NEW t \in Targets, role[t] = "admin", "role" \notin raced
        PROVE  touched'[t] \cap Guarded \subseteq touched[t]
    <3>1. t # tx[h].target \/ tx[h].op \notin Guarded
      BY <1>1, <2>1 DEF AdminInv, HandlerInv, RoleInv
    <3>2. QED
      BY <1>1, <2>1, <3>1, EffectFacts DEF AdminInv, HandlerInv
  <2>2. CASE \E h \in Handlers : CommitAction(h)
    <3>1. PICK h \in Handlers : CommitAction(h)
      BY <2>2
    <3>2. tx[h] \in OnTarget /\ Effect(h)
      BY <1>1, <3>1, TxShapes DEF CommitAction, AdminInv, HandlerInv, AdminTypeOK
    <3>3. QED
      BY <2>1, <3>2
  <2>3. CASE BulkCommit
    <3>1. tx[Bulk] \in OnTarget /\ Effect(Bulk)
      BY <1>1, <2>3 DEF BulkCommit, AdminInv, HandlerInv, BulkInv
    <3>2. QED
      BY <2>1, <3>1
  <2>4. CASE touched' = touched
    BY <2>4
  <2>5. Next => touched' = touched \/ BulkCommit \/ \E h \in Handlers : CommitAction(h)
    BY DEF Next, adminVars, IssueAdminToken, LogAdminLogin, BeginAction, ActionFails,
       BeginGrant, CommitGrant, Revoke, StartBulk, BulkRefused, BulkBegin, BulkNotify,
       BulkChangesNothing, BulkBreaks, BulkStaysBroken, BulkLogs, BulkCannotLog, Loop
  <2>6. QED
    BY <1>1, <2>2, <2>3, <2>4, <2>5 DEF vars
<1>2. QED
  BY <1>1, AdminInvariant, PTL DEF Spec, AdminsUntouched

=============================================================================
