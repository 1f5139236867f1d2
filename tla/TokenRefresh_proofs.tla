------------------------- MODULE TokenRefresh_proofs -------------------------
(***************************************************************************)
(* The safety properties of TokenRefresh for any number of credentials,    *)
(* reloads, attempts and tokens.  Shape ties what a goroutine carries to   *)
(* where it is; on it rest the invariants of the single properties:        *)
(* Marked for the status, Kept for the presence of the refresh token,      *)
(* Heard for the refusals, and Current for its being the vendor's latest.  *)
(*                                                                         *)
(* The first part says, once for every action, all that the action does;   *)
(* the invariants are then carried by these facts alone.                   *)
(***************************************************************************)
EXTENDS TokenRefresh, TLAPS

\* The apps up to the newest have copies, a goroutine belongs to a started app
\* and has a copy, and one about to write has what to write.
ShapeAt(b, j) ==
  /\ b <= loaded => creds[b][j] \in Row
  /\ b > loaded => creds[b][j] = None
  /\ refresh[b][j].pc # "idle" => b \in started /\ refresh[b][j].snap \in Row
  /\ refresh[b][j].pc = "write" => refresh[b][j].out \in Row

\* The newest app is not stopped.
Bounded == \A b \in stopped : b < loaded

Shape ==
  /\ Bounded
  /\ \A b \in Apps, j \in Ids : ShapeAt(b, j)

\* refresh' differs from refresh at a and id only.
Elsewhere(a, id) ==
  \A b \in Apps, j \in Ids : ~(b = a /\ j = id) => refresh'[b][j] = refresh[b][j]

\* Of rows and copies, only a's of id are written.
OnlyBy(a, id) ==
  /\ \A j \in Ids : j # id => store'[j] = store[j]
  /\ \A b \in Apps, j \in Ids : ~(b = a /\ j = id) => creds'[b][j] = creds[b][j]

\* The new state of a goroutine is the only change of refresh.
LEMMA GotoIs ==
  ASSUME refresh \in [Apps -> [Ids -> Refresh]], NEW a \in Apps, NEW id \in Ids,
         NEW r \in Refresh, Goto(a, id, r)
  PROVE  /\ refresh' \in [Apps -> [Ids -> Refresh]]
         /\ refresh'[a][id] = r
         /\ Elsewhere(a, id)
BY DEF Goto, Elsewhere

\* A row with another status, or with another token, is a row.
LEMMA RowWith ==
  ASSUME NEW row \in Row, NEW s \in {"active", "error", "refreshing"}
  PROVE  /\ [row EXCEPT !.status = s] \in Row
         /\ [row EXCEPT !.status = s].status = s
         /\ [row EXCEPT !.status = s].token = row.token
         /\ [row EXCEPT !.status = s].provider = row.provider
BY DEF Row

\* The same for another token.
LEMMA RowWithToken ==
  ASSUME NEW row \in Row, NEW n \in Nat
  PROVE  /\ [row EXCEPT !.token = n] \in Row
         /\ [row EXCEPT !.token = n].status = row.status
         /\ [row EXCEPT !.token = n].token = n
         /\ [row EXCEPT !.token = n].provider = row.provider
BY DEF Row

\* What the authenticators make of an answer: its refresh token if it has one,
\* and gemini the old one if it has none.
LEMMA NewTokenIs ==
  ASSUME NEW row \in Row, NEW n \in Nat
  PROVE  /\ NewToken(row, n) \in Nat
         /\ NewToken(row, n) \in {n, row.token}
         /\ n # 0 => NewToken(row, n) = n
         /\ row.provider = "gemini" /\ n = 0 => NewToken(row, n) = row.token
BY DEF NewToken, CodexToken, ClaudeToken, GeminiToken, Row

\* The manager's Update writes row and copy, unless the app is stopped.
LEMMA UpdateIs ==
  ASSUME TypeOK, NEW a \in Apps, NEW id \in Ids, NEW row \in Row, Update(a, id, row)
  PROVE  /\ store' \in [Ids -> Row] /\ creds' \in [Apps -> [Ids -> Row \cup {None}]]
         /\ OnlyBy(a, id)
         /\ ~Cancelled(a) => store'[id] = row /\ creds'[a][id] = row
         /\ Cancelled(a) => UNCHANGED <<store, creds>>
<1>1. CASE Cancelled(a)
  BY <1>1 DEF Update, TypeOK, OnlyBy
<1>2. CASE ~Cancelled(a)
  <2>1. store' = [store EXCEPT ![id] = row] /\ creds' = [creds EXCEPT ![a][id] = row]
    BY <1>2 DEF Update
  <2> QED
    BY <1>2, <2>1 DEF TypeOK, OnlyBy
<1> QED
  BY <1>1, <1>2

\* A failure's row is the copy as an error.
LEMMA FailedIs ==
  ASSUME NEW r \in Refresh, r.snap \in Row
  PROVE  /\ Failed(r) \in Refresh
         /\ Failed(r).pc = "write" /\ Failed(r).snap = r.snap /\ Failed(r).reuses = r.reuses /\ Failed(r).unheard = r.unheard
         /\ Failed(r).out \in Row /\ Failed(r).out.status = "error"
         /\ Failed(r).out.token = r.snap.token /\ Failed(r).out.provider = r.snap.provider
<1>1. /\ [r.snap EXCEPT !.status = "error"] \in Row
      /\ [r.snap EXCEPT !.status = "error"].status = "error"
      /\ [r.snap EXCEPT !.status = "error"].token = r.snap.token
      /\ [r.snap EXCEPT !.status = "error"].provider = r.snap.provider
  BY RowWith
<1>2. /\ Failed(r) \in Refresh
      /\ Failed(r).pc = "write" /\ Failed(r).snap = r.snap /\ Failed(r).reuses = r.reuses /\ Failed(r).unheard = r.unheard
      /\ Failed(r).out = [r.snap EXCEPT !.status = "error"]
  BY <1>1 DEF Failed, Refresh, NoAnswer, Answer, PCs
<1> QED
  BY <1>1, <1>2

\* Another attempt keeps the copy; the last one is a failure.
LEMMA RetriedIs ==
  ASSUME NEW r \in Refresh, r.snap \in Row
  PROVE  /\ Retried(r) \in Refresh
         /\ Retried(r).pc \in {"wait", "write"}
         /\ Retried(r).snap = r.snap /\ Retried(r).reuses = r.reuses /\ Retried(r).unheard = r.unheard
         /\ Retried(r).pc = "write" =>
              /\ Retried(r).out \in Row /\ Retried(r).out.status = "error"
              /\ Retried(r).out.token = r.snap.token
              /\ Retried(r).out.provider = r.snap.provider
<1>1. CASE r.attempt < MaxRetries
  BY <1>1 DEF Retried, Refresh, NoAnswer, Answer, PCs
<1>2. CASE ~(r.attempt < MaxRetries)
  BY <1>2, FailedIs DEF Retried
<1> QED
  BY <1>1, <1>2

-----------------------------------------------------------------------------
(* What each action does *)

\* A refresh begins for an app that runs, with the copy it has.
LEMMA BeginMoves ==
  ASSUME TypeOK, Shape, NEW a \in Apps, NEW id \in Ids, Begin(a, id)
  PROVE  /\ refresh' \in [Apps -> [Ids -> Refresh]] /\ Elsewhere(a, id)
         /\ UNCHANGED <<loaded, started, stopped>>
         /\ UNCHANGED <<store, creds>>
         /\ live' = live
         /\ lost' = lost
         /\ a \in started /\ a \notin stopped
         /\ crossed \subseteq crossed' /\ crossed' \subseteq Ids /\ (a < loaded => id \in crossed')
         /\ refresh[a][id].pc = "idle" /\ refresh'[a][id].pc = "mark"
         /\ refresh'[a][id].snap = creds[a][id]
         /\ refresh'[a][id].reuses = 0 /\ refresh'[a][id].unheard = 0
         /\ creds[a][id] \in Row /\ creds[a][id].status # "refreshing"
<1> DEFINE r == refresh[a][id]
<1> DEFINE s == [Idle EXCEPT !.pc = "mark", !.snap = creds[a][id]]
<1>1. r \in Refresh
  BY DEF TypeOK
<1>2. creds[a][id] \in Row
  <2>1. a <= loaded
    BY DEF Begin, TypeOK, Apps
  <2> QED
    BY <2>1 DEF Shape, ShapeAt
<1>3. s \in Refresh
  BY <1>2 DEF Refresh, Idle, NoAnswer, Answer, PCs
<1>4. Goto(a, id, s)
  BY DEF Begin
<1>5. refresh' \in [Apps -> [Ids -> Refresh]] /\ refresh'[a][id] = s /\ Elsewhere(a, id)
  <2> HIDE DEF s
  <2> QED BY <1>3, <1>4, GotoIs DEF TypeOK
<1>6. /\ UNCHANGED <<loaded, started, stopped>>
      /\ UNCHANGED <<store, creds>>
      /\ live' = live
      /\ lost' = lost
      /\ a \in started /\ a \notin stopped
      /\ crossed \subseteq crossed' /\ crossed' \subseteq Ids /\ (a < loaded => id \in crossed')
  BY DEF Begin, TypeOK
<1>7. /\ refresh[a][id].pc = "idle" /\ refresh'[a][id].pc = "mark"
      /\ refresh'[a][id].snap = creds[a][id]
      /\ refresh'[a][id].reuses = 0 /\ refresh'[a][id].unheard = 0
      /\ creds[a][id] \in Row /\ creds[a][id].status # "refreshing"
  <2>1. s.pc = "mark" /\ s.snap = creds[a][id] /\ s.reuses = 0 /\ s.unheard = 0
    BY DEF Idle
  <2>2. r.pc = "idle" /\ creds[a][id].status # "refreshing"
    BY DEF Begin
  <2> QED
    BY <1>2, <1>5, <2>1, <2>2
<1> QED
  BY <1>5, <1>6, <1>7

\* The copy is marked as refreshing.
LEMMA MarkMoves ==
  ASSUME TypeOK, Shape, NEW a \in Apps, NEW id \in Ids, MarkRefreshing(a, id)
  PROVE  /\ refresh' \in [Apps -> [Ids -> Refresh]] /\ Elsewhere(a, id)
         /\ UNCHANGED <<loaded, started, stopped>>
         /\ store' \in [Ids -> Row] /\ creds' \in [Apps -> [Ids -> Row \cup {None}]]
         /\ OnlyBy(a, id)
         /\ live' = live
         /\ UNCHANGED <<crossed, lost>>
         /\ ~Cancelled(a) =>
              /\ store'[id].token = refresh[a][id].snap.token
              /\ store'[id].provider = refresh[a][id].snap.provider
              /\ creds'[a][id] = store'[id]
         /\ Cancelled(a) => UNCHANGED <<store, creds>>
         /\ refresh[a][id].pc = "mark" /\ refresh'[a][id].pc = "call"
         /\ refresh'[a][id].snap = refresh[a][id].snap /\ refresh[a][id].snap \in Row
         /\ refresh'[a][id].reuses = refresh[a][id].reuses
         /\ refresh'[a][id].unheard = refresh[a][id].unheard
<1> DEFINE r == refresh[a][id]
<1> DEFINE s == [r EXCEPT !.pc = "call", !.attempt = 1]
<1>1. r \in Refresh
  BY DEF TypeOK
<1>2. r.snap \in Row
  BY DEF Shape, ShapeAt, MarkRefreshing
<1>3. s \in Refresh
  BY <1>1 DEF Refresh, PCs
<1>4. Goto(a, id, s)
  BY DEF MarkRefreshing
<1>5. refresh' \in [Apps -> [Ids -> Refresh]] /\ refresh'[a][id] = s /\ Elsewhere(a, id)
  <2> HIDE DEF s
  <2> QED BY <1>3, <1>4, GotoIs DEF TypeOK
<1>6. /\ UNCHANGED <<loaded, started, stopped>>
      /\ store' \in [Ids -> Row] /\ creds' \in [Apps -> [Ids -> Row \cup {None}]]
      /\ OnlyBy(a, id)
      /\ live' = live
      /\ UNCHANGED <<crossed, lost>>
      /\ ~Cancelled(a) =>
              /\ store'[id].token = refresh[a][id].snap.token
              /\ store'[id].provider = refresh[a][id].snap.provider
              /\ creds'[a][id] = store'[id]
      /\ Cancelled(a) => UNCHANGED <<store, creds>>
  <2> DEFINE row == [r.snap EXCEPT !.status = "refreshing"]
  <2>1. row \in Row /\ row.token = r.snap.token /\ row.provider = r.snap.provider
    BY <1>2, RowWith
  <2>2. Update(a, id, row)
    BY DEF MarkRefreshing
  <2>3. UNCHANGED <<loaded, started, stopped>> /\ live' = live /\ UNCHANGED <<crossed, lost>>
    BY DEF MarkRefreshing
  <2> HIDE DEF row
  <2> QED
    BY <2>1, <2>2, <2>3, UpdateIs
<1>7. /\ refresh[a][id].pc = "mark" /\ refresh'[a][id].pc = "call"
      /\ refresh'[a][id].snap = refresh[a][id].snap /\ refresh[a][id].snap \in Row
      /\ refresh'[a][id].reuses = refresh[a][id].reuses
      /\ refresh'[a][id].unheard = refresh[a][id].unheard
  <2>1. s.pc = "call" /\ s.snap = r.snap /\ s.reuses = r.reuses /\ s.unheard = r.unheard
    BY <1>1 DEF Refresh
  <2>2. r.pc = "mark"
    BY DEF MarkRefreshing
  <2> QED
    BY <1>2, <1>5, <2>1, <2>2
<1> QED
  BY <1>5, <1>6, <1>7

\* The outcome is written, and the refresh is over.
LEMMA WriteMoves ==
  ASSUME TypeOK, Shape, NEW a \in Apps, NEW id \in Ids, Write(a, id)
  PROVE  /\ refresh' \in [Apps -> [Ids -> Refresh]] /\ Elsewhere(a, id)
         /\ UNCHANGED <<loaded, started, stopped>>
         /\ store' \in [Ids -> Row] /\ creds' \in [Apps -> [Ids -> Row \cup {None}]]
         /\ OnlyBy(a, id)
         /\ live' = live
         /\ crossed' = crossed
         /\ ~Cancelled(a) => store'[id] = refresh[a][id].out /\ creds'[a][id] = refresh[a][id].out
         /\ Cancelled(a) => UNCHANGED <<store, creds>>
         /\ lost \subseteq lost' /\ lost' \subseteq Ids
         /\ refresh[a][id].pc = "write" /\ refresh'[a][id].pc = "idle" /\ refresh'[a][id].reuses = 0 /\ refresh'[a][id].unheard = 0
         /\ refresh[a][id].out \in Row
<1> DEFINE r == refresh[a][id]
<1> DEFINE s == Idle
<1>1. r \in Refresh
  BY DEF TypeOK
<1>2. r.out \in Row
  BY DEF Shape, ShapeAt, Write
<1>3. s \in Refresh
  BY DEF Refresh, Idle, NoAnswer, Answer, PCs
<1>4. Goto(a, id, s)
  BY DEF Write
<1>5. refresh' \in [Apps -> [Ids -> Refresh]] /\ refresh'[a][id] = s /\ Elsewhere(a, id)
  <2> HIDE DEF s
  <2> QED BY <1>3, <1>4, GotoIs DEF TypeOK
<1>6. /\ UNCHANGED <<loaded, started, stopped>>
      /\ store' \in [Ids -> Row] /\ creds' \in [Apps -> [Ids -> Row \cup {None}]]
      /\ OnlyBy(a, id)
      /\ live' = live
      /\ crossed' = crossed
      /\ ~Cancelled(a) => store'[id] = refresh[a][id].out /\ creds'[a][id] = refresh[a][id].out
      /\ Cancelled(a) => UNCHANGED <<store, creds>>
      /\ lost \subseteq lost' /\ lost' \subseteq Ids
  <2>1. Update(a, id, r.out)
    BY DEF Write
  <2>2. UNCHANGED <<loaded, started, stopped>> /\ live' = live /\ crossed' = crossed
    BY DEF Write
  <2>3. lost \subseteq lost' /\ lost' \subseteq Ids
    BY DEF Write, TypeOK
  <2> QED
    BY <1>2, <2>1, <2>2, <2>3, UpdateIs
<1>7. /\ refresh[a][id].pc = "write" /\ refresh'[a][id].pc = "idle" /\ refresh'[a][id].reuses = 0 /\ refresh'[a][id].unheard = 0
      /\ refresh[a][id].out \in Row
  <2>1. s.pc = "idle" /\ s.reuses = 0 /\ s.unheard = 0
    BY DEF Idle
  <2>2. r.pc = "write"
    BY DEF Write
  <2> QED
    BY <1>2, <1>5, <2>1, <2>2
<1> QED
  BY <1>5, <1>6, <1>7

\* Without a refresh token the copy is to be put back.
LEMMA NothingMoves ==
  ASSUME TypeOK, Shape, NEW a \in Apps, NEW id \in Ids, NoRefreshToken(a, id)
  PROVE  /\ refresh' \in [Apps -> [Ids -> Refresh]] /\ Elsewhere(a, id)
         /\ UNCHANGED <<loaded, started, stopped>>
         /\ UNCHANGED <<store, creds>>
         /\ live' = live
         /\ UNCHANGED <<crossed, lost>>
         /\ refresh[a][id].pc = "call" /\ refresh'[a][id].pc = "write"
         /\ refresh[a][id].snap.token = 0
         /\ refresh'[a][id].snap = refresh[a][id].snap /\ refresh[a][id].snap \in Row
         /\ refresh'[a][id].reuses = refresh[a][id].reuses
         /\ refresh'[a][id].unheard = refresh[a][id].unheard
         /\ refresh'[a][id].out \in Row /\ refresh'[a][id].out.status = "active"
         /\ refresh'[a][id].out.token = refresh[a][id].snap.token
         /\ refresh'[a][id].out.provider = refresh[a][id].snap.provider
<1> DEFINE r == refresh[a][id]
<1> DEFINE s == [r EXCEPT !.pc = "write", !.out = [r.snap EXCEPT !.status = "active"]]
<1>1. r \in Refresh
  BY DEF TypeOK
<1>2. r.snap \in Row
  BY DEF Shape, ShapeAt, NoRefreshToken
<1>2a. /\ [r.snap EXCEPT !.status = "active"] \in Row
       /\ [r.snap EXCEPT !.status = "active"].status = "active"
       /\ [r.snap EXCEPT !.status = "active"].token = r.snap.token
       /\ [r.snap EXCEPT !.status = "active"].provider = r.snap.provider
  BY <1>2, RowWith
<1>3. s \in Refresh
  BY <1>1, <1>2a DEF Refresh, PCs
<1>4. Goto(a, id, s)
  BY DEF NoRefreshToken
<1>5. refresh' \in [Apps -> [Ids -> Refresh]] /\ refresh'[a][id] = s /\ Elsewhere(a, id)
  <2> HIDE DEF s
  <2> QED BY <1>3, <1>4, GotoIs DEF TypeOK
<1>6. /\ UNCHANGED <<loaded, started, stopped>>
      /\ UNCHANGED <<store, creds>>
      /\ live' = live
      /\ UNCHANGED <<crossed, lost>>
  BY DEF NoRefreshToken, TypeOK
<1>7. /\ refresh[a][id].pc = "call" /\ refresh'[a][id].pc = "write"
      /\ refresh[a][id].snap.token = 0
      /\ refresh'[a][id].snap = refresh[a][id].snap /\ refresh[a][id].snap \in Row
      /\ refresh'[a][id].reuses = refresh[a][id].reuses
      /\ refresh'[a][id].unheard = refresh[a][id].unheard
      /\ refresh'[a][id].out \in Row /\ refresh'[a][id].out.status = "active"
      /\ refresh'[a][id].out.token = refresh[a][id].snap.token
      /\ refresh'[a][id].out.provider = refresh[a][id].snap.provider
  <2>1. /\ s.pc = "write" /\ s.snap = r.snap /\ s.reuses = r.reuses /\ s.unheard = r.unheard
        /\ s.out = [r.snap EXCEPT !.status = "active"]
    BY <1>1 DEF Refresh
  <2>2. r.pc = "call" /\ r.snap.token = 0
    BY DEF NoRefreshToken
  <2> QED
    BY <1>2, <1>2a, <1>5, <2>1, <2>2
<1> QED
  BY <1>5, <1>6, <1>7

\* The copy with the new token is to be written.
LEMMA TokenMoves ==
  ASSUME TypeOK, Shape, NEW a \in Apps, NEW id \in Ids, ReceiveToken(a, id)
  PROVE  /\ refresh' \in [Apps -> [Ids -> Refresh]] /\ Elsewhere(a, id)
         /\ UNCHANGED <<loaded, started, stopped>>
         /\ UNCHANGED <<store, creds>>
         /\ live' = live
         /\ UNCHANGED <<crossed, lost>>
         /\ refresh[a][id].pc = "answer" /\ refresh'[a][id].pc = "write" /\ refresh[a][id].got.ok
         /\ refresh[a][id].got.token \in Nat
         /\ refresh'[a][id].snap = refresh[a][id].snap /\ refresh[a][id].snap \in Row
         /\ refresh'[a][id].reuses = refresh[a][id].reuses
         /\ refresh'[a][id].unheard = refresh[a][id].unheard
         /\ refresh'[a][id].out \in Row /\ refresh'[a][id].out.status = refresh[a][id].snap.status
         /\ refresh'[a][id].out.token = NewToken(refresh[a][id].snap, refresh[a][id].got.token)
         /\ refresh'[a][id].out.provider = refresh[a][id].snap.provider
<1> DEFINE r == refresh[a][id]
<1> DEFINE s == [r EXCEPT !.pc = "write", !.got = NoAnswer,
                         !.out = [r.snap EXCEPT !.token = NewToken(r.snap, r.got.token)]]
<1>1. r \in Refresh
  BY DEF TypeOK
<1>2. r.snap \in Row
  BY DEF Shape, ShapeAt, ReceiveToken
<1> DEFINE n == NewToken(r.snap, r.got.token)
<1>2a. /\ [r.snap EXCEPT !.token = n] \in Row
       /\ [r.snap EXCEPT !.token = n].status = r.snap.status
       /\ [r.snap EXCEPT !.token = n].token = n
       /\ [r.snap EXCEPT !.token = n].provider = r.snap.provider
  <2>1. r.got.token \in Nat
    BY <1>1 DEF Refresh, Answer
  <2>2. n \in Nat
    BY <1>2, <2>1, NewTokenIs
  <2> HIDE DEF n, r
  <2> QED
    BY <1>2, <2>2, RowWithToken
<1>3. s \in Refresh
  BY <1>1, <1>2a DEF Refresh, PCs, NoAnswer, Answer
<1>4. Goto(a, id, s)
  BY DEF ReceiveToken
<1>5. refresh' \in [Apps -> [Ids -> Refresh]] /\ refresh'[a][id] = s /\ Elsewhere(a, id)
  <2> HIDE DEF s
  <2> QED BY <1>3, <1>4, GotoIs DEF TypeOK
<1>6. /\ UNCHANGED <<loaded, started, stopped>>
      /\ UNCHANGED <<store, creds>>
      /\ live' = live
      /\ UNCHANGED <<crossed, lost>>
  BY DEF ReceiveToken, TypeOK
<1>7. /\ refresh[a][id].pc = "answer" /\ refresh'[a][id].pc = "write" /\ refresh[a][id].got.ok
      /\ refresh[a][id].got.token \in Nat
      /\ refresh'[a][id].snap = refresh[a][id].snap /\ refresh[a][id].snap \in Row
      /\ refresh'[a][id].reuses = refresh[a][id].reuses
      /\ refresh'[a][id].unheard = refresh[a][id].unheard
      /\ refresh'[a][id].out \in Row /\ refresh'[a][id].out.status = refresh[a][id].snap.status
      /\ refresh'[a][id].out.token = NewToken(refresh[a][id].snap, refresh[a][id].got.token)
      /\ refresh'[a][id].out.provider = refresh[a][id].snap.provider
  <2>1. /\ s.pc = "write" /\ s.snap = r.snap /\ s.reuses = r.reuses /\ s.unheard = r.unheard
        /\ s.out = [r.snap EXCEPT !.token = NewToken(r.snap, r.got.token)]
    BY <1>1 DEF Refresh
  <2>2. r.pc = "answer" /\ r.got.ok
    BY DEF ReceiveToken
  <2>3. r.got.token \in Nat
    BY <1>1 DEF Refresh, Answer
  <2> HIDE DEF r, s
  <2> QED
    BY <1>2, <1>2a, <1>5, <2>1, <2>2, <2>3 DEF r
<1> QED
  BY <1>5, <1>6, <1>7

\* A refusal that did not get through, or did not say why, is only counted.
LEMMA UnheardIs ==
  ASSUME NEW r \in Refresh
  PROVE  /\ Unheard(r) \in Refresh
         /\ Unheard(r).snap = r.snap /\ Unheard(r).pc = r.pc
         /\ Unheard(r).reuses = r.reuses /\ Unheard(r).unheard = r.unheard + 1
BY DEF Unheard, Refresh

\* A refusal that codex understands is the end; any other is counted.
LEMMA RefusalMoves ==
  ASSUME TypeOK, Shape, NEW a \in Apps, NEW id \in Ids,
         NEW reused \in BOOLEAN, ReceiveRefusal(a, id, reused)
  PROVE  /\ refresh' \in [Apps -> [Ids -> Refresh]] /\ Elsewhere(a, id)
         /\ UNCHANGED <<loaded, started, stopped>>
         /\ UNCHANGED <<store, creds>>
         /\ live' = live
         /\ UNCHANGED <<crossed, lost>>
         /\ refresh[a][id].pc = "answer" /\ refresh'[a][id].pc \in {"wait", "write"}
         /\ ~refresh[a][id].got.ok
         /\ refresh'[a][id].snap = refresh[a][id].snap /\ refresh[a][id].snap \in Row
         /\ refresh'[a][id].reuses = refresh[a][id].reuses
         /\ \/ refresh'[a][id].unheard = refresh[a][id].unheard + 1
            \/ /\ refresh'[a][id].unheard = refresh[a][id].unheard
               /\ refresh'[a][id].pc = "write"
         /\ refresh'[a][id].pc = "write" =>
              /\ refresh'[a][id].out \in Row /\ refresh'[a][id].out.status = "error"
              /\ refresh'[a][id].out.token = refresh[a][id].snap.token
              /\ refresh'[a][id].out.provider = refresh[a][id].snap.provider
<1> DEFINE r == refresh[a][id]
<1> DEFINE s == IF r.snap.provider = "codex" /\ reused THEN Failed(r) ELSE Retried(Unheard(r))
<1>1. r \in Refresh
  BY DEF TypeOK
<1>2. r.snap \in Row
  BY DEF Shape, ShapeAt, ReceiveRefusal
<1>2a. /\ Unheard(r) \in Refresh /\ Unheard(r).snap = r.snap /\ Unheard(r).snap \in Row
       /\ Unheard(r).reuses = r.reuses /\ Unheard(r).unheard = r.unheard + 1
  BY <1>1, <1>2, UnheardIs
<1>3. s \in Refresh
  BY <1>1, <1>2, <1>2a, FailedIs, RetriedIs
<1>4. Goto(a, id, s)
  BY DEF ReceiveRefusal, CodexRefused
<1>5. refresh' \in [Apps -> [Ids -> Refresh]] /\ refresh'[a][id] = s /\ Elsewhere(a, id)
  <2> HIDE DEF s
  <2> QED BY <1>3, <1>4, GotoIs DEF TypeOK
<1>6. /\ UNCHANGED <<loaded, started, stopped>>
      /\ UNCHANGED <<store, creds>>
      /\ live' = live
      /\ UNCHANGED <<crossed, lost>>
  BY DEF ReceiveRefusal, TypeOK
<1>7. r.pc = "answer" /\ ~r.got.ok
  BY <1>1 DEF ReceiveRefusal, Refresh
<1>8. /\ s.pc \in {"wait", "write"} /\ s.snap = r.snap /\ s.reuses = r.reuses
      /\ s.unheard = r.unheard + 1 \/ (s.unheard = r.unheard /\ s.pc = "write")
      /\ s.pc = "write" =>
              /\ s.out \in Row /\ s.out.status = "error"
              /\ s.out.token = r.snap.token
              /\ s.out.provider = r.snap.provider
  <2> HIDE DEF r
  <2>2. CASE r.snap.provider = "codex" /\ reused
    BY <1>1, <1>2, <2>2, FailedIs
  <2>3. CASE ~(r.snap.provider = "codex" /\ reused)
    <3> DEFINE u == Unheard(r)
    <3>1. u \in Refresh /\ u.snap = r.snap /\ u.snap \in Row /\ u.reuses = r.reuses
          /\ u.unheard = r.unheard + 1 /\ s = Retried(u)
      BY <1>2a, <2>3
    <3> HIDE DEF u
    <3> QED
      BY <3>1, RetriedIs
  <2> QED
    BY <2>2, <2>3
<1> QED
  <2> HIDE DEF s
  <2> QED
    BY <1>2, <1>5, <1>6, <1>7, <1>8

\* A wait ends with another attempt, or as a failure.
LEMMA WaitMoves ==
  ASSUME TypeOK, Shape, NEW a \in Apps, NEW id \in Ids, WaitEnds(a, id)
  PROVE  /\ refresh' \in [Apps -> [Ids -> Refresh]] /\ Elsewhere(a, id)
         /\ UNCHANGED <<loaded, started, stopped>>
         /\ UNCHANGED <<store, creds>>
         /\ live' = live
         /\ UNCHANGED <<crossed, lost>>
         /\ refresh[a][id].pc = "wait" /\ refresh'[a][id].pc \in {"call", "write"}
         /\ refresh'[a][id].snap = refresh[a][id].snap /\ refresh[a][id].snap \in Row
         /\ refresh'[a][id].reuses = refresh[a][id].reuses
         /\ refresh'[a][id].unheard = refresh[a][id].unheard
         /\ refresh'[a][id].pc = "write" =>
              /\ refresh'[a][id].out \in Row /\ refresh'[a][id].out.status = "error"
              /\ refresh'[a][id].out.token = refresh[a][id].snap.token
              /\ refresh'[a][id].out.provider = refresh[a][id].snap.provider
<1> DEFINE r == refresh[a][id]
<1> DEFINE s == IF Cancelled(a) THEN Failed(r) ELSE [r EXCEPT !.pc = "call", !.attempt = @ + 1]
<1>1. r \in Refresh
  BY DEF TypeOK
<1>2. r.snap \in Row
  BY DEF Shape, ShapeAt, WaitEnds
<1>3. s \in Refresh
  <2>1. CASE Cancelled(a)
    BY <1>1, <1>2, <2>1, FailedIs
  <2>2. CASE ~Cancelled(a)
    <3>1. r.attempt + 1 \in Nat
      BY <1>1 DEF Refresh
    <3> QED
      BY <1>1, <2>2, <3>1 DEF Refresh, PCs
  <2> QED
    BY <2>1, <2>2
<1>4. Goto(a, id, s)
  BY DEF WaitEnds
<1>5. refresh' \in [Apps -> [Ids -> Refresh]] /\ refresh'[a][id] = s /\ Elsewhere(a, id)
  <2> HIDE DEF s
  <2> QED BY <1>3, <1>4, GotoIs DEF TypeOK
<1>6. /\ UNCHANGED <<loaded, started, stopped>>
      /\ UNCHANGED <<store, creds>>
      /\ live' = live
      /\ UNCHANGED <<crossed, lost>>
  BY DEF WaitEnds, TypeOK
<1>7. /\ refresh[a][id].pc = "wait" /\ refresh'[a][id].pc \in {"call", "write"}
      /\ refresh'[a][id].snap = refresh[a][id].snap /\ refresh[a][id].snap \in Row
      /\ refresh'[a][id].reuses = refresh[a][id].reuses
      /\ refresh'[a][id].unheard = refresh[a][id].unheard
      /\ refresh'[a][id].pc = "write" =>
              /\ refresh'[a][id].out \in Row /\ refresh'[a][id].out.status = "error"
              /\ refresh'[a][id].out.token = refresh[a][id].snap.token
              /\ refresh'[a][id].out.provider = refresh[a][id].snap.provider
  <2> HIDE DEF r
  <2>1. r.pc = "wait"
    BY DEF WaitEnds, r
  <2>2. CASE Cancelled(a)
    BY <1>1, <1>2, <1>5, <2>1, <2>2, FailedIs DEF r
  <2>3. CASE ~Cancelled(a)
    <3>1. /\ [r EXCEPT !.pc = "call", !.attempt = @ + 1].pc = "call"
          /\ [r EXCEPT !.pc = "call", !.attempt = @ + 1].snap = r.snap
          /\ [r EXCEPT !.pc = "call", !.attempt = @ + 1].reuses = r.reuses
          /\ [r EXCEPT !.pc = "call", !.attempt = @ + 1].unheard = r.unheard
      BY <1>1 DEF Refresh
    <3> QED
      BY <1>2, <1>5, <2>1, <2>3, <3>1 DEF r
  <2> QED
    BY <2>2, <2>3
<1> QED
  BY <1>5, <1>6, <1>7

\* An attempt that fails is retried; a token that was on its way is lost.
LEMMA FailMoves ==
  ASSUME TypeOK, Shape, NEW a \in Apps, NEW id \in Ids, AttemptFails(a, id)
  PROVE  /\ refresh' \in [Apps -> [Ids -> Refresh]] /\ Elsewhere(a, id)
         /\ UNCHANGED <<loaded, started, stopped>>
         /\ UNCHANGED <<store, creds>>
         /\ live' = live
         /\ crossed' = crossed
         /\ lost \subseteq lost' /\ lost' \subseteq Ids
         /\ refresh[a][id].pc = "answer" /\ refresh[a][id].got.ok => id \in lost'
         /\ refresh[a][id].pc \in {"call", "answer"} /\ refresh'[a][id].pc \in {"wait", "write"}
         /\ refresh'[a][id].snap = refresh[a][id].snap /\ refresh[a][id].snap \in Row
         /\ refresh'[a][id].reuses = refresh[a][id].reuses
         /\ refresh'[a][id].unheard =
              IF refresh[a][id].pc = "answer" /\ ~refresh[a][id].got.ok
              THEN refresh[a][id].unheard + 1 ELSE refresh[a][id].unheard
         /\ refresh'[a][id].pc = "write" =>
              /\ refresh'[a][id].out \in Row /\ refresh'[a][id].out.status = "error"
              /\ refresh'[a][id].out.token = refresh[a][id].snap.token
              /\ refresh'[a][id].out.provider = refresh[a][id].snap.provider
<1> DEFINE r == refresh[a][id]
<1> DEFINE u == IF r.pc = "answer" /\ ~r.got.ok THEN Unheard(r) ELSE r
<1> DEFINE s == Retried(u)
<1>1. r \in Refresh
  BY DEF TypeOK
<1>2. r.snap \in Row
  BY DEF Shape, ShapeAt, AttemptFails
<1>2a. /\ u \in Refresh /\ u.snap = r.snap /\ u.snap \in Row /\ u.reuses = r.reuses
       /\ u.unheard = IF r.pc = "answer" /\ ~r.got.ok THEN r.unheard + 1 ELSE r.unheard
  <2> HIDE DEF r
  <2> QED
    BY <1>1, <1>2, UnheardIs
<1>3. s \in Refresh
  <2> HIDE DEF u
  <2> QED
    BY <1>2a, RetriedIs
<1>4. Goto(a, id, s)
  BY DEF AttemptFails
<1>5. refresh' \in [Apps -> [Ids -> Refresh]] /\ refresh'[a][id] = s /\ Elsewhere(a, id)
  <2> HIDE DEF s
  <2> QED BY <1>3, <1>4, GotoIs DEF TypeOK
<1>6. /\ UNCHANGED <<loaded, started, stopped>>
      /\ UNCHANGED <<store, creds>>
      /\ live' = live
      /\ crossed' = crossed
      /\ lost \subseteq lost' /\ lost' \subseteq Ids
      /\ refresh[a][id].pc = "answer" /\ refresh[a][id].got.ok => id \in lost'
  BY DEF AttemptFails, TypeOK
<1>7. /\ refresh[a][id].pc \in {"call", "answer"} /\ refresh'[a][id].pc \in {"wait", "write"}
      /\ refresh'[a][id].snap = refresh[a][id].snap /\ refresh[a][id].snap \in Row
      /\ refresh'[a][id].reuses = refresh[a][id].reuses
      /\ refresh'[a][id].unheard =
           IF refresh[a][id].pc = "answer" /\ ~refresh[a][id].got.ok
           THEN refresh[a][id].unheard + 1 ELSE refresh[a][id].unheard
      /\ refresh'[a][id].pc = "write" =>
              /\ refresh'[a][id].out \in Row /\ refresh'[a][id].out.status = "error"
              /\ refresh'[a][id].out.token = refresh[a][id].snap.token
              /\ refresh'[a][id].out.provider = refresh[a][id].snap.provider
  <2> HIDE DEF r, u
  <2>1. r.pc \in {"call", "answer"}
    BY DEF AttemptFails, r
  <2>2. /\ s.pc \in {"wait", "write"} /\ s.snap = u.snap
        /\ s.reuses = u.reuses /\ s.unheard = u.unheard
        /\ s.pc = "write" =>
              /\ s.out \in Row /\ s.out.status = "error"
              /\ s.out.token = u.snap.token
              /\ s.out.provider = u.snap.provider
    BY <1>2a, RetriedIs
  <2> HIDE DEF s
  <2> QED
    BY <1>2, <1>2a, <1>5, <2>1, <2>2 DEF r
<1> QED
  BY <1>5, <1>6, <1>7

\* The vendor's next token is on its way.
LEMMA RotatesMoves ==
  ASSUME TypeOK, Shape, NEW a \in Apps, NEW id \in Ids, VendorRotates(a, id)
  PROVE  /\ refresh' \in [Apps -> [Ids -> Refresh]] /\ Elsewhere(a, id)
         /\ UNCHANGED <<loaded, started, stopped>>
         /\ UNCHANGED <<store, creds>>
         /\ live' \in [Ids -> Nat] /\ live'[id] = live[id] + 1
         /\ \A j \in Ids : j # id => live'[j] = live[j]
         /\ UNCHANGED <<crossed, lost>>
         /\ refresh[a][id].pc = "call" /\ refresh'[a][id].pc = "answer"
         /\ refresh'[a][id].got.ok /\ refresh'[a][id].got.token = live[id] + 1
         /\ refresh'[a][id].snap = refresh[a][id].snap /\ refresh[a][id].snap \in Row
         /\ refresh'[a][id].reuses = refresh[a][id].reuses
         /\ refresh'[a][id].unheard = refresh[a][id].unheard
<1> DEFINE r == refresh[a][id]
<1> DEFINE s == [r EXCEPT !.pc = "answer", !.got = [ok |-> TRUE, token |-> live[id] + 1]]
<1>1. r \in Refresh
  BY DEF TypeOK
<1>2. r.snap \in Row
  BY DEF Shape, ShapeAt, VendorRotates
<1>2a. [ok |-> TRUE, token |-> live[id] + 1] \in Answer
  BY DEF TypeOK, Answer
<1>3. s \in Refresh
  BY <1>1, <1>2a DEF Refresh, PCs
<1>4. Goto(a, id, s)
  BY DEF VendorRotates
<1>5. refresh' \in [Apps -> [Ids -> Refresh]] /\ refresh'[a][id] = s /\ Elsewhere(a, id)
  <2> HIDE DEF s
  <2> QED BY <1>3, <1>4, GotoIs DEF TypeOK
<1>6. /\ UNCHANGED <<loaded, started, stopped>>
      /\ UNCHANGED <<store, creds>>
      /\ live' \in [Ids -> Nat] /\ live'[id] = live[id] + 1
      /\ \A j \in Ids : j # id => live'[j] = live[j]
      /\ UNCHANGED <<crossed, lost>>
  <2>1. live' = [live EXCEPT ![id] = @ + 1] /\ live \in [Ids -> Nat]
    BY DEF VendorRotates, TypeOK
  <2>2. UNCHANGED <<loaded, started, stopped>> /\ UNCHANGED <<store, creds>> /\ UNCHANGED <<crossed, lost>>
    BY DEF VendorRotates
  <2> QED
    BY <2>1, <2>2
<1>7. /\ refresh[a][id].pc = "call" /\ refresh'[a][id].pc = "answer"
      /\ refresh'[a][id].got.ok /\ refresh'[a][id].got.token = live[id] + 1
      /\ refresh'[a][id].snap = refresh[a][id].snap /\ refresh[a][id].snap \in Row
      /\ refresh'[a][id].reuses = refresh[a][id].reuses
      /\ refresh'[a][id].unheard = refresh[a][id].unheard
  <2>1. /\ s.pc = "answer" /\ s.snap = r.snap /\ s.reuses = r.reuses /\ s.unheard = r.unheard
        /\ s.got.ok /\ s.got.token = live[id] + 1
    BY <1>1 DEF Refresh
  <2>2. r.pc = "call"
    BY DEF VendorRotates
  <2> QED
    BY <1>2, <1>5, <2>1, <2>2
<1> QED
  BY <1>5, <1>6, <1>7

\* An answer without a refresh token is on its way.
LEMMA KeepsMoves ==
  ASSUME TypeOK, Shape, NEW a \in Apps, NEW id \in Ids, VendorKeeps(a, id)
  PROVE  /\ refresh' \in [Apps -> [Ids -> Refresh]] /\ Elsewhere(a, id)
         /\ UNCHANGED <<loaded, started, stopped>>
         /\ UNCHANGED <<store, creds>>
         /\ live' = live
         /\ UNCHANGED <<crossed, lost>>
         /\ refresh[a][id].pc = "call" /\ refresh'[a][id].pc = "answer"
         /\ refresh'[a][id].got.ok /\ refresh'[a][id].got.token = 0
         /\ refresh[a][id].snap.provider \in Omits
         /\ refresh'[a][id].snap = refresh[a][id].snap /\ refresh[a][id].snap \in Row
         /\ refresh'[a][id].reuses = refresh[a][id].reuses
         /\ refresh'[a][id].unheard = refresh[a][id].unheard
<1> DEFINE r == refresh[a][id]
<1> DEFINE s == [r EXCEPT !.pc = "answer", !.got = NoAnswer]
<1>1. r \in Refresh
  BY DEF TypeOK
<1>2. r.snap \in Row
  BY DEF Shape, ShapeAt, VendorKeeps
<1>3. s \in Refresh
  BY <1>1 DEF Refresh, PCs, Answer, NoAnswer
<1>4. Goto(a, id, s)
  BY DEF VendorKeeps
<1>5. refresh' \in [Apps -> [Ids -> Refresh]] /\ refresh'[a][id] = s /\ Elsewhere(a, id)
  <2> HIDE DEF s
  <2> QED BY <1>3, <1>4, GotoIs DEF TypeOK
<1>6. /\ UNCHANGED <<loaded, started, stopped>>
      /\ UNCHANGED <<store, creds>>
      /\ live' = live
      /\ UNCHANGED <<crossed, lost>>
  BY DEF VendorKeeps, TypeOK
<1>7. /\ refresh[a][id].pc = "call" /\ refresh'[a][id].pc = "answer"
      /\ refresh'[a][id].got.ok /\ refresh'[a][id].got.token = 0
      /\ refresh[a][id].snap.provider \in Omits
      /\ refresh'[a][id].snap = refresh[a][id].snap /\ refresh[a][id].snap \in Row
      /\ refresh'[a][id].reuses = refresh[a][id].reuses
      /\ refresh'[a][id].unheard = refresh[a][id].unheard
  <2>1. /\ s.pc = "answer" /\ s.snap = r.snap /\ s.reuses = r.reuses /\ s.unheard = r.unheard
        /\ s.got.ok /\ s.got.token = 0
    BY <1>1 DEF Refresh, NoAnswer
  <2>2. r.pc = "call" /\ r.snap.provider \in Omits
    BY DEF VendorKeeps
  <2> QED
    BY <1>2, <1>5, <2>1, <2>2
<1> QED
  BY <1>5, <1>6, <1>7

\* The token presented was spent, as the goroutine will learn.
LEMMA RefusesMoves ==
  ASSUME TypeOK, Shape, NEW a \in Apps, NEW id \in Ids, VendorRefuses(a, id)
  PROVE  /\ refresh' \in [Apps -> [Ids -> Refresh]] /\ Elsewhere(a, id)
         /\ UNCHANGED <<loaded, started, stopped>>
         /\ UNCHANGED <<store, creds>>
         /\ live' = live
         /\ UNCHANGED <<crossed, lost>>
         /\ refresh[a][id].pc = "call" /\ refresh'[a][id].pc = "answer"
         /\ ~refresh'[a][id].got.ok
         /\ refresh[a][id].snap.token \notin {0, live[id]}
         /\ refresh'[a][id].snap = refresh[a][id].snap /\ refresh[a][id].snap \in Row
         /\ refresh'[a][id].reuses = refresh[a][id].reuses + 1
         /\ refresh'[a][id].unheard = refresh[a][id].unheard
<1> DEFINE r == refresh[a][id]
<1> DEFINE s == [r EXCEPT !.pc = "answer", !.got = Refused, !.reuses = @ + 1]
<1>1. r \in Refresh
  BY DEF TypeOK
<1>2. r.snap \in Row
  BY DEF Shape, ShapeAt, VendorRefuses
<1>3. s \in Refresh
  <2>1. r.reuses + 1 \in Nat
    BY <1>1 DEF Refresh
  <2> QED
    BY <1>1, <2>1 DEF Refresh, PCs, Answer, Refused
<1>4. Goto(a, id, s)
  BY DEF VendorRefuses
<1>5. refresh' \in [Apps -> [Ids -> Refresh]] /\ refresh'[a][id] = s /\ Elsewhere(a, id)
  <2> HIDE DEF s
  <2> QED BY <1>3, <1>4, GotoIs DEF TypeOK
<1>6. /\ UNCHANGED <<loaded, started, stopped>>
      /\ UNCHANGED <<store, creds>>
      /\ live' = live
      /\ UNCHANGED <<crossed, lost>>
  BY DEF VendorRefuses, TypeOK
<1>7. /\ refresh[a][id].pc = "call" /\ refresh'[a][id].pc = "answer"
      /\ ~refresh'[a][id].got.ok
      /\ refresh[a][id].snap.token \notin {0, live[id]}
      /\ refresh'[a][id].snap = refresh[a][id].snap /\ refresh[a][id].snap \in Row
      /\ refresh'[a][id].reuses = refresh[a][id].reuses + 1
      /\ refresh'[a][id].unheard = refresh[a][id].unheard
  <2>1. /\ s.pc = "answer" /\ s.snap = r.snap /\ s.reuses = r.reuses + 1 /\ s.unheard = r.unheard
        /\ ~s.got.ok
    BY <1>1 DEF Refresh, Refused
  <2>2. r.pc = "call" /\ r.snap.token \notin {0, live[id]}
    BY DEF VendorRefuses
  <2> QED
    BY <1>2, <1>5, <2>1, <2>2
<1> QED
  BY <1>5, <1>6, <1>7

\* A load gives the newest app a copy of every row, none of them refreshing.
LEMMA LoadedIs ==
  ASSUME NEW row \in Row
  PROVE  /\ Loaded(row) \in Row /\ Loaded(row).status # "refreshing"
         /\ Loaded(row).token = row.token /\ Loaded(row).provider = row.provider
BY RowWith DEF Loaded

\* Provision: the new app gets its copies from the rows, the others keep theirs.
LEMMA ProvisionMoves ==
  ASSUME TypeOK, NEW a \in Apps, Provision(a)
  PROVE  /\ loaded' = a /\ a = loaded + 1 /\ loaded' \in 0..MaxApps
         /\ creds' \in [Apps -> [Ids -> Row \cup {None}]]
         /\ \A b \in Apps, j \in Ids :
              creds'[b][j] = IF b = a THEN Loaded(store[j]) ELSE creds[b][j]
         /\ UNCHANGED <<started, stopped, store, live, refresh, lost>>
         /\ crossed \subseteq crossed' /\ crossed' \subseteq Ids
         /\ \A j \in Ids : j \notin crossed' => Quiet(j)
<1>1. [j \in Ids |-> Loaded(store[j])] \in [Ids -> Row \cup {None}]
  BY LoadedIs DEF TypeOK
<1>2. /\ creds' \in [Apps -> [Ids -> Row \cup {None}]]
      /\ \A b \in Apps, j \in Ids :
           creds'[b][j] = IF b = a THEN Loaded(store[j]) ELSE creds[b][j]
  BY <1>1 DEF Provision, TypeOK
<1>3. loaded' = a /\ a = loaded + 1 /\ loaded' \in 0..MaxApps
  BY DEF Provision, TypeOK, Apps
<1>4. crossed \subseteq crossed' /\ crossed' \subseteq Ids
  BY DEF Provision, TypeOK
<1>5. \A j \in Ids : j \notin crossed' => Quiet(j)
  BY DEF Provision, Quiet
<1>6. UNCHANGED <<started, stopped, store, live, refresh, lost>>
  BY DEF Provision
<1> QED
  BY <1>2, <1>3, <1>4, <1>5, <1>6

\* A step of the goroutine that refreshes id for a.
Refreshes(a, id) == Begin(a, id) \/ RefreshStep(a, id) \/ VendorStep(a, id)

\* Such a step leaves the apps, the other goroutines and the other credentials
\* alone, and of this credential the copies of the other apps.
Local(a, id) ==
  /\ UNCHANGED <<loaded, started, stopped>> /\ Elsewhere(a, id) /\ OnlyBy(a, id)
  /\ \A j \in Ids : j # id => live'[j] = live[j]
  /\ crossed \subseteq crossed' /\ lost \subseteq lost'

\* Every step of a refresh is one of its app and credential alone.
LEMMA LocalStep ==
  ASSUME TypeOK, Shape, NEW a \in Apps, NEW id \in Ids, Refreshes(a, id)
  PROVE  Local(a, id)
<1>1. CASE Begin(a, id)
  BY <1>1, BeginMoves DEF Local, OnlyBy
<1>2. CASE MarkRefreshing(a, id)
  BY <1>2, MarkMoves DEF Local
<1>3. CASE Write(a, id)
  BY <1>3, WriteMoves DEF Local
<1>4. CASE NoRefreshToken(a, id)
  BY <1>4, NothingMoves DEF Local, OnlyBy
<1>5. CASE ReceiveToken(a, id)
  BY <1>5, TokenMoves DEF Local, OnlyBy
<1>6. ASSUME NEW reused \in BOOLEAN, ReceiveRefusal(a, id, reused) PROVE Local(a, id)
  BY <1>6, RefusalMoves DEF Local, OnlyBy
<1>7. CASE WaitEnds(a, id)
  BY <1>7, WaitMoves DEF Local, OnlyBy
<1>8. CASE AttemptFails(a, id)
  BY <1>8, FailMoves DEF Local, OnlyBy
<1>9. CASE VendorRotates(a, id)
  BY <1>9, RotatesMoves DEF Local, OnlyBy
<1>10. CASE VendorKeeps(a, id)
  BY <1>10, KeepsMoves DEF Local, OnlyBy
<1>11. CASE VendorRefuses(a, id)
  BY <1>11, RefusesMoves DEF Local, OnlyBy
<1> QED
  BY <1>1, <1>2, <1>3, <1>4, <1>5, <1>6, <1>7, <1>8, <1>9, <1>10, <1>11
     DEF Refreshes, RefreshStep, VendorStep, AttemptCancelled

-----------------------------------------------------------------------------
(* Types *)

\* Types and shapes hold at the beginning.
LEMMA TypeInit == Init => TypeOK /\ Shape
<1> SUFFICES ASSUME Init PROVE TypeOK /\ Shape
  OBVIOUS
<1>1. Idle \in Refresh /\ Idle.pc = "idle"
  BY DEF Refresh, Idle, NoAnswer, Answer, PCs
<1>2. store \in [Ids -> Row]
  BY DEF Init, Row
<1> QED
  BY <1>1, <1>2, RefreshAssumption DEF Init, TypeOK, Shape, ShapeAt, Bounded, Apps

\* What a goroutine carries is kept.
LEMMA ShapeNext ==
  ASSUME TypeOK, Shape, [Next]_vars, NEW b \in Apps, NEW j \in Ids
  PROVE  ShapeAt(b, j)'
<1>0. ShapeAt(b, j) /\ store[j] \in Row /\ loaded \in Int /\ b \in Int /\ (b \in started => b <= loaded)
  BY DEF Shape, TypeOK, Apps
<1>1. ASSUME NEW a \in Apps, Provision(a) PROVE ShapeAt(b, j)'
  BY <1>0, <1>1, ProvisionMoves, LoadedIs DEF ShapeAt
<1>2. ASSUME NEW a \in Apps, Start(a) PROVE ShapeAt(b, j)'
  BY <1>0, <1>2 DEF Start, ShapeAt
<1>3. ASSUME NEW a \in Apps, Stop(a) PROVE ShapeAt(b, j)'
  BY <1>0, <1>3 DEF Stop, ShapeAt
<1>4. CASE UNCHANGED vars
  BY <1>0, <1>4 DEF vars, ShapeAt
<1>5. ASSUME NEW a \in Apps, NEW id \in Ids, Refreshes(a, id), ~(b = a /\ j = id)
      PROVE  ShapeAt(b, j)'
  BY <1>0, <1>5, LocalStep DEF ShapeAt, Local, Elsewhere, OnlyBy
<1>6. ASSUME NEW a \in Apps, NEW id \in Ids, Begin(a, id), b = a, j = id
      PROVE  ShapeAt(b, j)'
  BY <1>0, <1>6, BeginMoves DEF ShapeAt
<1>7. ASSUME NEW a \in Apps, NEW id \in Ids, MarkRefreshing(a, id), b = a, j = id
      PROVE  ShapeAt(b, j)'
  BY <1>0, <1>7, MarkMoves DEF ShapeAt
<1>8. ASSUME NEW a \in Apps, NEW id \in Ids, Write(a, id), b = a, j = id
      PROVE  ShapeAt(b, j)'
  BY <1>0, <1>8, WriteMoves DEF ShapeAt
<1>9. ASSUME NEW a \in Apps, NEW id \in Ids, NoRefreshToken(a, id), b = a, j = id
      PROVE  ShapeAt(b, j)'
  BY <1>0, <1>9, NothingMoves DEF ShapeAt
<1>10. ASSUME NEW a \in Apps, NEW id \in Ids, ReceiveToken(a, id), b = a, j = id
      PROVE  ShapeAt(b, j)'
  BY <1>0, <1>10, TokenMoves DEF ShapeAt
<1>11. ASSUME NEW a \in Apps, NEW id \in Ids, NEW reused \in BOOLEAN,
             ReceiveRefusal(a, id, reused), b = a, j = id
      PROVE  ShapeAt(b, j)'
  BY <1>0, <1>11, RefusalMoves DEF ShapeAt
<1>12. ASSUME NEW a \in Apps, NEW id \in Ids, WaitEnds(a, id), b = a, j = id
      PROVE  ShapeAt(b, j)'
  BY <1>0, <1>12, WaitMoves DEF ShapeAt
<1>13. ASSUME NEW a \in Apps, NEW id \in Ids, AttemptFails(a, id), b = a, j = id
      PROVE  ShapeAt(b, j)'
  BY <1>0, <1>13, FailMoves DEF ShapeAt
<1>14. ASSUME NEW a \in Apps, NEW id \in Ids, VendorRotates(a, id), b = a, j = id
      PROVE  ShapeAt(b, j)'
  BY <1>0, <1>14, RotatesMoves DEF ShapeAt
<1>15. ASSUME NEW a \in Apps, NEW id \in Ids, VendorKeeps(a, id), b = a, j = id
      PROVE  ShapeAt(b, j)'
  BY <1>0, <1>15, KeepsMoves DEF ShapeAt
<1>16. ASSUME NEW a \in Apps, NEW id \in Ids, VendorRefuses(a, id), b = a, j = id
      PROVE  ShapeAt(b, j)'
  BY <1>0, <1>16, RefusesMoves DEF ShapeAt
<1> QED
  BY <1>1, <1>2, <1>3, <1>4, <1>5, <1>6, <1>7, <1>8, <1>9, <1>10, <1>11, <1>12, <1>13,
     <1>14, <1>15, <1>16
     DEF Next, RefreshStep, VendorStep, AttemptCancelled, Refreshes

\* The types are kept.
LEMMA TypeNext ==
  ASSUME TypeOK, Shape, [Next]_vars
  PROVE  TypeOK' /\ Bounded'
<1>0. /\ loaded \in 0..MaxApps /\ started \subseteq 1..loaded /\ stopped \subseteq started
      /\ store \in [Ids -> Row] /\ creds \in [Apps -> [Ids -> Row \cup {None}]]
      /\ live \in [Ids -> Nat] /\ refresh \in [Apps -> [Ids -> Refresh]]
      /\ crossed \subseteq Ids /\ lost \subseteq Ids /\ Bounded /\ loaded \in Nat
  BY DEF Shape, TypeOK
<1>1. ASSUME NEW a \in Apps, Provision(a) PROVE TypeOK' /\ Bounded'
  <2>1. /\ loaded' = loaded + 1 /\ loaded' \in 0..MaxApps /\ UNCHANGED <<started, stopped>>
        /\ store' \in [Ids -> Row] /\ creds' \in [Apps -> [Ids -> Row \cup {None}]]
        /\ live' \in [Ids -> Nat] /\ refresh' \in [Apps -> [Ids -> Refresh]]
        /\ crossed' \subseteq Ids /\ lost' \subseteq Ids
    BY <1>0, <1>1, ProvisionMoves
  <2> QED
    BY <1>0, <2>1 DEF TypeOK, Bounded
<1>2. ASSUME NEW a \in Apps, Start(a) PROVE TypeOK' /\ Bounded'
  BY <1>0, <1>2 DEF Start, TypeOK, Bounded, Apps
<1>3. ASSUME NEW a \in Apps, Stop(a) PROVE TypeOK' /\ Bounded'
  BY <1>0, <1>3 DEF Stop, TypeOK, Bounded, Apps
<1>4. ASSUME NEW a \in Apps, NEW id \in Ids, Begin(a, id) PROVE TypeOK' /\ Bounded'
  <2>1. /\ UNCHANGED <<loaded, started, stopped>>
        /\ store' \in [Ids -> Row] /\ creds' \in [Apps -> [Ids -> Row \cup {None}]]
        /\ live' \in [Ids -> Nat] /\ refresh' \in [Apps -> [Ids -> Refresh]]
        /\ crossed' \subseteq Ids /\ lost' \subseteq Ids
    BY <1>0, <1>4, BeginMoves
  <2> QED
    BY <1>0, <2>1 DEF TypeOK, Bounded
<1>5. ASSUME NEW a \in Apps, NEW id \in Ids, MarkRefreshing(a, id) PROVE TypeOK' /\ Bounded'
  <2>1. /\ UNCHANGED <<loaded, started, stopped>>
        /\ store' \in [Ids -> Row] /\ creds' \in [Apps -> [Ids -> Row \cup {None}]]
        /\ live' \in [Ids -> Nat] /\ refresh' \in [Apps -> [Ids -> Refresh]]
        /\ crossed' \subseteq Ids /\ lost' \subseteq Ids
    BY <1>0, <1>5, MarkMoves
  <2> QED
    BY <1>0, <2>1 DEF TypeOK, Bounded
<1>6. ASSUME NEW a \in Apps, NEW id \in Ids, Write(a, id) PROVE TypeOK' /\ Bounded'
  <2>1. /\ UNCHANGED <<loaded, started, stopped>>
        /\ store' \in [Ids -> Row] /\ creds' \in [Apps -> [Ids -> Row \cup {None}]]
        /\ live' \in [Ids -> Nat] /\ refresh' \in [Apps -> [Ids -> Refresh]]
        /\ crossed' \subseteq Ids /\ lost' \subseteq Ids
    BY <1>0, <1>6, WriteMoves
  <2> QED
    BY <1>0, <2>1 DEF TypeOK, Bounded
<1>7. ASSUME NEW a \in Apps, NEW id \in Ids, NoRefreshToken(a, id) PROVE TypeOK' /\ Bounded'
  <2>1. /\ UNCHANGED <<loaded, started, stopped>>
        /\ store' \in [Ids -> Row] /\ creds' \in [Apps -> [Ids -> Row \cup {None}]]
        /\ live' \in [Ids -> Nat] /\ refresh' \in [Apps -> [Ids -> Refresh]]
        /\ crossed' \subseteq Ids /\ lost' \subseteq Ids
    BY <1>0, <1>7, NothingMoves
  <2> QED
    BY <1>0, <2>1 DEF TypeOK, Bounded
<1>8. ASSUME NEW a \in Apps, NEW id \in Ids, ReceiveToken(a, id) PROVE TypeOK' /\ Bounded'
  <2>1. /\ UNCHANGED <<loaded, started, stopped>>
        /\ store' \in [Ids -> Row] /\ creds' \in [Apps -> [Ids -> Row \cup {None}]]
        /\ live' \in [Ids -> Nat] /\ refresh' \in [Apps -> [Ids -> Refresh]]
        /\ crossed' \subseteq Ids /\ lost' \subseteq Ids
    BY <1>0, <1>8, TokenMoves
  <2> QED
    BY <1>0, <2>1 DEF TypeOK, Bounded
<1>9. ASSUME NEW a \in Apps, NEW id \in Ids, NEW reused \in BOOLEAN,
             ReceiveRefusal(a, id, reused)
      PROVE  TypeOK' /\ Bounded'
  <2>1. /\ UNCHANGED <<loaded, started, stopped>>
        /\ store' \in [Ids -> Row] /\ creds' \in [Apps -> [Ids -> Row \cup {None}]]
        /\ live' \in [Ids -> Nat] /\ refresh' \in [Apps -> [Ids -> Refresh]]
        /\ crossed' \subseteq Ids /\ lost' \subseteq Ids
    BY <1>0, <1>9, RefusalMoves
  <2> QED
    BY <1>0, <2>1 DEF TypeOK, Bounded
<1>10. ASSUME NEW a \in Apps, NEW id \in Ids, WaitEnds(a, id) PROVE TypeOK' /\ Bounded'
  <2>1. /\ UNCHANGED <<loaded, started, stopped>>
        /\ store' \in [Ids -> Row] /\ creds' \in [Apps -> [Ids -> Row \cup {None}]]
        /\ live' \in [Ids -> Nat] /\ refresh' \in [Apps -> [Ids -> Refresh]]
        /\ crossed' \subseteq Ids /\ lost' \subseteq Ids
    BY <1>0, <1>10, WaitMoves
  <2> QED
    BY <1>0, <2>1 DEF TypeOK, Bounded
<1>11. ASSUME NEW a \in Apps, NEW id \in Ids, AttemptFails(a, id) PROVE TypeOK' /\ Bounded'
  <2>1. /\ UNCHANGED <<loaded, started, stopped>>
        /\ store' \in [Ids -> Row] /\ creds' \in [Apps -> [Ids -> Row \cup {None}]]
        /\ live' \in [Ids -> Nat] /\ refresh' \in [Apps -> [Ids -> Refresh]]
        /\ crossed' \subseteq Ids /\ lost' \subseteq Ids
    BY <1>0, <1>11, FailMoves
  <2> QED
    BY <1>0, <2>1 DEF TypeOK, Bounded
<1>12. ASSUME NEW a \in Apps, NEW id \in Ids, VendorRotates(a, id) PROVE TypeOK' /\ Bounded'
  <2>1. /\ UNCHANGED <<loaded, started, stopped>>
        /\ store' \in [Ids -> Row] /\ creds' \in [Apps -> [Ids -> Row \cup {None}]]
        /\ live' \in [Ids -> Nat] /\ refresh' \in [Apps -> [Ids -> Refresh]]
        /\ crossed' \subseteq Ids /\ lost' \subseteq Ids
    BY <1>0, <1>12, RotatesMoves
  <2> QED
    BY <1>0, <2>1 DEF TypeOK, Bounded
<1>13. ASSUME NEW a \in Apps, NEW id \in Ids, VendorKeeps(a, id) PROVE TypeOK' /\ Bounded'
  <2>1. /\ UNCHANGED <<loaded, started, stopped>>
        /\ store' \in [Ids -> Row] /\ creds' \in [Apps -> [Ids -> Row \cup {None}]]
        /\ live' \in [Ids -> Nat] /\ refresh' \in [Apps -> [Ids -> Refresh]]
        /\ crossed' \subseteq Ids /\ lost' \subseteq Ids
    BY <1>0, <1>13, KeepsMoves
  <2> QED
    BY <1>0, <2>1 DEF TypeOK, Bounded
<1>14. ASSUME NEW a \in Apps, NEW id \in Ids, VendorRefuses(a, id) PROVE TypeOK' /\ Bounded'
  <2>1. /\ UNCHANGED <<loaded, started, stopped>>
        /\ store' \in [Ids -> Row] /\ creds' \in [Apps -> [Ids -> Row \cup {None}]]
        /\ live' \in [Ids -> Nat] /\ refresh' \in [Apps -> [Ids -> Refresh]]
        /\ crossed' \subseteq Ids /\ lost' \subseteq Ids
    BY <1>0, <1>14, RefusesMoves
  <2> QED
    BY <1>0, <2>1 DEF TypeOK, Bounded
<1>15. CASE UNCHANGED vars
  BY <1>0, <1>15 DEF vars, TypeOK, Bounded, Apps
<1> QED
  BY <1>1, <1>2, <1>3, <1>4, <1>5, <1>6, <1>7, <1>8, <1>9, <1>10, <1>11, <1>12, <1>13,
     <1>14, <1>15
     DEF Next, RefreshStep, VendorStep, AttemptCancelled

\* Types and shapes together are inductive.
LEMMA Typed == Spec => [](TypeOK /\ Shape)
<1>1. TypeOK /\ Shape /\ [Next]_vars => (TypeOK /\ Shape)'
  BY TypeNext, ShapeNext DEF Shape
<1> QED
  BY TypeInit, <1>1, PTL DEF Spec

\* Every variable keeps its type, whatever the bounds are.
THEOREM RefreshTypeCorrect == Spec => []TypeOK
BY Typed, PTL

-----------------------------------------------------------------------------
(* The status *)

\* No copy a refresh starts from, and none it ends with, is marked refreshing.
MarkedAt(b, j) ==
  /\ refresh[b][j].pc # "idle" => refresh[b][j].snap.status # "refreshing"
  /\ refresh[b][j].pc = "write" => refresh[b][j].out.status # "refreshing"
  /\ creds[b][j] # None /\ creds[b][j].status = "refreshing" =>
       refresh[b][j].pc # "idle" \/ b \in stopped

Marked == \A b \in Apps, j \in Ids : MarkedAt(b, j)

\* The marks are kept.
LEMMA MarkedNext ==
  ASSUME TypeOK, Shape, Marked, [Next]_vars, NEW b \in Apps, NEW j \in Ids
  PROVE  MarkedAt(b, j)'
<1>0. MarkedAt(b, j) /\ store[j] \in Row
  BY DEF Shape, TypeOK, Apps, Marked
<1>1. ASSUME NEW a \in Apps, Provision(a) PROVE MarkedAt(b, j)'
  BY <1>0, <1>1, ProvisionMoves, LoadedIs DEF MarkedAt
<1>2. ASSUME NEW a \in Apps, Start(a) PROVE MarkedAt(b, j)'
  BY <1>0, <1>2 DEF Start, MarkedAt
<1>3. ASSUME NEW a \in Apps, Stop(a) PROVE MarkedAt(b, j)'
  BY <1>0, <1>3 DEF Stop, MarkedAt
<1>4. CASE UNCHANGED vars
  BY <1>0, <1>4 DEF vars, MarkedAt
<1>5. ASSUME NEW a \in Apps, NEW id \in Ids, Refreshes(a, id), ~(b = a /\ j = id)
      PROVE  MarkedAt(b, j)'
  BY <1>0, <1>5, LocalStep DEF MarkedAt, Local, Elsewhere, OnlyBy
<1>6. ASSUME NEW a \in Apps, NEW id \in Ids, Begin(a, id), b = a, j = id
      PROVE  MarkedAt(b, j)'
  BY <1>0, <1>6, BeginMoves DEF MarkedAt
<1>7. ASSUME NEW a \in Apps, NEW id \in Ids, MarkRefreshing(a, id), b = a, j = id
      PROVE  MarkedAt(b, j)'
  BY <1>0, <1>7, MarkMoves DEF MarkedAt
<1>8. ASSUME NEW a \in Apps, NEW id \in Ids, Write(a, id), b = a, j = id
      PROVE  MarkedAt(b, j)'
  <2>1. refresh[a][id].out \in Row /\ refresh[a][id].out.status # "refreshing"
    BY <1>0, <1>8, WriteMoves DEF MarkedAt
  <2> QED
    BY <1>0, <1>8, <2>1, WriteMoves DEF MarkedAt, Cancelled
<1>9. ASSUME NEW a \in Apps, NEW id \in Ids, NoRefreshToken(a, id), b = a, j = id
      PROVE  MarkedAt(b, j)'
  BY <1>0, <1>9, NothingMoves DEF MarkedAt
<1>10. ASSUME NEW a \in Apps, NEW id \in Ids, ReceiveToken(a, id), b = a, j = id
      PROVE  MarkedAt(b, j)'
  BY <1>0, <1>10, TokenMoves DEF MarkedAt
<1>11. ASSUME NEW a \in Apps, NEW id \in Ids, NEW reused \in BOOLEAN,
             ReceiveRefusal(a, id, reused), b = a, j = id
      PROVE  MarkedAt(b, j)'
  BY <1>0, <1>11, RefusalMoves DEF MarkedAt
<1>12. ASSUME NEW a \in Apps, NEW id \in Ids, WaitEnds(a, id), b = a, j = id
      PROVE  MarkedAt(b, j)'
  BY <1>0, <1>12, WaitMoves DEF MarkedAt
<1>13. ASSUME NEW a \in Apps, NEW id \in Ids, AttemptFails(a, id), b = a, j = id
      PROVE  MarkedAt(b, j)'
  BY <1>0, <1>13, FailMoves DEF MarkedAt
<1>14. ASSUME NEW a \in Apps, NEW id \in Ids, VendorRotates(a, id), b = a, j = id
      PROVE  MarkedAt(b, j)'
  BY <1>0, <1>14, RotatesMoves DEF MarkedAt
<1>15. ASSUME NEW a \in Apps, NEW id \in Ids, VendorKeeps(a, id), b = a, j = id
      PROVE  MarkedAt(b, j)'
  BY <1>0, <1>15, KeepsMoves DEF MarkedAt
<1>16. ASSUME NEW a \in Apps, NEW id \in Ids, VendorRefuses(a, id), b = a, j = id
      PROVE  MarkedAt(b, j)'
  BY <1>0, <1>16, RefusesMoves DEF MarkedAt
<1> QED
  BY <1>1, <1>2, <1>3, <1>4, <1>5, <1>6, <1>7, <1>8, <1>9, <1>10, <1>11, <1>12, <1>13,
     <1>14, <1>15, <1>16
     DEF Next, RefreshStep, VendorStep, AttemptCancelled, Refreshes

\* No app but a stopped one is left with a credential marked as refreshing
\* that nobody refreshes.
THEOREM MarksEnd == Spec => []RefreshingIsUnderWay
<1>1. Init => Marked
  <2>1. Idle.pc = "idle"
    BY DEF Idle
  <2> QED
    BY <2>1 DEF Init, Marked, MarkedAt
<1>2. TypeOK /\ Shape /\ Marked /\ [Next]_vars => Marked'
  BY MarkedNext DEF Marked
<1>3. Marked => RefreshingIsUnderWay
  BY DEF Marked, MarkedAt, RefreshingIsUnderWay, Cancelled
<1> QED
  BY Typed, <1>1, <1>2, <1>3, PTL DEF Spec

-----------------------------------------------------------------------------
(* The provider, and the refusals of a refresh *)

\* A credential's provider is the same everywhere.
ProvidedAt(b, j) ==
  /\ b <= loaded => creds[b][j].provider = store[j].provider
  /\ refresh[b][j].pc # "idle" => refresh[b][j].snap.provider = store[j].provider
  /\ refresh[b][j].pc = "write" => refresh[b][j].out.provider = store[j].provider

Provided == \A b \in Apps, j \in Ids : ProvidedAt(b, j)

\* The provider of the row stays.
Lasting(j) == store'[j].provider = store[j].provider

\* No step changes the provider of a row.
LEMMA ProviderLasts ==
  ASSUME TypeOK, Shape, Provided, [Next]_vars, NEW j \in Ids
  PROVE  Lasting(j)
<1>1. ASSUME NEW a \in Apps, Provision(a) \/ Start(a) \/ Stop(a) PROVE Lasting(j)
  BY <1>1 DEF Provision, Start, Stop, Lasting
<1>2. CASE UNCHANGED vars
  BY <1>2 DEF vars, Lasting
<1>3. ASSUME NEW a \in Apps, NEW id \in Ids, Refreshes(a, id), j # id PROVE Lasting(j)
  BY <1>3, LocalStep DEF Local, OnlyBy, Lasting
<1>4. ASSUME NEW a \in Apps, NEW id \in Ids PROVE ProvidedAt(a, id)
  BY <1>4 DEF Provided
<1>5. ASSUME NEW a \in Apps, NEW id \in Ids, Begin(a, id), j = id PROVE Lasting(j)
  BY <1>4, <1>5, BeginMoves DEF Lasting
<1>6. ASSUME NEW a \in Apps, NEW id \in Ids, MarkRefreshing(a, id), j = id PROVE Lasting(j)
  BY <1>4, <1>6, MarkMoves DEF Lasting, ProvidedAt
<1>7. ASSUME NEW a \in Apps, NEW id \in Ids, Write(a, id), j = id PROVE Lasting(j)
  BY <1>4, <1>7, WriteMoves DEF Lasting, ProvidedAt
<1>8. ASSUME NEW a \in Apps, NEW id \in Ids, NoRefreshToken(a, id), j = id PROVE Lasting(j)
  BY <1>4, <1>8, NothingMoves DEF Lasting
<1>9. ASSUME NEW a \in Apps, NEW id \in Ids, ReceiveToken(a, id), j = id PROVE Lasting(j)
  BY <1>4, <1>9, TokenMoves DEF Lasting
<1>10. ASSUME NEW a \in Apps, NEW id \in Ids, NEW reused \in BOOLEAN,
             ReceiveRefusal(a, id, reused), j = id
      PROVE  Lasting(j)
  BY <1>4, <1>10, RefusalMoves DEF Lasting
<1>11. ASSUME NEW a \in Apps, NEW id \in Ids, WaitEnds(a, id), j = id PROVE Lasting(j)
  BY <1>4, <1>11, WaitMoves DEF Lasting
<1>12. ASSUME NEW a \in Apps, NEW id \in Ids, AttemptFails(a, id), j = id PROVE Lasting(j)
  BY <1>4, <1>12, FailMoves DEF Lasting
<1>13. ASSUME NEW a \in Apps, NEW id \in Ids, VendorRotates(a, id), j = id PROVE Lasting(j)
  BY <1>4, <1>13, RotatesMoves DEF Lasting
<1>14. ASSUME NEW a \in Apps, NEW id \in Ids, VendorKeeps(a, id), j = id PROVE Lasting(j)
  BY <1>4, <1>14, KeepsMoves DEF Lasting
<1>15. ASSUME NEW a \in Apps, NEW id \in Ids, VendorRefuses(a, id), j = id PROVE Lasting(j)
  BY <1>4, <1>15, RefusesMoves DEF Lasting
<1> QED
  BY <1>1, <1>2, <1>3, <1>4, <1>5, <1>6, <1>7, <1>8, <1>9, <1>10, <1>11, <1>12, <1>13,
     <1>14, <1>15
     DEF Next, RefreshStep, VendorStep, AttemptCancelled, Refreshes

\* It is the same everywhere after a step.
LEMMA ProvidedNext ==
  ASSUME TypeOK, Shape, Provided, [Next]_vars, NEW b \in Apps, NEW j \in Ids
  PROVE  ProvidedAt(b, j)'
<1>00. Lasting(j)
  BY ProviderLasts
<1>0. ProvidedAt(b, j) /\ Lasting(j) /\ loaded \in Int /\ b \in Int /\ (b \in started => b <= loaded) /\ store[j] \in Row
  BY <1>00 DEF Shape, TypeOK, Apps, Provided
<1>1. ASSUME NEW a \in Apps, Provision(a) PROVE ProvidedAt(b, j)'
  BY <1>0, <1>1, ProvisionMoves, LoadedIs DEF ProvidedAt, Lasting
<1>2. ASSUME NEW a \in Apps, Start(a) PROVE ProvidedAt(b, j)'
  BY <1>0, <1>2 DEF Start, ProvidedAt, Lasting
<1>3. ASSUME NEW a \in Apps, Stop(a) PROVE ProvidedAt(b, j)'
  BY <1>0, <1>3 DEF Stop, ProvidedAt, Lasting
<1>4. CASE UNCHANGED vars
  BY <1>0, <1>4 DEF vars, ProvidedAt, Lasting
<1>5. ASSUME NEW a \in Apps, NEW id \in Ids, Refreshes(a, id), ~(b = a /\ j = id)
      PROVE  ProvidedAt(b, j)'
  <2>1. loaded' = loaded /\ refresh'[b][j] = refresh[b][j] /\ creds'[b][j] = creds[b][j]
    BY <1>5, LocalStep DEF Local, Elsewhere, OnlyBy
  <2> QED
    BY <1>0, <2>1 DEF ProvidedAt, Lasting
<1>6. ASSUME NEW a \in Apps, NEW id \in Ids, Begin(a, id), b = a, j = id
      PROVE  ProvidedAt(b, j)'
  BY <1>0, <1>6, BeginMoves DEF ProvidedAt, Lasting
<1>7. ASSUME NEW a \in Apps, NEW id \in Ids, MarkRefreshing(a, id), b = a, j = id
      PROVE  ProvidedAt(b, j)'
  BY <1>0, <1>7, MarkMoves DEF ProvidedAt, Lasting
<1>8. ASSUME NEW a \in Apps, NEW id \in Ids, Write(a, id), b = a, j = id
      PROVE  ProvidedAt(b, j)'
  BY <1>0, <1>8, WriteMoves DEF ProvidedAt, Lasting
<1>9. ASSUME NEW a \in Apps, NEW id \in Ids, NoRefreshToken(a, id), b = a, j = id
      PROVE  ProvidedAt(b, j)'
  BY <1>0, <1>9, NothingMoves DEF ProvidedAt, Lasting
<1>10. ASSUME NEW a \in Apps, NEW id \in Ids, ReceiveToken(a, id), b = a, j = id
      PROVE  ProvidedAt(b, j)'
  BY <1>0, <1>10, TokenMoves DEF ProvidedAt, Lasting
<1>11. ASSUME NEW a \in Apps, NEW id \in Ids, NEW reused \in BOOLEAN,
             ReceiveRefusal(a, id, reused), b = a, j = id
      PROVE  ProvidedAt(b, j)'
  BY <1>0, <1>11, RefusalMoves DEF ProvidedAt, Lasting
<1>12. ASSUME NEW a \in Apps, NEW id \in Ids, WaitEnds(a, id), b = a, j = id
      PROVE  ProvidedAt(b, j)'
  BY <1>0, <1>12, WaitMoves DEF ProvidedAt, Lasting
<1>13. ASSUME NEW a \in Apps, NEW id \in Ids, AttemptFails(a, id), b = a, j = id
      PROVE  ProvidedAt(b, j)'
  BY <1>0, <1>13, FailMoves DEF ProvidedAt, Lasting
<1>14. ASSUME NEW a \in Apps, NEW id \in Ids, VendorRotates(a, id), b = a, j = id
      PROVE  ProvidedAt(b, j)'
  BY <1>0, <1>14, RotatesMoves DEF ProvidedAt, Lasting
<1>15. ASSUME NEW a \in Apps, NEW id \in Ids, VendorKeeps(a, id), b = a, j = id
      PROVE  ProvidedAt(b, j)'
  BY <1>0, <1>15, KeepsMoves DEF ProvidedAt, Lasting
<1>16. ASSUME NEW a \in Apps, NEW id \in Ids, VendorRefuses(a, id), b = a, j = id
      PROVE  ProvidedAt(b, j)'
  BY <1>0, <1>16, RefusesMoves DEF ProvidedAt, Lasting
<1> QED
  BY <1>1, <1>2, <1>3, <1>4, <1>5, <1>6, <1>7, <1>8, <1>9, <1>10, <1>11, <1>12, <1>13,
     <1>14, <1>15, <1>16
     DEF Next, RefreshStep, VendorStep, AttemptCancelled, Refreshes

\* Copies and answers have the provider of their row in every state.
LEMMA HasProvider == Spec => []Provided
<1>1. Init => Provided
  <2>1. Idle.pc = "idle"
    BY DEF Idle
  <2> QED
    BY <2>1 DEF Init, Provided, ProvidedAt, Apps
<1>2. TypeOK /\ Shape /\ Provided /\ [Next]_vars => Provided'
  BY ProvidedNext DEF Provided
<1> QED
  BY Typed, <1>1, <1>2, PTL DEF Spec

\* In a refresh of codex every reuse but the last was followed by a refusal
\* that was not heard, and so was the last once another attempt may follow.
HeardAt(b, j) ==
  store[j].provider = "codex" =>
    /\ refresh[b][j].reuses <= refresh[b][j].unheard + 1
    /\ refresh[b][j].pc = "answer" /\ ~refresh[b][j].got.ok =>
         refresh[b][j].reuses = refresh[b][j].unheard + 1
    /\ refresh[b][j].pc = "answer" /\ refresh[b][j].got.ok =>
         refresh[b][j].reuses = refresh[b][j].unheard
    /\ refresh[b][j].pc \notin {"answer", "write"} =>
         refresh[b][j].reuses = refresh[b][j].unheard

Heard == \A b \in Apps, j \in Ids : HeardAt(b, j)

\* The counts of a refresh keep in step.
LEMMA HeardNext ==
  ASSUME TypeOK, Shape, Provided, Heard, [Next]_vars, NEW b \in Apps, NEW j \in Ids
  PROVE  HeardAt(b, j)'
<1>00. Lasting(j)
  BY ProviderLasts
<1>0. /\ HeardAt(b, j) /\ ProvidedAt(b, j) /\ Lasting(j)
      /\ refresh[b][j].reuses \in Nat /\ refresh[b][j].unheard \in Nat
  BY <1>00 DEF Shape, TypeOK, Apps, Provided, Heard, Refresh
<1>1. ASSUME NEW a \in Apps, Provision(a) PROVE HeardAt(b, j)'
  BY <1>0, <1>1, ProvisionMoves, LoadedIs DEF HeardAt, Lasting, ProvidedAt
<1>2. ASSUME NEW a \in Apps, Start(a) PROVE HeardAt(b, j)'
  BY <1>0, <1>2 DEF Start, HeardAt, Lasting, ProvidedAt
<1>3. ASSUME NEW a \in Apps, Stop(a) PROVE HeardAt(b, j)'
  BY <1>0, <1>3 DEF Stop, HeardAt, Lasting, ProvidedAt
<1>4. CASE UNCHANGED vars
  BY <1>0, <1>4 DEF vars, HeardAt, Lasting, ProvidedAt
<1>5. ASSUME NEW a \in Apps, NEW id \in Ids, Refreshes(a, id), ~(b = a /\ j = id)
      PROVE  HeardAt(b, j)'
  BY <1>0, <1>5, LocalStep DEF HeardAt, Local, Elsewhere, OnlyBy, Lasting
<1>6. ASSUME NEW a \in Apps, NEW id \in Ids, Begin(a, id), b = a, j = id
      PROVE  HeardAt(b, j)'
  BY <1>0, <1>6, BeginMoves DEF HeardAt, Lasting, ProvidedAt
<1>7. ASSUME NEW a \in Apps, NEW id \in Ids, MarkRefreshing(a, id), b = a, j = id
      PROVE  HeardAt(b, j)'
  BY <1>0, <1>7, MarkMoves DEF HeardAt, Lasting, ProvidedAt
<1>8. ASSUME NEW a \in Apps, NEW id \in Ids, Write(a, id), b = a, j = id
      PROVE  HeardAt(b, j)'
  BY <1>0, <1>8, WriteMoves DEF HeardAt, Lasting, ProvidedAt
<1>9. ASSUME NEW a \in Apps, NEW id \in Ids, NoRefreshToken(a, id), b = a, j = id
      PROVE  HeardAt(b, j)'
  BY <1>0, <1>9, NothingMoves DEF HeardAt, Lasting, ProvidedAt
<1>10. ASSUME NEW a \in Apps, NEW id \in Ids, ReceiveToken(a, id), b = a, j = id
      PROVE  HeardAt(b, j)'
  BY <1>0, <1>10, TokenMoves DEF HeardAt, Lasting, ProvidedAt
<1>11. ASSUME NEW a \in Apps, NEW id \in Ids, NEW reused \in BOOLEAN,
             ReceiveRefusal(a, id, reused), b = a, j = id
      PROVE  HeardAt(b, j)'
  BY <1>0, <1>11, RefusalMoves DEF HeardAt, Lasting, ProvidedAt
<1>12. ASSUME NEW a \in Apps, NEW id \in Ids, WaitEnds(a, id), b = a, j = id
      PROVE  HeardAt(b, j)'
  BY <1>0, <1>12, WaitMoves DEF HeardAt, Lasting, ProvidedAt
<1>13. ASSUME NEW a \in Apps, NEW id \in Ids, AttemptFails(a, id), b = a, j = id
      PROVE  HeardAt(b, j)'
  BY <1>0, <1>13, FailMoves DEF HeardAt, Lasting, ProvidedAt
<1>14. ASSUME NEW a \in Apps, NEW id \in Ids, VendorRotates(a, id), b = a, j = id
      PROVE  HeardAt(b, j)'
  BY <1>0, <1>14, RotatesMoves DEF HeardAt, Lasting, ProvidedAt
<1>15. ASSUME NEW a \in Apps, NEW id \in Ids, VendorKeeps(a, id), b = a, j = id
      PROVE  HeardAt(b, j)'
  BY <1>0, <1>15, KeepsMoves DEF HeardAt, Lasting, ProvidedAt
<1>16. ASSUME NEW a \in Apps, NEW id \in Ids, VendorRefuses(a, id), b = a, j = id
      PROVE  HeardAt(b, j)'
  BY <1>0, <1>16, RefusesMoves DEF HeardAt, Lasting, ProvidedAt
<1> QED
  BY <1>1, <1>2, <1>3, <1>4, <1>5, <1>6, <1>7, <1>8, <1>9, <1>10, <1>11, <1>12, <1>13,
     <1>14, <1>15, <1>16
     DEF Next, RefreshStep, VendorStep, AttemptCancelled, Refreshes

\* The counts are in step at all times.
LEMMA HeardAlways == Spec => []Heard
<1>1. Init => Heard
  <2>1. Idle.pc = "idle" /\ Idle.reuses = 0 /\ Idle.unheard = 0
    BY DEF Idle
  <2> QED
    BY <2>1 DEF Init, Heard, HeardAt
<1>2. TypeOK /\ Shape /\ Provided /\ Heard /\ [Next]_vars => Heard'
  BY HeardNext DEF Heard
<1> QED
  BY Typed, HasProvider, <1>1, <1>2, PTL DEF Spec

-----------------------------------------------------------------------------
(* The presence of the refresh token *)

\* A refresh token is present wherever the credential is, and in an answer
\* unless the vendor may leave it out.
KeptAt(b, j) ==
  Sent(j) =>
    /\ b <= loaded => creds[b][j].token # 0
    /\ refresh[b][j].pc # "idle" => refresh[b][j].snap.token # 0
    /\ refresh[b][j].pc = "write" => refresh[b][j].out.token # 0
    /\ refresh[b][j].pc = "answer" /\ refresh[b][j].got.ok =>
         refresh[b][j].got.token # 0 \/ store[j].provider = "gemini"

KeptRow(j) == Sent(j) => store[j].token # 0

Kept ==
  /\ \A b \in Apps, j \in Ids : KeptAt(b, j)
  /\ \A j \in Ids : KeptRow(j)

\* Whether a credential needs the vendor's refresh token is for good.
LEMMA SentLasts ==
  ASSUME NEW j \in Ids, Lasting(j)
  PROVE  Sent(j)' <=> Sent(j)
BY DEF Lasting, Sent

\* What is written to a row has a refresh token.
LEMMA KeptRowNext ==
  ASSUME TypeOK, Shape, Provided, Kept, [Next]_vars, NEW j \in Ids
  PROVE  KeptRow(j)'
<1>0. KeptRow(j) /\ (Sent(j)' <=> Sent(j))
  BY ProviderLasts, SentLasts DEF Kept
<1>1. ASSUME NEW a \in Apps, Provision(a) \/ Start(a) \/ Stop(a) PROVE store' = store
  BY <1>1 DEF Provision, Start, Stop
<1>2. CASE UNCHANGED vars
  BY <1>0, <1>2 DEF vars, KeptRow
<1>3. ASSUME NEW a \in Apps, NEW id \in Ids, Refreshes(a, id), j # id PROVE KeptRow(j)'
  BY <1>0, <1>3, LocalStep DEF Local, OnlyBy, KeptRow
<1>4. ASSUME NEW a \in Apps, NEW id \in Ids PROVE KeptAt(a, id)
  BY <1>4 DEF Kept
<1>5. ASSUME NEW a \in Apps, NEW id \in Ids, Begin(a, id), j = id PROVE KeptRow(j)'
  BY <1>0, <1>5, BeginMoves DEF KeptRow
<1>6. ASSUME NEW a \in Apps, NEW id \in Ids, MarkRefreshing(a, id), j = id PROVE KeptRow(j)'
  <2>1. Sent(j) => refresh[a][id].snap.token # 0
    BY <1>4, <1>6, MarkMoves DEF KeptAt
  <2>2. store'[id].token = refresh[a][id].snap.token \/ store'[id] = store[id]
    BY <1>6, MarkMoves
  <2> QED
    BY <1>0, <1>6, <2>1, <2>2 DEF KeptRow
<1>7. ASSUME NEW a \in Apps, NEW id \in Ids, Write(a, id), j = id PROVE KeptRow(j)'
  <2>1. Sent(j) => refresh[a][id].out.token # 0
    BY <1>4, <1>7, WriteMoves DEF KeptAt
  <2>2. store'[id].token = refresh[a][id].out.token \/ store'[id] = store[id]
    BY <1>7, WriteMoves
  <2> QED
    BY <1>0, <1>7, <2>1, <2>2 DEF KeptRow
<1>8. ASSUME NEW a \in Apps, NEW id \in Ids, NoRefreshToken(a, id), j = id PROVE KeptRow(j)'
  BY <1>0, <1>8, NothingMoves DEF KeptRow
<1>9. ASSUME NEW a \in Apps, NEW id \in Ids, ReceiveToken(a, id), j = id PROVE KeptRow(j)'
  BY <1>0, <1>9, TokenMoves DEF KeptRow
<1>10. ASSUME NEW a \in Apps, NEW id \in Ids, NEW reused \in BOOLEAN,
             ReceiveRefusal(a, id, reused), j = id
      PROVE  KeptRow(j)'
  BY <1>0, <1>10, RefusalMoves DEF KeptRow
<1>11. ASSUME NEW a \in Apps, NEW id \in Ids, WaitEnds(a, id), j = id PROVE KeptRow(j)'
  BY <1>0, <1>11, WaitMoves DEF KeptRow
<1>12. ASSUME NEW a \in Apps, NEW id \in Ids, AttemptFails(a, id), j = id PROVE KeptRow(j)'
  BY <1>0, <1>12, FailMoves DEF KeptRow
<1>13. ASSUME NEW a \in Apps, NEW id \in Ids, VendorRotates(a, id), j = id PROVE KeptRow(j)'
  BY <1>0, <1>13, RotatesMoves DEF KeptRow
<1>14. ASSUME NEW a \in Apps, NEW id \in Ids, VendorKeeps(a, id), j = id PROVE KeptRow(j)'
  BY <1>0, <1>14, KeepsMoves DEF KeptRow
<1>15. ASSUME NEW a \in Apps, NEW id \in Ids, VendorRefuses(a, id), j = id PROVE KeptRow(j)'
  BY <1>0, <1>15, RefusesMoves DEF KeptRow
<1>16. ASSUME NEW a \in Apps, Provision(a) \/ Start(a) \/ Stop(a) PROVE KeptRow(j)'
  BY <1>0, <1>1, <1>16 DEF KeptRow
<1> QED
  BY <1>2, <1>3, <1>4, <1>5, <1>6, <1>7, <1>8, <1>9, <1>10, <1>11, <1>12, <1>13, <1>14,
     <1>15, <1>16
     DEF Next, RefreshStep, VendorStep, AttemptCancelled, Refreshes

\* Every copy keeps a refresh token.
LEMMA KeptNext ==
  ASSUME TypeOK, Shape, Provided, Kept, [Next]_vars, NEW b \in Apps, NEW j \in Ids
  PROVE  KeptAt(b, j)'
<1>00. Lasting(j) /\ (Sent(j)' <=> Sent(j))
  BY ProviderLasts, SentLasts
<1>0. /\ KeptAt(b, j) /\ KeptRow(j) /\ ProvidedAt(b, j) /\ Lasting(j)
      /\ (Sent(j)' <=> Sent(j)) /\ loaded \in Int /\ b \in Int
      /\ (b \in started => b <= loaded) /\ store[j] \in Row /\ live[j] \in Nat
  BY <1>00 DEF Shape, TypeOK, Apps, Provided, Kept
<1>1. ASSUME NEW a \in Apps, Provision(a) PROVE KeptAt(b, j)'
  <2>1. /\ b <= loaded' => b = a \/ b <= loaded
        /\ b = a => creds'[b][j].token = store[j].token
        /\ b # a => creds'[b][j] = creds[b][j]
        /\ refresh' = refresh /\ store' = store
    BY <1>0, <1>1, ProvisionMoves, LoadedIs
  <2> QED
    BY <1>0, <2>1 DEF KeptAt, KeptRow
<1>2. ASSUME NEW a \in Apps, Start(a) PROVE KeptAt(b, j)'
  BY <1>0, <1>2 DEF Start, KeptAt, Lasting
<1>3. ASSUME NEW a \in Apps, Stop(a) PROVE KeptAt(b, j)'
  BY <1>0, <1>3 DEF Stop, KeptAt, Lasting
<1>4. CASE UNCHANGED vars
  BY <1>0, <1>4 DEF vars, KeptAt, Lasting
<1>5. ASSUME NEW a \in Apps, NEW id \in Ids, Refreshes(a, id), ~(b = a /\ j = id)
      PROVE  KeptAt(b, j)'
  <2>1. loaded' = loaded /\ refresh'[b][j] = refresh[b][j] /\ creds'[b][j] = creds[b][j]
    BY <1>5, LocalStep DEF Local, Elsewhere, OnlyBy
  <2> QED
    BY <1>0, <2>1 DEF KeptAt, Lasting
<1>6. ASSUME NEW a \in Apps, NEW id \in Ids, Begin(a, id), b = a, j = id
      PROVE  KeptAt(b, j)'
  BY <1>0, <1>6, BeginMoves DEF KeptAt, Lasting
<1>7. ASSUME NEW a \in Apps, NEW id \in Ids, MarkRefreshing(a, id), b = a, j = id
      PROVE  KeptAt(b, j)'
  BY <1>0, <1>7, MarkMoves DEF KeptAt, Lasting
<1>8. ASSUME NEW a \in Apps, NEW id \in Ids, Write(a, id), b = a, j = id
      PROVE  KeptAt(b, j)'
  BY <1>0, <1>8, WriteMoves DEF KeptAt, Lasting
<1>9. ASSUME NEW a \in Apps, NEW id \in Ids, NoRefreshToken(a, id), b = a, j = id
      PROVE  KeptAt(b, j)'
  BY <1>0, <1>9, NothingMoves DEF KeptAt, Lasting
<1>10. ASSUME NEW a \in Apps, NEW id \in Ids, ReceiveToken(a, id), b = a, j = id
      PROVE  KeptAt(b, j)'
  <2> DEFINE row == refresh[a][id].snap
  <2> DEFINE n == refresh[a][id].got.token
  <2>1. row \in Row /\ n \in Nat /\ refresh'[a][id].out.token = NewToken(row, n)
    BY <1>10, TokenMoves
  <2>2. Sent(j) => row.token # 0 /\ (n # 0 \/ row.provider = "gemini")
    BY <1>0, <1>10, TokenMoves DEF KeptAt, ProvidedAt
  <2>3. Sent(j) => refresh'[a][id].out.token # 0
    <3> HIDE DEF row, n
    <3> QED BY <2>1, <2>2, NewTokenIs
  <2> QED
    BY <1>0, <1>10, <2>3, TokenMoves DEF KeptAt, Lasting
<1>11. ASSUME NEW a \in Apps, NEW id \in Ids, NEW reused \in BOOLEAN,
             ReceiveRefusal(a, id, reused), b = a, j = id
      PROVE  KeptAt(b, j)'
  BY <1>0, <1>11, RefusalMoves DEF KeptAt, Lasting
<1>12. ASSUME NEW a \in Apps, NEW id \in Ids, WaitEnds(a, id), b = a, j = id
      PROVE  KeptAt(b, j)'
  BY <1>0, <1>12, WaitMoves DEF KeptAt, Lasting
<1>13. ASSUME NEW a \in Apps, NEW id \in Ids, AttemptFails(a, id), b = a, j = id
      PROVE  KeptAt(b, j)'
  BY <1>0, <1>13, FailMoves DEF KeptAt, Lasting
<1>14. ASSUME NEW a \in Apps, NEW id \in Ids, VendorRotates(a, id), b = a, j = id
      PROVE  KeptAt(b, j)'
  <2>1. live[id] + 1 # 0
    BY <1>0, <1>14
  <2> QED
    BY <1>0, <1>14, <2>1, RotatesMoves DEF KeptAt, Lasting
<1>15. ASSUME NEW a \in Apps, NEW id \in Ids, VendorKeeps(a, id), b = a, j = id
      PROVE  KeptAt(b, j)'
  <2>1. Sent(j) => store[j].provider = "gemini"
    BY <1>0, <1>15, KeepsMoves DEF Sent, ProvidedAt
  <2> QED
    BY <1>0, <1>15, <2>1, KeepsMoves DEF KeptAt, Lasting
<1>16. ASSUME NEW a \in Apps, NEW id \in Ids, VendorRefuses(a, id), b = a, j = id
      PROVE  KeptAt(b, j)'
  BY <1>0, <1>16, RefusesMoves DEF KeptAt, Lasting
<1> QED
  BY <1>1, <1>2, <1>3, <1>4, <1>5, <1>6, <1>7, <1>8, <1>9, <1>10, <1>11, <1>12, <1>13,
     <1>14, <1>15, <1>16
     DEF Next, RefreshStep, VendorStep, AttemptCancelled, Refreshes

\* No refresh leaves a gemini credential, or one whose vendor sends a refresh
\* token each time, without a refresh token.
THEOREM TokenKept == Spec => []RefreshTokenIsKept
<1>1. Init => Kept
  <2>1. Idle.pc = "idle"
    BY DEF Idle
  <2>2. Init => \A j \in Ids : store[j].token = 1
    BY DEF Init
  <2> QED
    BY <2>1, <2>2 DEF Init, Kept, KeptAt, KeptRow, Apps
<1>2. TypeOK /\ Shape /\ Provided /\ Kept /\ [Next]_vars => Kept'
  BY KeptNext, KeptRowNext DEF Kept
<1>3. TypeOK /\ Shape /\ Kept => RefreshTokenIsKept
  BY DEF TypeOK, Apps, Shape, ShapeAt, Kept, KeptAt, KeptRow, RefreshTokenIsKept
<1> QED
  BY Typed, HasProvider, <1>1, <1>2, <1>3, PTL DEF Spec

-----------------------------------------------------------------------------
(* The vendor's latest token *)

\* Nothing has gone wrong with the credential that the manager could not help.
Safe(j) == j \notin crossed /\ j \notin lost

\* Then only the newest app refreshes it, what it presents, receives and writes
\* is the vendor's latest token, or none, and no spent token was shown,
CurrentAt(b, j) ==
  Safe(j) =>
    /\ refresh[b][j].pc # "idle" => b = loaded
    /\ refresh[b][j].reuses = 0
    /\ refresh[b][j].pc \in {"mark", "call", "wait"} => refresh[b][j].snap.token \in {0, live[j]}
    /\ refresh[b][j].pc = "answer" =>
         /\ refresh[b][j].got.ok
         /\ \/ refresh[b][j].got.token = live[j]
            \/ refresh[b][j].got.token = 0 /\ refresh[b][j].snap.token \in {0, live[j]}
    /\ refresh[b][j].pc = "write" => refresh[b][j].out.token \in {0, live[j]}

\* which the row and the newest copy have when no refresh is under way.
RestAt(j) ==
  /\ live[j] # 0
  /\ Safe(j) /\ Quiet(j) =>
       /\ store[j].token \in {0, live[j]}
       /\ loaded > 0 => creds[loaded][j].token \in {0, live[j]}

Current ==
  /\ \A b \in Apps, j \in Ids : CurrentAt(b, j)
  /\ \A j \in Ids : RestAt(j)

\* What was wrong stays wrong.
LEMMA SafeBefore ==
  ASSUME TypeOK, Shape, Provided, [Next]_vars, NEW j \in Ids, Safe(j)'
  PROVE  Safe(j)
<1>1. crossed \subseteq crossed' /\ lost \subseteq lost'
  <2>1. ASSUME NEW a \in Apps, Provision(a) PROVE crossed \subseteq crossed' /\ lost \subseteq lost'
    BY <2>1, ProvisionMoves
  <2>2. ASSUME NEW a \in Apps, Start(a) \/ Stop(a)
        PROVE  crossed \subseteq crossed' /\ lost \subseteq lost'
    BY <2>2 DEF Start, Stop
  <2>3. ASSUME NEW a \in Apps, NEW id \in Ids, Refreshes(a, id)
        PROVE  crossed \subseteq crossed' /\ lost \subseteq lost'
    BY <2>3, LocalStep DEF Local
  <2>4. CASE UNCHANGED vars
    BY <2>4 DEF vars
  <2> QED
    BY <2>1, <2>2, <2>3, <2>4 DEF Next, Refreshes
<1> QED
  BY <1>1 DEF Safe

\* The goroutine of a safe credential is the newest app's.
LEMMA Newest ==
  ASSUME TypeOK, Shape, Provided, Current, [Next]_vars,
         NEW a \in Apps, NEW id \in Ids, Refreshes(a, id), Safe(id)'
  PROVE  a = loaded /\ ~Cancelled(a)
<1>0. /\ CurrentAt(a, id) /\ Safe(id) /\ Bounded /\ loaded \in Int /\ a \in Int
      /\ (a \in started => a <= loaded)
  BY SafeBefore DEF Current, Shape, TypeOK, Apps
<1>1. CASE Begin(a, id)
  BY <1>0, <1>1, BeginMoves DEF Safe, Cancelled
<1>2. CASE MarkRefreshing(a, id)
  BY <1>0, <1>2, MarkMoves DEF CurrentAt, Bounded, Cancelled
<1>3. CASE Write(a, id)
  BY <1>0, <1>3, WriteMoves DEF CurrentAt, Bounded, Cancelled
<1>4. CASE NoRefreshToken(a, id)
  BY <1>0, <1>4, NothingMoves DEF CurrentAt, Bounded, Cancelled
<1>5. CASE ReceiveToken(a, id)
  BY <1>0, <1>5, TokenMoves DEF CurrentAt, Bounded, Cancelled
<1>6. ASSUME NEW reused \in BOOLEAN, ReceiveRefusal(a, id, reused)
      PROVE  a = loaded /\ ~Cancelled(a)
  BY <1>0, <1>6, RefusalMoves DEF CurrentAt, Bounded, Cancelled
<1>7. CASE WaitEnds(a, id)
  BY <1>0, <1>7, WaitMoves DEF CurrentAt, Bounded, Cancelled
<1>8. CASE AttemptFails(a, id)
  BY <1>0, <1>8, FailMoves DEF CurrentAt, Bounded, Cancelled
<1>9. CASE VendorRotates(a, id)
  BY <1>0, <1>9, RotatesMoves DEF CurrentAt, Bounded, Cancelled
<1>10. CASE VendorKeeps(a, id)
  BY <1>0, <1>10, KeepsMoves DEF CurrentAt, Bounded, Cancelled
<1>11. CASE VendorRefuses(a, id)
  BY <1>0, <1>11, RefusesMoves DEF CurrentAt, Bounded, Cancelled
<1> QED
  BY <1>1, <1>2, <1>3, <1>4, <1>5, <1>6, <1>7, <1>8, <1>9, <1>10, <1>11
     DEF Refreshes, RefreshStep, VendorStep, AttemptCancelled

\* Row and newest copy stay current.
LEMMA RestNext ==
  ASSUME TypeOK, Shape, Provided, Current, [Next]_vars, NEW j \in Ids
  PROVE  RestAt(j)'
<1>0. RestAt(j) /\ (Safe(j)' => Safe(j)) /\ live[j] \in Nat /\ loaded \in Nat
  BY SafeBefore DEF Current, TypeOK
<1>1. ASSUME NEW a \in Apps, Provision(a) PROVE RestAt(j)'
  <2>1. live'[j] = live[j] /\ store' = store
    BY <1>1, ProvisionMoves
  <2>2. Safe(j)' => Safe(j) /\ Quiet(j)
    BY <1>0, <1>1, ProvisionMoves DEF Safe
  <2>3. creds'[loaded'][j].token = store[j].token
    <3>1. loaded' = a /\ creds'[a][j] = Loaded(store[j])
      BY <1>1, ProvisionMoves
    <3>2. store[j] \in Row
      BY DEF TypeOK
    <3> QED
      BY <3>1, <3>2, LoadedIs
  <2> QED
    BY <1>0, <2>1, <2>2, <2>3 DEF RestAt
<1>2. ASSUME NEW a \in Apps, Start(a) \/ Stop(a) PROVE RestAt(j)'
  BY <1>0, <1>2 DEF Start, Stop, RestAt, Quiet
<1>3. CASE UNCHANGED vars
  BY <1>0, <1>3 DEF vars, RestAt, Quiet
<1>4. ASSUME NEW a \in Apps, NEW id \in Ids, Refreshes(a, id), j # id PROVE RestAt(j)'
  <2>1. Quiet(j)' => Quiet(j)
    BY <1>4, LocalStep DEF Local, Elsewhere, Quiet
  <2>2. loaded' = loaded /\ store'[j] = store[j] /\ live'[j] = live[j]
    BY <1>4, LocalStep DEF Local, OnlyBy
  <2>3. loaded > 0 => creds'[loaded][j] = creds[loaded][j]
    BY <1>4, LocalStep DEF Local, OnlyBy, TypeOK, Apps
  <2> QED
    BY <1>0, <2>1, <2>2, <2>3 DEF RestAt
<1>5. ASSUME NEW a \in Apps, NEW id \in Ids, Begin(a, id), j = id PROVE RestAt(j)'
  <2>1. ~Quiet(j)' /\ live'[j] # 0
    BY <1>0, <1>5, BeginMoves DEF Quiet, RestAt
  <2> QED
    BY <2>1 DEF RestAt
<1>6. ASSUME NEW a \in Apps, NEW id \in Ids, MarkRefreshing(a, id), j = id PROVE RestAt(j)'
  <2>1. ~Quiet(j)' /\ live'[j] # 0
    BY <1>0, <1>6, MarkMoves DEF Quiet, RestAt
  <2> QED
    BY <2>1 DEF RestAt
<1>7. ASSUME NEW a \in Apps, NEW id \in Ids, Write(a, id), j = id PROVE RestAt(j)'
  <2>1. Safe(j)' => a = loaded /\ ~Cancelled(a)
    BY <1>7, Newest DEF Refreshes, RefreshStep
  <2>2. Safe(j)' => refresh[a][id].out.token \in {0, live[id]}
    BY <1>0, <1>7, WriteMoves DEF Current, CurrentAt
  <2>3. loaded' = loaded /\ live' = live
    BY <1>7, WriteMoves
  <2>4. ~Cancelled(a) => store'[id] = refresh[a][id].out /\ creds'[a][id] = refresh[a][id].out
    BY <1>7, WriteMoves
  <2> QED
    BY <1>0, <1>7, <2>1, <2>2, <2>3, <2>4 DEF RestAt
<1>8. ASSUME NEW a \in Apps, NEW id \in Ids, NoRefreshToken(a, id), j = id PROVE RestAt(j)'
  <2>1. ~Quiet(j)' /\ live'[j] # 0
    BY <1>0, <1>8, NothingMoves DEF Quiet, RestAt
  <2> QED
    BY <2>1 DEF RestAt
<1>9. ASSUME NEW a \in Apps, NEW id \in Ids, ReceiveToken(a, id), j = id PROVE RestAt(j)'
  <2>1. ~Quiet(j)' /\ live'[j] # 0
    BY <1>0, <1>9, TokenMoves DEF Quiet, RestAt
  <2> QED
    BY <2>1 DEF RestAt
<1>10. ASSUME NEW a \in Apps, NEW id \in Ids, NEW reused \in BOOLEAN,
             ReceiveRefusal(a, id, reused), j = id
      PROVE  RestAt(j)'
  <2>1. ~Quiet(j)' /\ live'[j] # 0
    BY <1>0, <1>10, RefusalMoves DEF Quiet, RestAt
  <2> QED
    BY <2>1 DEF RestAt
<1>11. ASSUME NEW a \in Apps, NEW id \in Ids, WaitEnds(a, id), j = id PROVE RestAt(j)'
  <2>1. ~Quiet(j)' /\ live'[j] # 0
    BY <1>0, <1>11, WaitMoves DEF Quiet, RestAt
  <2> QED
    BY <2>1 DEF RestAt
<1>12. ASSUME NEW a \in Apps, NEW id \in Ids, AttemptFails(a, id), j = id PROVE RestAt(j)'
  <2>1. ~Quiet(j)' /\ live'[j] # 0
    BY <1>0, <1>12, FailMoves DEF Quiet, RestAt
  <2> QED
    BY <2>1 DEF RestAt
<1>13. ASSUME NEW a \in Apps, NEW id \in Ids, VendorRotates(a, id), j = id PROVE RestAt(j)'
  <2>1. ~Quiet(j)' /\ live'[j] # 0
    BY <1>0, <1>13, RotatesMoves DEF Quiet, RestAt
  <2> QED
    BY <2>1 DEF RestAt
<1>14. ASSUME NEW a \in Apps, NEW id \in Ids, VendorKeeps(a, id), j = id PROVE RestAt(j)'
  <2>1. ~Quiet(j)' /\ live'[j] # 0
    BY <1>0, <1>14, KeepsMoves DEF Quiet, RestAt
  <2> QED
    BY <2>1 DEF RestAt
<1>15. ASSUME NEW a \in Apps, NEW id \in Ids, VendorRefuses(a, id), j = id PROVE RestAt(j)'
  <2>1. ~Quiet(j)' /\ live'[j] # 0
    BY <1>0, <1>15, RefusesMoves DEF Quiet, RestAt
  <2> QED
    BY <2>1 DEF RestAt
<1> QED
  BY <1>1, <1>2, <1>3, <1>4, <1>5, <1>6, <1>7, <1>8, <1>9, <1>10, <1>11, <1>12, <1>13,
     <1>14, <1>15
     DEF Next, RefreshStep, VendorStep, AttemptCancelled, Refreshes

\* The tokens in flight stay current.
LEMMA CurrentNext ==
  ASSUME TypeOK, Shape, Provided, Current, [Next]_vars, NEW b \in Apps, NEW j \in Ids
  PROVE  CurrentAt(b, j)'
<1>00. Lasting(j) /\ (Safe(j)' => Safe(j))
  BY ProviderLasts, SafeBefore
<1>0. /\ CurrentAt(b, j) /\ RestAt(j) /\ ProvidedAt(b, j) /\ Lasting(j)
      /\ (Safe(j)' => Safe(j)) /\ loaded \in Int /\ b \in Int /\ live[j] \in Nat
  BY <1>00 DEF TypeOK, Apps, Provided, Current
<1>1. ASSUME NEW a \in Apps, Provision(a) PROVE CurrentAt(b, j)'
  <2>1. Safe(j)' => Quiet(j)
    BY <1>1, ProvisionMoves DEF Safe
  <2>2. refresh' = refresh
    BY <1>1, ProvisionMoves
  <2> QED
    BY <1>0, <2>1, <2>2 DEF CurrentAt, Quiet
<1>2. ASSUME NEW a \in Apps, Start(a) PROVE CurrentAt(b, j)'
  BY <1>0, <1>2 DEF Start, CurrentAt
<1>3. ASSUME NEW a \in Apps, Stop(a) PROVE CurrentAt(b, j)'
  BY <1>0, <1>3 DEF Stop, CurrentAt
<1>4. CASE UNCHANGED vars
  BY <1>0, <1>4 DEF vars, CurrentAt
<1>5. ASSUME NEW a \in Apps, NEW id \in Ids, Refreshes(a, id), ~(b = a /\ j = id)
      PROVE  CurrentAt(b, j)'
  <2>1. loaded' = loaded /\ refresh'[b][j] = refresh[b][j] /\ (j # id => live'[j] = live[j])
    BY <1>5, LocalStep DEF Local, Elsewhere
  <2>2. CASE j # id
    BY <1>0, <2>1, <2>2 DEF CurrentAt, Lasting
  <2>3. CASE j = id
    <3>1. Safe(j)' => a = loaded
      BY <1>5, <2>3, Newest
    <3>2. Safe(j)' => refresh[b][j].pc = "idle"
      BY <1>0, <1>5, <2>3, <3>1 DEF CurrentAt
    <3> QED
      BY <1>0, <2>1, <3>2 DEF CurrentAt
  <2> QED
    BY <2>2, <2>3
<1>6. ASSUME NEW a \in Apps, NEW id \in Ids, Begin(a, id), b = a, j = id
      PROVE  CurrentAt(b, j)'
  <2>1. Safe(j)' => a = loaded
    BY <1>6, Newest DEF Refreshes
  <2>2. Safe(j)' => creds[loaded][j].token \in {0, live[j]}
    <3>1. ASSUME Safe(j)' PROVE Quiet(j)
      <4>1. ASSUME NEW c \in Apps PROVE refresh[c][j].pc = "idle"
        <5>1. CurrentAt(c, j) /\ Safe(j) /\ a = loaded
          BY <1>0, <2>1, <3>1, <4>1 DEF Current
        <5>2. refresh[a][j].pc = "idle"
          BY <1>6, BeginMoves
        <5> QED
          BY <5>1, <5>2 DEF CurrentAt
      <4> QED
        BY <4>1 DEF Quiet
    <3> QED
      BY <1>0, <1>6, <2>1, <3>1 DEF RestAt, Apps
  <2> QED
    BY <1>0, <1>6, <2>1, <2>2, BeginMoves DEF CurrentAt
<1>7. ASSUME NEW a \in Apps, NEW id \in Ids, MarkRefreshing(a, id), b = a, j = id
      PROVE  CurrentAt(b, j)'
  <2>1. Safe(j)' => a = loaded
    BY <1>7, Newest DEF Refreshes, RefreshStep
  <2> QED
    BY <1>0, <1>7, <2>1, MarkMoves DEF CurrentAt
<1>8. ASSUME NEW a \in Apps, NEW id \in Ids, Write(a, id), b = a, j = id
      PROVE  CurrentAt(b, j)'
  BY <1>8, WriteMoves DEF CurrentAt
<1>9. ASSUME NEW a \in Apps, NEW id \in Ids, NoRefreshToken(a, id), b = a, j = id
      PROVE  CurrentAt(b, j)'
  <2>1. Safe(j)' => a = loaded
    BY <1>9, Newest DEF Refreshes, RefreshStep
  <2> QED
    BY <1>0, <1>9, <2>1, NothingMoves DEF CurrentAt
<1>10. ASSUME NEW a \in Apps, NEW id \in Ids, ReceiveToken(a, id), b = a, j = id
      PROVE  CurrentAt(b, j)'
  <2>1. Safe(j)' => a = loaded
    BY <1>10, Newest DEF Refreshes, RefreshStep
  <2> DEFINE row == refresh[a][id].snap
  <2> DEFINE n == refresh[a][id].got.token
  <2>2. row \in Row /\ n \in Nat /\ refresh'[a][id].out.token = NewToken(row, n)
    BY <1>10, TokenMoves
  <2>3. Safe(j)' => \/ n = live[j] /\ live[j] # 0
                    \/ n = 0 /\ row.token \in {0, live[j]}
    BY <1>0, <1>10, TokenMoves DEF CurrentAt, ProvidedAt, RestAt
  <2>4. Safe(j)' => refresh'[a][id].out.token \in {0, live[j]}
    <3> HIDE DEF row, n
    <3> QED BY <2>2, <2>3, NewTokenIs
  <2> QED
    BY <1>0, <1>10, <2>1, <2>4, TokenMoves DEF CurrentAt
<1>11. ASSUME NEW a \in Apps, NEW id \in Ids, NEW reused \in BOOLEAN,
             ReceiveRefusal(a, id, reused), b = a, j = id
      PROVE  CurrentAt(b, j)'
  <2>1. ~Safe(j)'
    BY <1>0, <1>11, RefusalMoves DEF CurrentAt
  <2> QED
    BY <2>1 DEF CurrentAt
<1>12. ASSUME NEW a \in Apps, NEW id \in Ids, WaitEnds(a, id), b = a, j = id
      PROVE  CurrentAt(b, j)'
  <2>1. Safe(j)' => a = loaded
    BY <1>12, Newest DEF Refreshes, RefreshStep
  <2> QED
    BY <1>0, <1>12, <2>1, WaitMoves DEF CurrentAt
<1>13. ASSUME NEW a \in Apps, NEW id \in Ids, AttemptFails(a, id), b = a, j = id
      PROVE  CurrentAt(b, j)'
  <2>1. Safe(j)' => a = loaded
    BY <1>13, Newest DEF Refreshes, VendorStep
  <2>2. Safe(j)' => refresh[a][id].pc = "call"
    BY <1>0, <1>13, FailMoves DEF CurrentAt, Safe
  <2> QED
    BY <1>0, <1>13, <2>1, <2>2, FailMoves DEF CurrentAt
<1>14. ASSUME NEW a \in Apps, NEW id \in Ids, VendorRotates(a, id), b = a, j = id
      PROVE  CurrentAt(b, j)'
  <2>1. Safe(j)' => a = loaded
    BY <1>14, Newest DEF Refreshes, VendorStep
  <2> QED
    BY <1>0, <1>14, <2>1, RotatesMoves DEF CurrentAt
<1>15. ASSUME NEW a \in Apps, NEW id \in Ids, VendorKeeps(a, id), b = a, j = id
      PROVE  CurrentAt(b, j)'
  <2>1. Safe(j)' => a = loaded
    BY <1>15, Newest DEF Refreshes, VendorStep
  <2> QED
    BY <1>0, <1>15, <2>1, KeepsMoves DEF CurrentAt, Lasting
<1>16. ASSUME NEW a \in Apps, NEW id \in Ids, VendorRefuses(a, id), b = a, j = id
      PROVE  CurrentAt(b, j)'
  <2>1. ~Safe(j)'
    BY <1>0, <1>16, RefusesMoves DEF CurrentAt
  <2> QED
    BY <2>1 DEF CurrentAt
<1> QED
  BY <1>1, <1>2, <1>3, <1>4, <1>5, <1>6, <1>7, <1>8, <1>9, <1>10, <1>11, <1>12, <1>13,
     <1>14, <1>15, <1>16
     DEF Next, RefreshStep, VendorStep, AttemptCancelled, Refreshes

\* Current holds at all times.
LEMMA CurrentAlways == Spec => []Current
<1>1. Init => Current
  <2> SUFFICES ASSUME Init PROVE Current
    OBVIOUS
  <2>1. Idle.pc = "idle" /\ Idle.reuses = 0
    BY DEF Idle
  <2>2. \A b \in Apps, j \in Ids : CurrentAt(b, j)
    BY <2>1 DEF Init, CurrentAt
  <2>3. \A j \in Ids : store[j].token = 1 /\ live[j] = 1
    BY DEF Init
  <2>4. loaded = 0
    BY DEF Init
  <2> QED
    BY <2>2, <2>3, <2>4 DEF Current, RestAt
<1>2. TypeOK /\ Shape /\ Provided /\ Current /\ [Next]_vars => Current'
  BY CurrentNext, RestNext DEF Current
<1> QED
  BY Typed, HasProvider, <1>1, <1>2, PTL DEF Spec

\* However many configurations follow each other, a rotated refresh token is
\* the one the row and the newest app have once the refresh is over, unless a
\* reload crossed it, an answer was lost, or a codex or claude answer came
\* without one.
THEOREM TokenSurvives == Spec => []TokenSurvivesReload
<1>1. ASSUME TypeOK, Shape, Current, RefreshTokenIsKept  PROVE TokenSurvivesReload
  <2> SUFFICES ASSUME NEW id \in Ids, loaded > 0, Quiet(id), id \notin crossed \cup lost,
                      Sent(id)
               PROVE  store[id].token = live[id] /\ creds[loaded][id].token = live[id]
    BY DEF TokenSurvivesReload
  <2>1. loaded \in Apps /\ creds[loaded][id] \in Row
    BY <1>1 DEF TypeOK, Apps, Shape, ShapeAt
  <2>2. store[id].token # 0 /\ creds[loaded][id].token # 0
    BY <1>1, <2>1, RefreshAssumption DEF RefreshTokenIsKept
  <2>3. store[id].token \in {0, live[id]} /\ creds[loaded][id].token \in {0, live[id]}
    BY <1>1 DEF Current, RestAt, Safe
  <2> QED
    BY <2>2, <2>3
<1> QED
  BY Typed, CurrentAlways, TokenKept, <1>1, PTL

\* However many configurations, lost answers and attempts there are, the vendor
\* is shown a spent token only after a reload crossed a refresh or a token was
\* lost, and by codex again only for a refusal it did not hear.
THEOREM ReuseAlwaysCaused == Spec => []ReuseHasACause
<1>1. ASSUME TypeOK, Heard, Current  PROVE ReuseHasACause
  <2> SUFFICES ASSUME NEW a \in Apps, NEW id \in Ids
               PROVE  /\ refresh[a][id].reuses > 0 => id \in crossed \cup lost
                      /\ store[id].provider = "codex" =>
                           refresh[a][id].reuses <= 1 + refresh[a][id].unheard
    BY DEF ReuseHasACause
  <2>1. refresh[a][id].reuses \in Nat /\ refresh[a][id].unheard \in Nat
    BY <1>1 DEF TypeOK, Refresh
  <2>2. HeardAt(a, id) /\ CurrentAt(a, id)
    BY <1>1 DEF Heard, Current
  <2> QED
    BY <2>1, <2>2 DEF HeardAt, CurrentAt, Safe
<1> QED
  BY Typed, HeardAlways, CurrentAlways, <1>1, PTL
=============================================================================
