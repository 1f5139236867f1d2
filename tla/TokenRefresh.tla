---------------------------- MODULE TokenRefresh ----------------------------
(***************************************************************************)
(* The refresh of OAuth tokens: refreshOne of the manager, RefreshLead of  *)
(* the codex, claude and gemini authenticators with its retries, and the   *)
(* life of the app (gateway/app.go).  A configuration reload provisions    *)
(* and starts a new app before it stops the old one, and both have a       *)
(* manager, a refresh loop and a copy of the credentials of one store.     *)
(*                                                                         *)
(* Refresh tokens are numbered in the order the vendor issues them, 0 is   *)
(* none, and the vendor accepts only the latest.  A credential is due      *)
(* whenever it likes.  Update, three writes in Manager, is one step here.  *)
(***************************************************************************)
EXTENDS Integers

CONSTANTS
  Ids,        \* the credentials, which all have a row from the beginning
  Providers,  \* the authenticators credentials may have
  Omits,      \* those whose vendor may leave the refresh token out of an answer
  MaxRetries, \* codexRefreshMaxRetries and its like
  MaxApps,    \* bound on the apps, one per configuration
  MaxToken,   \* bound on the refresh tokens of a credential
  None        \* no credential

Row == [provider: Providers, token: Nat, status: {"active", "error", "refreshing"}]

\* What an attempt brings: an answer with or without a refresh token, or that
\* the token presented was spent.
Answer == [ok: BOOLEAN, token: Nat]
Refused == [ok |-> FALSE, token |-> 0]
NoAnswer == [ok |-> TRUE, token |-> 0]

ASSUME RefreshAssumption ==
  /\ Providers \subseteq {"codex", "claude", "gemini"}
  /\ Omits \subseteq Providers
  /\ MaxRetries \in Nat \ {0} /\ MaxApps \in Nat \ {0} /\ MaxToken \in Nat
  /\ None \notin Row

Apps == 1..MaxApps

VARIABLES
  loaded,  \* the newest app that has loaded the credentials
  started, \* the apps whose refresh loop has been started
  stopped, \* the apps whose refresh loop, with its context, is cancelled
  store,   \* store[id]: the row
  creds,   \* creds[a][id]: the credential in the map of app a's manager
  live,    \* live[id]: the refresh token the vendor accepts
  refresh, \* refresh[a][id]: where the goroutine that refreshes id for a is
  crossed, \* ghost: IDs of which an app held a copy while another refreshed it
  lost     \* ghost: IDs whose rotated token did not get through to a row

vars == <<loaded, started, stopped, store, creds, live, refresh, crossed, lost>>

PCs == {"idle", "mark", "call", "answer", "wait", "write"}

\* snap is the copy the cycle took, got the answer on its way, out what is to
\* be written.  Two ghosts count, for this refresh: reuses how often the vendor
\* was shown a spent token, unheard how many of its refusals did not get
\* through, or did not say why.
Refresh == [pc: PCs, snap: Row \cup {None}, attempt: Nat, got: Answer,
            out: Row \cup {None}, reuses: Nat, unheard: Nat]

Idle == [pc |-> "idle", snap |-> None, attempt |-> 0, got |-> NoAnswer, out |-> None,
         reuses |-> 0, unheard |-> 0]

Init ==
  /\ loaded = 0
  /\ started = {}
  /\ stopped = {}
  /\ store \in [Ids -> {[provider |-> p, token |-> 1, status |-> "active"] : p \in Providers}]
  /\ creds = [a \in Apps |-> [id \in Ids |-> None]]
  /\ live = [id \in Ids |-> 1]
  /\ refresh = [a \in Apps |-> [id \in Ids |-> Idle]]
  /\ crossed = {}
  /\ lost = {}

Goto(a, id, r) == refresh' = [refresh EXCEPT ![a][id] = r]

Cancelled(a) == a \in stopped

-----------------------------------------------------------------------------
(* app.go *)

\* Mutant: a row is loaded as it is.
LoadedAsIs(row) == row

\* Load: a refresh that was under way is taken for one that never completed.
Loaded(row) == IF row.status = "refreshing" THEN [row EXCEPT !.status = "active"] ELSE row

\* Provision of the next configuration, while the last app runs.
Provision(a) ==
  /\ a = loaded + 1
  /\ \A b \in 1..loaded : b \in started /\ (b < loaded => b \in stopped)
  /\ loaded' = a
  /\ creds' = [creds EXCEPT ![a] = [id \in Ids |-> Loaded(store[id])]]
  /\ crossed' = crossed \cup {id \in Ids : \E b \in Apps : refresh[b][id].pc # "idle"}
  /\ UNCHANGED <<started, stopped, store, live, refresh, lost>>

\* Mutant: the loop is started whether the credentials are there or not.
StartEarly(a) ==
  /\ a \notin started
  /\ started' = started \cup {a}
  /\ UNCHANGED <<loaded, stopped, store, creds, live, refresh, crossed, lost>>

Start(a) ==
  /\ a <= loaded /\ a \notin started
  /\ started' = started \cup {a}
  /\ UNCHANGED <<loaded, stopped, store, creds, live, refresh, crossed, lost>>

\* The old app is stopped once the new one has been started.
Stop(a) ==
  /\ a \in started \ stopped /\ a + 1 \in started
  /\ stopped' = stopped \cup {a}
  /\ UNCHANGED <<loaded, started, store, creds, live, refresh, crossed, lost>>

-----------------------------------------------------------------------------
(* refreshOne *)

\* The manager's Update, which a cancelled context keeps from the store.
Update(a, id, row) ==
  IF Cancelled(a) THEN UNCHANGED <<store, creds>>
  ELSE /\ store' = [store EXCEPT ![id] = row]
       /\ creds' = [creds EXCEPT ![a][id] = row]

\* A cycle of the loop found the credential due.  That the next cycle finds it
\* before the goroutine has marked it is Manager's part and left out here.
Begin(a, id) ==
  /\ a \in started \ stopped
  /\ refresh[a][id].pc = "idle"
  /\ creds[a][id].status # "refreshing"
  /\ Goto(a, id, [Idle EXCEPT !.pc = "mark", !.snap = creds[a][id]])
  /\ crossed' = IF a < loaded THEN crossed \cup {id} ELSE crossed
  /\ UNCHANGED <<loaded, started, stopped, store, creds, live, lost>>

MarkRefreshing(a, id) ==
  LET r == refresh[a][id] IN
  /\ r.pc = "mark"
  /\ Update(a, id, [r.snap EXCEPT !.status = "refreshing"])
  /\ Goto(a, id, [r EXCEPT !.pc = "call", !.attempt = 1])
  /\ UNCHANGED <<loaded, started, stopped, live, crossed, lost>>

\* The last Update of a refresh; its error is ignored too.
Write(a, id) ==
  LET r == refresh[a][id] IN
  /\ r.pc = "write"
  /\ Update(a, id, r.out)
  /\ Goto(a, id, Idle)
  /\ lost' = IF Cancelled(a) /\ r.out.token # r.snap.token THEN lost \cup {id} ELSE lost
  /\ UNCHANGED <<loaded, started, stopped, live, crossed>>

\* RefreshLead has no refresh token to present: the copy is put back.
NoRefreshToken(a, id) ==
  LET r == refresh[a][id] IN
  /\ r.pc = "call" /\ r.snap.token = 0
  /\ Goto(a, id, [r EXCEPT !.pc = "write", !.out = [r.snap EXCEPT !.status = "active"]])
  /\ UNCHANGED <<loaded, started, stopped, store, creds, live, crossed, lost>>

-----------------------------------------------------------------------------
(* refreshTokens: the request and the vendor's answer *)

\* The vendor gives out the next token; the one presented is spent.
VendorRotates(a, id) ==
  LET r == refresh[a][id] IN
  /\ r.pc = "call" /\ r.snap.token # 0
  /\ r.snap.token = live[id] /\ live[id] < MaxToken
  /\ live' = [live EXCEPT ![id] = @ + 1]
  /\ Goto(a, id, [r EXCEPT !.pc = "answer", !.got = [ok |-> TRUE, token |-> live[id] + 1]])
  /\ UNCHANGED <<loaded, started, stopped, store, creds, crossed, lost>>

\* The vendor gives out an access token only.
VendorKeeps(a, id) ==
  LET r == refresh[a][id] IN
  /\ r.pc = "call" /\ r.snap.token # 0
  /\ r.snap.token = live[id] /\ r.snap.provider \in Omits
  /\ Goto(a, id, [r EXCEPT !.pc = "answer", !.got = NoAnswer])
  /\ UNCHANGED <<loaded, started, stopped, store, creds, live, crossed, lost>>

\* The token presented was spent before.
VendorRefuses(a, id) ==
  LET r == refresh[a][id] IN
  /\ r.pc = "call" /\ r.snap.token # 0
  /\ r.snap.token # live[id]
  /\ Goto(a, id, [r EXCEPT !.pc = "answer", !.got = Refused, !.reuses = @ + 1])
  /\ UNCHANGED <<loaded, started, stopped, store, creds, live, crossed, lost>>

-----------------------------------------------------------------------------
(* RefreshLead: refreshTokensWithRetry and applyTokenToMetadata *)

\* Mutant: codex keeps the token it has.
CodexTokenKept(old, new) == old

\* codex and claude write the answer's refresh token, whatever it is.
CodexToken(old, new) == new

ClaudeToken(old, new) == new

\* Mutant: so does gemini.
GeminiTokenBlind(old, new) == new

\* gemini keeps the old one when the answer has none.
GeminiToken(old, new) == IF new # 0 THEN new ELSE old

NewToken(row, new) ==
  CASE row.provider = "codex" -> CodexToken(row.token, new)
    [] row.provider = "claude" -> ClaudeToken(row.token, new)
    [] OTHER -> GeminiToken(row.token, new)

\* A failure keeps the copy, as an error.
Failed(r) == [r EXCEPT !.pc = "write", !.got = NoAnswer,
                      !.out = [r.snap EXCEPT !.status = "error"]]

\* claude and gemini: an error is followed by another attempt while there are
\* attempts left.
Retried(r) == IF r.attempt < MaxRetries THEN [r EXCEPT !.pc = "wait", !.got = NoAnswer]
              ELSE Failed(r)

\* Mutant: a spent token is tried again.
CodexRefusedRetried(r) == Retried(r)

\* codex: a token that was reused is not tried again.
CodexRefused(r) == Failed(r)

ReceiveToken(a, id) ==
  LET r == refresh[a][id] IN
  /\ r.pc = "answer" /\ r.got.ok
  /\ Goto(a, id, [r EXCEPT !.pc = "write", !.got = NoAnswer,
       !.out = [r.snap EXCEPT !.token = NewToken(r.snap, r.got.token)]])
  /\ UNCHANGED <<loaded, started, stopped, store, creds, live, crossed, lost>>

Unheard(r) == [r EXCEPT !.unheard = @ + 1]

\* codex looks for refresh_token_reused in the text of the error; a refusal
\* that does not say so is an error like any other, and so is every refusal
\* for claude and gemini.
ReceiveRefusal(a, id, reused) ==
  LET r == refresh[a][id] IN
  /\ r.pc = "answer" /\ ~r.got.ok
  /\ Goto(a, id, IF r.snap.provider = "codex" /\ reused THEN CodexRefused(r)
                 ELSE Retried(Unheard(r)))
  /\ UNCHANGED <<loaded, started, stopped, store, creds, live, crossed, lost>>

\* The request or the answer does not get through; the token may be rotated.
AttemptFails(a, id) ==
  LET r == refresh[a][id] IN
  /\ r.pc \in {"call", "answer"} /\ r.snap.token # 0
  /\ Goto(a, id, Retried(IF r.pc = "answer" /\ ~r.got.ok THEN Unheard(r) ELSE r))
  /\ lost' = IF r.pc = "answer" /\ r.got.ok THEN lost \cup {id} ELSE lost
  /\ UNCHANGED <<loaded, started, stopped, store, creds, live, crossed>>

\* Mutant: the request is made with a context of its own.
AttemptCancelledIgnored(a, id) ==
  /\ Cancelled(a) /\ refresh[a][id].pc = "call"
  /\ UNCHANGED vars

\* A cancelled context ends the HTTP call, which nothing else does: the
\* client has no time limit.
AttemptCancelled(a, id) == Cancelled(a) /\ AttemptFails(a, id)

\* Between two attempts the context is looked at.
WaitEnds(a, id) ==
  LET r == refresh[a][id] IN
  /\ r.pc = "wait"
  /\ Goto(a, id, IF Cancelled(a) THEN Failed(r)
                 ELSE [r EXCEPT !.pc = "call", !.attempt = @ + 1])
  /\ UNCHANGED <<loaded, started, stopped, store, creds, live, crossed, lost>>

-----------------------------------------------------------------------------

RefreshStep(a, id) ==
  \/ MarkRefreshing(a, id) \/ Write(a, id) \/ NoRefreshToken(a, id)
  \/ ReceiveToken(a, id) \/ (\E reused \in BOOLEAN : ReceiveRefusal(a, id, reused))
  \/ WaitEnds(a, id) \/ AttemptCancelled(a, id)

VendorStep(a, id) ==
  VendorRotates(a, id) \/ VendorKeeps(a, id) \/ VendorRefuses(a, id) \/ AttemptFails(a, id)

Next ==
  \/ \E a \in Apps : Provision(a) \/ Start(a) \/ Stop(a)
  \/ \E a \in Apps, id \in Ids : Begin(a, id) \/ RefreshStep(a, id) \/ VendorStep(a, id)

Spec == Init /\ [][Next]_vars

\* Goroutines run and Caddy stops the app it has replaced.  A vendor may
\* never answer.
Fairness ==
  /\ \A a \in Apps : WF_vars(Start(a)) /\ WF_vars(Stop(a))
  /\ \A a \in Apps, id \in Ids : WF_vars(RefreshStep(a, id))

FairSpec == Spec /\ Fairness

-----------------------------------------------------------------------------
(* Properties *)

\* Every variable stays in its set.
TypeOK ==
  /\ loaded \in 0..MaxApps
  /\ started \subseteq 1..loaded /\ stopped \subseteq started
  /\ store \in [Ids -> Row]
  /\ creds \in [Apps -> [Ids -> Row \cup {None}]]
  /\ live \in [Ids -> Nat]
  /\ refresh \in [Apps -> [Ids -> Refresh]]
  /\ crossed \subseteq Ids /\ lost \subseteq Ids

\* No goroutine of any app works on the credential.
Quiet(id) == \A a \in Apps : refresh[a][id].pc = "idle"

\* The credential does not depend on an answer's refresh token, or there is one.
Sent(id) == store[id].provider \in Omits => store[id].provider = "gemini"

\* A refresh token that the vendor rotated is the one the newest app and the
\* row have once the refresh is over, however many configurations there were,
\* unless a reload crossed the refresh, an answer was lost, or a codex or
\* claude answer came without a refresh token (refreshOne, RefreshLead, Load).
TokenSurvivesReload ==
  \A id \in Ids :
    loaded > 0 /\ Quiet(id) /\ id \notin crossed \cup lost /\ Sent(id)
    => store[id].token = live[id] /\ creds[loaded][id].token = live[id]

\* No app is left with a credential marked as refreshing that nobody
\* refreshes, which no cycle would ever take up again, but for an app that has
\* been stopped: neither a lost answer, nor a refusal, nor the load of a row
\* that another app is refreshing does that.  (Of the store's failures only
\* that of a cancelled context is modelled here; a last Update that fails for
\* another reason does leave the mark behind, as RefreshingIsTransient of
\* Manager shows.)
RefreshingIsUnderWay ==
  \A a \in Apps, id \in Ids :
    creds[a][id] # None /\ creds[a][id].status = "refreshing" =>
      refresh[a][id].pc # "idle" \/ Cancelled(a)

\* A gemini credential is never without a refresh token, though its vendor
\* seldom sends one; the others keep theirs as long as the vendor sends one.
RefreshTokenIsKept ==
  \A id \in Ids : Sent(id) =>
    /\ store[id].token # 0
    /\ \A a \in Apps : creds[a][id] # None => creds[a][id].token # 0

\* Showing the vendor a spent refresh token can cost the login, and it is never
\* done without a cause.  The first time, a reload crossed a refresh of the
\* credential or a rotated token was lost on its way; rows, copies and retries
\* alone do not bring it about.  And codex, unlike claude and gemini, shows it
\* again only for a refusal that was lost or did not say refresh_token_reused
\* (refreshTokensWithRetry, codex.go:399-420).
ReuseHasACause ==
  \A a \in Apps, id \in Ids : LET r == refresh[a][id] IN
    /\ r.reuses > 0 => id \in crossed \cup lost
    /\ store[id].provider = "codex" => r.reuses <= 1 + r.unheard

\* Once a newer app has been started, the old one's refreshes end, even those
\* whose vendor never answers.
OldAppFallsSilent ==
  \A a \in Apps : (a + 1 \in started) ~> (\A id \in Ids : refresh[a][id].pc = "idle")
=============================================================================
