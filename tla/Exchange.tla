------------------------------ MODULE Exchange ------------------------------
(***************************************************************************)
(* A proxied request from the client to the vendor and back: the LLM API   *)
(* handlers (api/llmapi), the auth-managed provider that picks a           *)
(* credential and reports the outcome (llm/provider/authmanaged.go), the   *)
(* retries and the choice of the secret (httputil.go), and the providers.  *)
(* Requests run concurrently and share the manager's credentials, which    *)
(* are refreshed and deleted meanwhile; clients leave when they like.      *)
(*                                                                         *)
(* Which provider instance serves a request, or why none does, is Gateway's *)
(* part: here any answer of it may come.  A pick is that of CredentialPool, *)
(* which Scheduler implements.  The three copies of a credential, Manager's *)
(* part, appear as one, which an Update writes or leaves as it is.         *)
(***************************************************************************)
EXTENDS Credential

CONSTANTS
  Requests,  \* the requests, each served by a goroutine of its own
  Asks,      \* Asks[q]: what the client of q may send
  Serving,   \* Serving[q]: the provider instances the gateway may resolve q to
  Initial,   \* Initial[id]: the credentials at the beginning
  Errors,    \* the error statuses vendors answer with
  MaxTime,   \* bound on the clock
  MaxToken,  \* bound on the tokens of a credential
  MaxFrames, \* bound on the frames of a stream between its opening and its close
  Faults     \* whether writes to the credential store may fail

Strategies == {"", "api_key_first", "credential_first", "credential_only", "api_key_only"}

\* form says whether a request is well-formed: a wrong method, an unreadable
\* or undecodable body, or a call of count_tokens are answered at once.
Ask == [api: {"openai", "anthropic"}, form: {"ok", "method", "body", "count"},
        stream: BOOLEAN, model: Models]

\* key says whether the configuration has a static API key.
Instance == [provider: Providers, kind: {"openai", "openrouter", "anthropic", "gemini", "ollama"},
             key: BOOLEAN, strategy: Strategies, maxRetries: Int]

Secret == [from: {"nobody", "config", "credential"}, id: Ids \cup {None}, token: Nat]

NoSecret == [from |-> "nobody", id |-> None, token |-> 0]
StaticKey == [from |-> "config", id |-> None, token |-> 0]
AccessToken(id, token) == [from |-> "credential", id |-> id, token |-> token]

ASSUME ExchangeAssumption ==
  /\ Asks \in [Requests -> SUBSET Ask]
  /\ Serving \in [Requests -> SUBSET Instance]
  /\ Initial \in [Ids -> Credential \cup {None}]
  /\ \A id \in Ids : Initial[id] # None =>
       /\ Initial[id].id = id /\ Initial[id].status = "active" /\ Initial[id].token # 0
       /\ ~Initial[id].lastError /\ ~Initial[id].unavailable
       /\ ~Initial[id].quota.exceeded /\ KnownModels(Initial[id]) = {}
  /\ Errors \subseteq 400..599
  /\ MaxTime \in Nat /\ MaxToken \in Nat /\ MaxFrames \in Nat
  /\ Faults \in BOOLEAN
  /\ None \notin Ask /\ None \notin Instance

VARIABLES
  now,     \* the clock
  creds,   \* creds[id]: the credential as the manager holds it
  calls,   \* calls[q]: where request q is
  gone,    \* the requests whose client has left: their context is cancelled
  refresh, \* refresh[id]: where the goroutine that refreshes the credential is
  issued,  \* issued[id]: how many tokens the vendor has sent for the credential
  blame    \* ghost, blame[id]: how the calls that had picked the credential
           \* failed in the end, while their clients were waiting, and whether
           \* a refresh of it failed

vars == <<now, creds, calls, gone, refresh, issued, blame>>

PCs == {"idle", "resolve", "pick", "call", "mark", "update", "reply", "stream", "done"}

\* cred and token are what pickCredential put into the context, sent is what
\* the last attempt presented to the vendor, log the statuses of the attempts
\* (200 for a success), report what MarkResult was told and copy what it made
\* of the credential; status and frames are what the client gets, a frame
\* being the opening, a chunk or the closing of an event stream.
CallState ==
  [pc: PCs, ask: Ask \cup {None}, inst: Instance \cup {None}, cred: Ids \cup {None},
   token: Nat, sent: Secret, log: Seq(Nat), report: Outcomes \cup {None},
   copy: Credential \cup {None}, status: Nat,
   frames: Seq({"open", "chunk", "close"})]

\* snap is the copy the cycle took, which refreshOne works with.
Refresh == [pc: {"mark", "call"}, snap: Credential]

Idle == [pc |-> "idle", ask |-> None, inst |-> None, cred |-> None, token |-> 0,
         sent |-> NoSecret, log |-> <<>>, report |-> None, copy |-> None,
         status |-> 0, frames |-> <<>>]

Init ==
  /\ now = 1
  /\ creds = Initial
  /\ calls = [q \in Requests |-> Idle]
  /\ gone = {}
  /\ refresh = [id \in Ids |-> None]
  /\ issued = [id \in Ids |-> IF Initial[id] = None THEN 0 ELSE Initial[id].token]
  /\ blame = [id \in Ids |-> {}]

Step(q, c) == calls' = [calls EXCEPT ![q] = c]

-----------------------------------------------------------------------------
(* api/llmapi: from the request to the provider *)

OpenAIRefusal(ask) ==
  CASE ask.form = "method" -> 405
    [] ask.form = "body" -> 400
    [] OTHER -> 0

AnthropicRefusal(ask) ==
  CASE ask.form = "method" -> 405
    [] ask.form = "count" -> 501
    [] ask.form = "body" -> 400
    [] OTHER -> 0

Refusal(ask) == IF ask.api = "openai" THEN OpenAIRefusal(ask) ELSE AnthropicRefusal(ask)

ServeLLMApi(q, ask) ==
  /\ calls[q].pc = "idle"
  /\ Step(q, [calls[q] EXCEPT !.ask = ask, !.status = Refusal(ask),
                              !.pc = IF Refusal(ask) = 0 THEN "resolve" ELSE "done"])
  /\ UNCHANGED <<now, creds, gone, refresh, issued, blame>>

\* ResolveProvider found an instance and wrapped it with the manager.
Resolve(q, i) ==
  /\ calls[q].pc = "resolve"
  /\ Step(q, [calls[q] EXCEPT !.pc = "pick", !.inst = i])
  /\ UNCHANGED <<now, creds, gone, refresh, issued, blame>>

\* The client is told the status of the gateway's error.
ResolveFails(q, status) ==
  /\ calls[q].pc = "resolve"
  /\ Step(q, [calls[q] EXCEPT !.pc = "done", !.status = status])
  /\ UNCHANGED <<now, creds, gone, refresh, issued, blame>>

-----------------------------------------------------------------------------
(* authmanaged.go: the choice of the credential *)

\* ProviderConfig.Defaults
Strategy(i) == IF i.strategy = "" THEN "api_key_first" ELSE i.strategy

ShouldUseCredential(i) ==
  CASE Strategy(i) = "api_key_only" -> FALSE
    [] Strategy(i) = "api_key_first" -> ~i.key
    [] OTHER -> TRUE

Scheduled(c) == IF c = None \/ c.status = "disabled" THEN None ELSE c

Pool == INSTANCE CredentialPool WITH
  pool <- [id \in Ids |-> Scheduled(creds[id])], answer <- None,
  Inputs <- {}, TriedSets <- {{}}

ShardKey(m) == CanonicalModelKey(CanonicalModelKey(m))

\* Mutant: a disabled credential is as good as any.
PickableDisabled(p, m) == {id \in Ids : creds[id] # None /\ creds[id].provider = p}

\* What Pick may return: the pool's promise.
Pickable(p, m) ==
  {id \in Pool!Servable(p, ShardKey(m), {}) :
     \A j \in Pool!Free(p, ShardKey(m), {}) : creds[j].priority <= creds[id].priority}

\* The scheduler may hand out the version of an earlier rebuild, with another
\* of the tokens there have been.
PickCredential(q, id, token) ==
  LET c == calls[q] IN
  /\ c.pc = "pick"
  /\ ShouldUseCredential(c.inst)
  /\ id \in Pickable(c.inst.provider, c.ask.model)
  /\ token \in 1..issued[id]
  /\ Step(q, [c EXCEPT !.pc = "call", !.cred = id, !.token = token])
  /\ UNCHANGED <<now, creds, gone, refresh, issued, blame>>

\* An instance that takes no credential, or a Pick that fails: the call goes
\* on without one.
PickNone(q) ==
  LET c == calls[q] IN
  /\ c.pc = "pick"
  /\ \/ ~ShouldUseCredential(c.inst)
     \/ Pool!Free(c.inst.provider, ShardKey(c.ask.model), {}) = {}
  /\ Step(q, [c EXCEPT !.pc = "call"])
  /\ UNCHANGED <<now, creds, gone, refresh, issued, blame>>

-----------------------------------------------------------------------------
(* httputil.go and the providers: the secret of an attempt *)

ConfigKey(i) == IF i.key THEN StaticKey ELSE NoSecret

\* Mutant: a strategy that prefers credentials sends the key if there is one.
ResolveCredentialKeyFirst(c) ==
  IF c.cred # None /\ ~c.inst.key /\ Strategy(c.inst) # "api_key_only"
  THEN AccessToken(c.cred, c.token) ELSE ConfigKey(c.inst)

\* Decides again, on the provider's side, whether the context's credential
\* or the configured key is used.
ResolveCredential(c) ==
  IF /\ c.cred # None
     /\ \/ Strategy(c.inst) \in {"credential_first", "credential_only"}
        \/ Strategy(c.inst) = "api_key_first" /\ ~c.inst.key
  THEN AccessToken(c.cred, c.token) ELSE ConfigKey(c.inst)

\* The client made when the instance was built has the configured key; a
\* credential gets a client of its own.
GeminiSecret(c) ==
  IF ResolveCredential(c).from = "credential" THEN ResolveCredential(c) ELSE ConfigKey(c.inst)

\* ollama's client has no place for a key.
OllamaSecret(c) == NoSecret

AnthropicSecret(c) == ResolveCredential(c)

OpenAISecret(c) == ResolveCredential(c)

OpenRouterSecret(c) == ResolveCredential(c)

SecretFor(c) ==
  CASE c.inst.kind = "gemini" -> GeminiSecret(c)
    [] c.inst.kind = "ollama" -> OllamaSecret(c)
    [] c.inst.kind = "anthropic" -> AnthropicSecret(c)
    [] c.inst.kind = "openrouter" -> OpenRouterSecret(c)
    [] OTHER -> OpenAISecret(c)

-----------------------------------------------------------------------------
(* The attempts *)

\* Mutant: an error without a status stays without one.
WrapEinoErrorRaw(e) == e

\* An error without a status (network, time limit, cancelled context, or a
\* library that does not tell) counts as 502.
WrapEinoError(e) == IF e = None THEN 502 ELSE e

IsRetryable(s) == s = 429 \/ s \in 500..599

MaxRetries(i) == IF i.maxRetries <= 0 THEN 3 ELSE i.maxRetries

\* Mutant: one attempt too many.
MoreAttemptsOffByOne(c, s) ==
  ~c.ask.stream /\ IsRetryable(s) /\ Len(c.log) <= MaxRetries(c.inst)

\* RetryGenerate goes on after its attempt number Len(log) + 1; Stream does
\* not use it.
MoreAttempts(c, s) ==
  ~c.ask.stream /\ IsRetryable(s) /\ Len(c.log) + 1 <= MaxRetries(c.inst)

Outcome(s) == CASE s = 200 -> "success"
                [] s = 429 -> "quota"
                [] s \in {401, 403} -> "auth"
                [] OTHER -> "other"

\* The vendor answers, for a stream with its beginning.
CallSucceeds(q) ==
  LET c == calls[q] IN
  /\ c.pc = "call"
  /\ q \notin gone
  /\ Step(q, [c EXCEPT !.pc = "mark", !.sent = SecretFor(c), !.log = Append(@, 200)])
  /\ UNCHANGED <<now, creds, gone, refresh, issued, blame>>

Attempt(c, s) ==
  [c EXCEPT !.pc = IF MoreAttempts(c, s) THEN "call" ELSE "mark",
            !.sent = SecretFor(c), !.log = Append(@, s)]

CallFails(q, e) ==
  LET c == calls[q]
      s == WrapEinoError(e)
  IN
  /\ c.pc = "call"
  /\ q \notin gone
  /\ Step(q, Attempt(c, s))
  /\ blame' = IF c.cred # None /\ ~MoreAttempts(c, s)
              THEN [blame EXCEPT ![c.cred] = @ \cup {Outcome(s)}] ELSE blame
  /\ UNCHANGED <<now, creds, gone, refresh, issued>>

\* With a cancelled context every attempt fails at once, and is retried.
CallCancelled(q) ==
  /\ calls[q].pc = "call"
  /\ q \in gone
  /\ Step(q, Attempt(calls[q], WrapEinoError(None)))
  /\ UNCHANGED <<now, creds, gone, refresh, issued, blame>>

-----------------------------------------------------------------------------
(* markResult and Manager.MarkResult *)

Last(log) == log[Len(log)]

ReportOf(c) == [outcome |-> Outcome(Last(c.log)), model |-> c.ask.model, retryAfter |-> 0]

\* The credential is copied from the map; what becomes of the copy is written
\* back later, if it has changed.
MarkResult(q) ==
  LET c == calls[q]
      r == ReportOf(c)
  IN
  /\ c.pc = "mark"
  /\ IF c.cred = None THEN Step(q, [c EXCEPT !.pc = "reply"])
     ELSE IF creds[c.cred] = None \/ ~Changes(creds[c.cred], r)
     THEN Step(q, [c EXCEPT !.pc = "reply", !.report = r.outcome])
     ELSE Step(q, [c EXCEPT !.pc = "update", !.report = r.outcome,
                            !.copy = ApplyResult(creds[c.cred], r, now)])
  /\ UNCHANGED <<now, creds, gone, refresh, issued, blame>>

\* Mutant: the outcome is written whether the client waits or not.
UpdateDetached(q) ==
  LET c == calls[q] IN
  /\ c.pc = "update"
  /\ creds[c.cred] # None
  /\ creds' = [creds EXCEPT ![c.cred] = c.copy]
  /\ Step(q, [c EXCEPT !.pc = "reply", !.copy = None])
  /\ UNCHANGED <<now, gone, refresh, issued, blame>>

\* The write uses the request's context.
Update(q) ==
  LET c == calls[q] IN
  /\ c.pc = "update"
  /\ q \notin gone
  /\ creds[c.cred] # None
  /\ creds' = [creds EXCEPT ![c.cred] = c.copy]
  /\ Step(q, [c EXCEPT !.pc = "reply", !.copy = None])
  /\ UNCHANGED <<now, gone, refresh, issued, blame>>

\* Its error is ignored and the outcome is lost.
UpdateFails(q) ==
  LET c == calls[q] IN
  /\ c.pc = "update"
  /\ q \in gone \/ creds[c.cred] = None \/ Faults
  /\ Step(q, [c EXCEPT !.pc = "reply", !.copy = None])
  /\ UNCHANGED <<now, creds, gone, refresh, issued, blame>>

-----------------------------------------------------------------------------
(* The answer *)

(* serveStream: what a chunk becomes, and what surrounds the chunks *)

\* openai: every chunk is a frame.
OpenAIFrames(text) == <<"chunk">>

\* anthropic: a chunk without text, such as a tool call, is passed over.
AnthropicFrames(text) == IF text THEN <<"chunk">> ELSE <<>>

Opening(ask) == IF ask.api = "openai" THEN <<>> ELSE <<"open">>

ChunkFrames(ask, text) == IF ask.api = "openai" THEN OpenAIFrames(text) ELSE AnthropicFrames(text)

\* Mutant: a stream's header is sent before its beginning is looked at.
ReplyHeaderFirst(q) ==
  LET c == calls[q]
      ok == Last(c.log) = 200
      streams == ok /\ c.ask.stream
  IN
  /\ c.pc = "reply"
  /\ Step(q, [c EXCEPT !.status = IF ok \/ c.ask.stream THEN 200 ELSE 502,
                       !.pc = IF streams THEN "stream" ELSE "done",
                       !.frames = IF streams THEN Opening(c.ask) ELSE @])
  /\ UNCHANGED <<now, creds, gone, refresh, issued, blame>>

\* Any error of the provider is a 502; a stream that has begun is a 200.
Reply(q) ==
  LET c == calls[q]
      ok == Last(c.log) = 200
      streams == ok /\ c.ask.stream
  IN
  /\ c.pc = "reply"
  /\ Step(q, [c EXCEPT !.status = IF ok THEN 200 ELSE 502,
                       !.pc = IF streams THEN "stream" ELSE "done",
                       !.frames = IF streams THEN Opening(c.ask) ELSE @])
  /\ UNCHANGED <<now, creds, gone, refresh, issued, blame>>

StreamChunk(q, text) ==
  LET c == calls[q] IN
  /\ c.pc = "stream"
  /\ q \notin gone /\ Len(c.frames) < Len(Opening(c.ask)) + MaxFrames
  /\ Step(q, [c EXCEPT !.frames = @ \o ChunkFrames(c.ask, text)])
  /\ UNCHANGED <<now, creds, gone, refresh, issued, blame>>

\* Mutant: an error does not end the loop over the chunks.
StreamEndsAtEOF(q, end) ==
  LET c == calls[q] IN
  /\ c.pc = "stream"
  /\ end = "eof" /\ q \notin gone
  /\ Step(q, [c EXCEPT !.pc = "done", !.frames = Append(@, "close")])
  /\ UNCHANGED <<now, creds, gone, refresh, issued, blame>>

\* A stream ends, or breaks: by the vendor, the client's leaving or the time
\* limit of the HTTP client.  The client is sent the same closing frames for
\* both ([DONE], or end_turn and message_stop), and nobody tells the manager.
StreamEnds(q, end) ==
  LET c == calls[q] IN
  /\ c.pc = "stream"
  /\ q \in gone => end = "broken"
  /\ Step(q, [c EXCEPT !.pc = "done", !.frames = Append(@, "close")])
  /\ UNCHANGED <<now, creds, gone, refresh, issued, blame>>

-----------------------------------------------------------------------------
(* What happens meanwhile *)

ClientLeaves(q) ==
  /\ calls[q].pc \notin {"idle", "done"} /\ q \notin gone
  /\ gone' = gone \cup {q}
  /\ UNCHANGED <<now, creds, calls, refresh, issued, blame>>

Deregister(id) ==
  /\ creds[id] # None
  /\ creds' = [creds EXCEPT ![id] = None]
  /\ UNCHANGED <<now, calls, gone, refresh, issued, blame>>

Tick ==
  /\ now < MaxTime
  /\ now' = now + 1
  /\ UNCHANGED <<creds, calls, gone, refresh, issued, blame>>

-----------------------------------------------------------------------------
(* The refresh of a credential: snapshotForRefresh and refreshOne *)

\* A token expires when it likes.  That the next cycle finds the credential
\* before the goroutine has marked it is Manager's part and left out here.
BeginRefresh(id) ==
  LET c == creds[id] IN
  /\ refresh[id] = None
  /\ c # None
  /\ c.status \notin {"disabled", "refreshing"}
  /\ c.nextRefreshAfter = 0 \/ now >= c.nextRefreshAfter
  /\ refresh' = [refresh EXCEPT ![id] = [pc |-> "mark", snap |-> c]]
  /\ UNCHANGED <<now, creds, calls, gone, issued, blame>>

\* refreshOne ignores the errors of its Updates.
RefreshUpdate(id, c) ==
  \/ creds[id] # None /\ creds' = [creds EXCEPT ![id] = c]
  \/ (creds[id] = None \/ Faults) /\ creds' = creds

MarkRefreshing(id) ==
  /\ refresh[id] # None /\ refresh[id].pc = "mark"
  /\ RefreshUpdate(id, [refresh[id].snap EXCEPT !.status = "refreshing"])
  /\ refresh' = [refresh EXCEPT ![id].pc = "call"]
  /\ UNCHANGED <<now, calls, gone, issued, blame>>

\* The vendor's answer, or the end of the attempts, and the last Update: what
\* becomes of the cycle's copy is written over whatever there is by then.
EndRefresh(id, c) ==
  /\ refresh[id] # None /\ refresh[id].pc = "call"
  /\ RefreshUpdate(id, c)
  /\ refresh' = [refresh EXCEPT ![id] = None]
  /\ UNCHANGED <<now, calls, gone>>

\* Which refresh tokens the vendor accepts is TokenRefresh's part.
RefreshSucceeds(id) ==
  /\ EndRefresh(id, [Loaded(refresh[id].snap) EXCEPT !.token = issued[id] + 1])
  /\ issued[id] < MaxToken
  /\ issued' = [issued EXCEPT ![id] = @ + 1]
  /\ blame' = blame

RefreshFails(id) ==
  /\ EndRefresh(id, [refresh[id].snap EXCEPT !.status = "error",
                                             !.nextRefreshAfter = now + RefreshDelay])
  /\ issued' = issued
  /\ blame' = [blame EXCEPT ![id] = @ \cup {"refresh"}]

\* There is no refresh token to present.
RefreshNothing(id) ==
  /\ EndRefresh(id, [refresh[id].snap EXCEPT !.status = "active"])
  /\ UNCHANGED <<issued, blame>>

RefreshStep(id) ==
  \/ BeginRefresh(id) \/ MarkRefreshing(id)
  \/ RefreshSucceeds(id) \/ RefreshFails(id) \/ RefreshNothing(id)

-----------------------------------------------------------------------------

GatewayErrors == {401, 403, 502, 503}

HandlerStep(q) ==
  \/ \E i \in Serving[q] : Resolve(q, i)
  \/ \E s \in GatewayErrors : ResolveFails(q, s)
  \/ \E id \in Ids, token \in 1..MaxToken : PickCredential(q, id, token)
  \/ PickNone(q)
  \/ MarkResult(q) \/ Update(q) \/ UpdateFails(q)
  \/ Reply(q)

VendorStep(q) ==
  \/ CallSucceeds(q) \/ \E e \in Errors \cup {None} : CallFails(q, e)
  \/ CallCancelled(q)
  \/ \E end \in {"eof", "broken"} : StreamEnds(q, end)

Next ==
  \/ \E q \in Requests : \E ask \in Asks[q] : ServeLLMApi(q, ask)
  \/ \E q \in Requests : HandlerStep(q) \/ VendorStep(q) \/ ClientLeaves(q)
  \/ \E q \in Requests, text \in BOOLEAN : StreamChunk(q, text)
  \/ \E id \in Ids : RefreshStep(id) \/ Deregister(id)
  \/ Tick

Spec == Init /\ [][Next]_vars

\* Goroutines run, and a call to a vendor, the body of a stream included, is
\* ended by the HTTP client's time limit at the latest.  A goroutine has one
\* place, so that only one of the two kinds of steps is enabled at a time.
Fairness == \A q \in Requests : WF_vars(HandlerStep(q) \/ VendorStep(q))

FairSpec == Spec /\ Fairness

-----------------------------------------------------------------------------
(* Properties *)

\* Every variable stays in its set.
TypeOK ==
  /\ now \in Nat
  /\ creds \in [Ids -> Credential \cup {None}]
  /\ calls \in [Requests -> CallState]
  /\ gone \subseteq Requests
  /\ refresh \in [Ids -> Refresh \cup {None}]
  /\ issued \in [Ids -> Nat]
  /\ blame \in [Ids -> SUBSET (Outcomes \cup {"refresh"})]

\* What a credential's record says against it has happened to a call that had
\* picked it, or to a refresh.
Deserved(c, id) ==
  /\ c.status = "disabled" => "auth" \in blame[id]
  /\ c.quota.exceeded \/ c.unavailable => "quota" \in blame[id]
  /\ c.lastError => {"quota", "other"} \cap blame[id] # {}
  /\ KnownModels(c) # {} => Outcomes \cap blame[id] # {}
  /\ c.status = "error" => blame[id] # {}

\* A credential is disabled, held back or has an error on record only because
\* a call that had picked it failed that way in its last attempt, with its
\* client waiting: not because of an attempt that was made again, of a call
\* made with the static key, or of a client that went away.  Its status alone
\* may also say "error" because a refresh failed (RetryGenerate, markResult,
\* MarkResult, Update and refreshOne, over concurrent calls and refreshes that
\* write back copies of the credential in any order).  That everything a call
\* met is on record is not said: Update may fail, and a copy written back may
\* undo it.
BlameIsDeserved == \A id \in Ids : creds[id] # None => Deserved(creds[id], id)

\* authmanaged.go and httputil.go decide twice, apart from each other, whether
\* the credential or the static key is used, and they agree: a picked
\* credential is what the attempts present, but for ollama, which presents
\* nothing; a static key is sent under a strategy that prefers credentials
\* only when there was none to pick; and an instance whose strategy prefers
\* its key never uses a credential while it has one.
SecretIsAccounted ==
  \A q \in Requests : LET c == calls[q] IN
    c.log # <<>> =>
      /\ c.cred # None => \/ c.inst.kind = "ollama"
                          \/ c.sent = AccessToken(c.cred, c.token)
      /\ c.sent.from = "credential" =>
           /\ c.sent.id = c.cred
           /\ \/ c.inst.strategy \in {"credential_first", "credential_only"}
              \/ c.inst.strategy # "api_key_only" /\ ~c.inst.key
      /\ c.sent.from = "config" => c.inst.key /\ c.cred = None
      /\ c.sent.from = "nobody" =>
           c.inst.kind = "ollama" \/ (~c.inst.key /\ c.cred = None)

\* RetryGenerate: an attempt is followed by another only after a 429 or a 5xx,
\* the attempts number one more than the configured retries at most, a call
\* gives up on such an error only with its attempts used up, and a stream,
\* whose retry is undefined once it has begun, is attempted once.
RetriesAreJustified ==
  \A q \in Requests : LET c == calls[q] IN
    c.log # <<>> =>
      LET most == IF c.ask.stream THEN 1
                  ELSE IF c.inst.maxRetries > 0 THEN c.inst.maxRetries + 1 ELSE 4
      IN /\ Len(c.log) <= most
         /\ \A k \in 1..Len(c.log) - 1 : c.log[k] = 429 \/ c.log[k] \in 500..599
         /\ c.pc # "call" => \/ Len(c.log) = most
                            \/ ~(Last(c.log) = 429 \/ Last(c.log) \in 500..599)

\* The client and the manager are told the same: a call with a credential was
\* a success for the client (200) just when it was one for the manager.  For a
\* stream that is settled at its beginning; it is closed even when it breaks,
\* and the manager is not told.
ClientAndManagerAgree ==
  \A q \in Requests : LET c == calls[q] IN
    c.pc = "done" /\ c.log # <<>> =>
      /\ c.status \in {200, 502}
      /\ c.cred # None => (c.status = 200 <=> c.report = "success")
      /\ c.status = 200 /\ c.ask.stream => c.frames # <<>> /\ c.frames[Len(c.frames)] = "close"

\* No call and no refresh under way has the credential, and none can have it.
Out(id) ==
  /\ creds[id] = None \/ IsDisabled(creds[id])
  /\ refresh[id] = None
  /\ \A q \in Requests : calls[q].cred = id => calls[q].pc \in {"reply", "stream", "done"}

\* Once the last call under way with a disabled or deleted credential has
\* reported, and a refresh of it has ended, no call picks it again and neither
\* a call nor a refresh brings it back.  (A call or a refresh that had its
\* copy before the 401 may: it writes the copy over it, see DisabledStays of
\* Manager.)
DisabledIsFinal == [][\A id \in Ids : Out(id) => Out(id)']_vars

\* Every request is answered in the end, whatever vendors, clients and the
\* credential store do: from some time on each one that was sent is done.
EveryCallEnds == <>[](\A q \in Requests : calls[q].pc \in {"idle", "done"})
=============================================================================
