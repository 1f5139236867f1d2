--------------------------- MODULE Exchange_proofs ---------------------------
(***************************************************************************)
(* Proofs about Exchange: its safety properties, for every value of the    *)
(* constants.                                                              *)
(***************************************************************************)
EXTENDS Exchange, Credential_proofs, SequenceTheorems

-----------------------------------------------------------------------------
(* The inductive invariant, call by call *)

\* Where a call is tells what it has: a request from the beginning, an
\* instance once resolved, a credential only if its instance uses one, and
\* a copy of the credential only while it is to be written back.
PlaceOK(c) ==
  /\ c.pc # "idle" => c.ask \in Ask
  /\ c.pc \in {"pick", "call", "mark", "update", "reply", "stream"} => c.inst \in Instance
  /\ c.log # <<>> => c.ask \in Ask /\ c.inst \in Instance
  /\ c.pc \in {"idle", "resolve", "pick"} => c.cred = None /\ c.log = <<>>
  /\ c.pc \in {"mark", "update", "reply", "stream"} => c.log # <<>>
  /\ c.cred # None => c.inst \in Instance /\ ShouldUseCredential(c.inst)
  /\ c.copy # None => c.pc = "update"
  /\ c.pc = "update" => c.cred # None /\ c.copy # None

\* What the last attempt presented is what any attempt of the call presents.
SecretOK(c) == c.log # <<>> => c.sent = SecretFor(c)

\* The attempts a call may make in all.
Most(c) == IF c.ask.stream THEN 1
           ELSE IF c.inst.maxRetries > 0 THEN c.inst.maxRetries + 1 ELSE 4

\* Every attempt but the last was worth a retry, and so was the last one if
\* there is to be another.
TriesOK(c) ==
  /\ c.pc = "call" /\ c.log # <<>> =>
       /\ \A k \in 1..Len(c.log) : IsRetryable(c.log[k])
       /\ ~c.ask.stream /\ Len(c.log) + 1 <= Most(c)
  /\ c.pc # "call" /\ c.log # <<>> =>
       /\ Len(c.log) <= Most(c)
       /\ \A k \in 1..Len(c.log) - 1 : IsRetryable(c.log[k])
       /\ Len(c.log) = Most(c) \/ ~IsRetryable(Last(c.log))

\* The manager was told what the last attempt said, and the client is.
AnswerOK(c) ==
  /\ c.pc \in {"update", "reply", "stream", "done"} /\ c.log # <<>> /\ c.cred # None =>
       c.report = Outcome(Last(c.log))
  /\ c.pc = "stream" => c.ask.stream /\ Last(c.log) = 200 /\ c.status = 200
  /\ c.pc = "done" /\ c.log # <<>> =>
       /\ c.status = IF Last(c.log) = 200 THEN 200 ELSE 502
       /\ c.status = 200 /\ c.ask.stream => c.frames # <<>> /\ c.frames[Len(c.frames)] = "close"

CallOK(c) == c \in CallState /\ PlaceOK(c) /\ SecretOK(c) /\ TriesOK(c) /\ AnswerOK(c)

CallsOK == calls \in [Requests -> CallState] /\ \A q \in Requests : CallOK(calls[q])

\* What a call with its client waiting is about to say of its credential, or
\* has written into its copy, has happened to the credential.
BlameOK(q) ==
  q \notin gone =>
    /\ calls[q].pc = "mark" /\ calls[q].cred # None /\ Last(calls[q].log) # 200 =>
         Outcome(Last(calls[q].log)) \in blame[calls[q].cred]
    /\ calls[q].pc = "update" => Deserved(calls[q].copy, calls[q].cred)

Blames == Outcomes \cup {"refresh"}

\* What a refresh has of its credential is as deserved as the credential.
RefreshOK ==
  /\ refresh \in [Ids -> Refresh \cup {None}] /\ issued \in [Ids -> Nat]
  /\ \A id \in Ids : refresh[id] # None => Deserved(refresh[id].snap, id)

\* The invariant of the request path.
ExchangeInv ==
  /\ now \in Nat /\ gone \subseteq Requests
  /\ creds \in [Ids -> Credential \cup {None}]
  /\ blame \in [Ids -> SUBSET Blames]
  /\ CallsOK
  /\ RefreshOK
  /\ BlameIsDeserved
  /\ \A q \in Requests : BlameOK(q)

-----------------------------------------------------------------------------
(* Operators *)

\* The secret a call presents depends on its instance and credential alone.
LEMMA SecretForSame ==
  ASSUME NEW c, NEW d, d.inst = c.inst, d.cred = c.cred, d.token = c.token
  PROVE  SecretFor(d) = SecretFor(c)
<1>1. ResolveCredential(d) = ResolveCredential(c)
  BY DEF ResolveCredential
<1> QED
  BY <1>1 DEF SecretFor, GeminiSecret, OllamaSecret, AnthropicSecret, OpenRouterSecret,
              OpenAISecret

\* Whatever a call presents is nobody's, the configuration's or a credential's.
LEMMA SecretForType ==
  ASSUME NEW c \in CallState
  PROVE  SecretFor(c) \in Secret
<1>1. NoSecret \in Secret /\ StaticKey \in Secret
  BY DEF NoSecret, StaticKey, Secret
<1>2. AccessToken(c.cred, c.token) \in Secret
  BY DEF CallState, AccessToken, Secret
<1>3. ConfigKey(c.inst) \in Secret
  BY <1>1 DEF ConfigKey
<1>4. ResolveCredential(c) \in Secret
  BY <1>2, <1>3 DEF ResolveCredential
<1> QED
  BY <1>1, <1>3, <1>4 DEF SecretFor, GeminiSecret, OllamaSecret, AnthropicSecret,
                          OpenRouterSecret, OpenAISecret

\* An answer's outcome is a success just when its status is 200.
LEMMA OutcomeFacts ==
  ASSUME NEW s
  PROVE  /\ Outcome(s) \in Outcomes
         /\ Outcome(s) = "success" <=> s = 200
BY DEF Outcome, Outcomes

\* A success (manager.go:364-390) takes nothing worse down.
LEMMA SuccessDeserved ==
  ASSUME NEW c \in Credential, NEW m \in Models, NEW id, Deserved(c, id)
  PROVE  Deserved(OnSuccess(c, m), id)
<1> DEFINE cleared ==
        IF c.unavailable \/ c.lastError \/ c.quota.exceeded
        THEN [c EXCEPT !.unavailable = FALSE, !.lastError = FALSE, !.quota = NoQuota,
                       !.nextRetryAfter = 0, !.status = "active"]
        ELSE c
<1> DEFINE stale == {k \in {m} \cap (KnownModels(c) \ {<<>>}) :
                  c.modelStates[k].unavailable \/ c.modelStates[k].lastError}
<1> DEFINE ms == [k \in Models |-> IF k \in stale THEN ClearModelState ELSE c.modelStates[k]]
<1>1. /\ cleared.status = "disabled" => c.status = "disabled"
      /\ cleared.quota.exceeded \/ cleared.unavailable => c.quota.exceeded \/ c.unavailable
      /\ cleared.lastError => c.lastError
      /\ cleared.status = "error" => c.status = "error"
      /\ cleared \in Credential
  BY ClearModelStateType DEF Credential, NoQuota, Status
<1>2. OnSuccess(c, m) = [cleared EXCEPT !.modelStates = ms]
  BY DEF OnSuccess
<1>3. \A k \in Models : ms[k] # None => c.modelStates[k] # None
  BY DEF KnownModels
<1> HIDE DEF cleared, stale, ms
<1>4. /\ OnSuccess(c, m).status = cleared.status /\ OnSuccess(c, m).quota = cleared.quota
      /\ OnSuccess(c, m).unavailable = cleared.unavailable
      /\ OnSuccess(c, m).lastError = cleared.lastError
      /\ OnSuccess(c, m).modelStates = ms
  BY <1>1, <1>2 DEF Credential
<1>5. KnownModels(OnSuccess(c, m)) \subseteq KnownModels(c)
  BY <1>3, <1>4 DEF KnownModels
<1> QED
  BY <1>1, <1>4, <1>5 DEF Deserved

\* A failure without a hint (manager.go:391-422) blames the credential for
\* what happened.
LEMMA FailureDeserved ==
  ASSUME NEW c \in Credential, NEW r \in Result, NEW t \in Nat, NEW id, Deserved(c, id),
         r.outcome \in blame[id], r.outcome # "success", r.retryAfter = 0
  PROVE  Deserved(OnFailure(c, r, t), id) /\ OnFailure(c, r, t) \in Credential
<1> DEFINE d == OnFailure(c, r, t)
<1>0. d \in Credential
  BY OnFailureType
<1>4. r.outcome \in Outcomes \cap blame[id]
  BY DEF Result
<1>1. CASE r.outcome = "quota" /\ ~CooldownDisabledFor(c)
  <2> DEFINE backoff == IF r.retryAfter > ComputeBackoff(c.quota.backoffLevel)
                 THEN r.retryAfter ELSE ComputeBackoff(c.quota.backoffLevel)
             q == [exceeded |-> TRUE, nextRecoverAt |-> t + backoff,
                   backoffLevel |-> c.quota.backoffLevel + 1]
             until == t + backoff
  <2>1. d = [c EXCEPT !.quota = q, !.unavailable = TRUE, !.nextRetryAfter = until,
                      !.status = "error"]
    BY <1>1 DEF OnFailure
  <2> HIDE DEF q, until, backoff, d
  <2>2. d.status = "error" /\ d.lastError = c.lastError
    BY <2>1 DEF Credential
  <2> QED
    BY <1>0, <1>1, <1>4, <2>2 DEF Deserved, d
<1>2. CASE r.outcome = "auth"
  <2>1. d = [c EXCEPT !.status = "disabled"]
    BY <1>2 DEF OnFailure
  <2>2. /\ d.status = "disabled" /\ d.quota = c.quota /\ d.unavailable = c.unavailable
        /\ d.lastError = c.lastError
    BY <2>1 DEF Credential
  <2> HIDE DEF d
  <2> QED
    BY <1>0, <1>2, <1>4, <2>2 DEF Deserved, d
<1>3. CASE ~(r.outcome = "quota" /\ ~CooldownDisabledFor(c)) /\ r.outcome # "auth"
  <2>1. d = [c EXCEPT !.lastError = TRUE, !.status = "error",
                      !.unavailable = c.unavailable, !.nextRetryAfter = c.nextRetryAfter]
    BY <1>3 DEF OnFailure
  <2> HIDE DEF d
  <2>2. d.status = "error" /\ d.quota = c.quota /\ d.unavailable = c.unavailable
    BY <2>1 DEF Credential
  <2>3. r.outcome \in {"quota", "other"}
    BY <1>3 DEF Result, Outcomes
  <2> QED
    BY <1>0, <1>4, <2>2, <2>3 DEF Deserved, d
<1> QED
  BY <1>1, <1>2, <1>3

\* So does MarkResult as a whole (manager.go:339-458): its copy has only what
\* the credential had, and what the outcome it is told of accounts for.
LEMMA ApplyResultDeserved ==
  ASSUME NEW c \in Credential, NEW r \in Result, NEW t \in Nat, NEW id, Deserved(c, id),
         r.outcome # "success" => r.outcome \in blame[id], r.retryAfter = 0
  PROVE  Deserved(ApplyResult(c, r, t), id)
<1>1. CASE r.outcome = "success"
  BY <1>1, SuccessDeserved DEF ApplyResult, Result
<1>2. CASE r.outcome # "success"
  <2> DEFINE d == OnFailure(c, r, t)
             f == ModelFailure(d, IF c.modelStates[r.model] # None THEN c.modelStates[r.model]
                                  ELSE ClearModelState, r, t)
             a == ApplyResult(c, r, t)
  <2>1. Deserved(d, id) /\ d \in Credential
    BY <1>2, FailureDeserved
  <2>2. a = IF r.model = <<>> THEN d ELSE [d EXCEPT !.modelStates[r.model] = f]
    BY <1>2 DEF ApplyResult
  <2> HIDE DEF d, f, a
  <2>3. /\ a.status = d.status /\ a.quota = d.quota /\ a.unavailable = d.unavailable
        /\ a.lastError = d.lastError
    BY <2>1, <2>2 DEF Credential
  <2>4. Outcomes \cap blame[id] # {}
    BY <1>2 DEF Result
  <2> QED
    BY <2>1, <2>3, <2>4 DEF Deserved, a
<1> QED
  BY <1>1, <1>2

-----------------------------------------------------------------------------
(* One step of one call *)

\* A handler's step changes its own call only (each request has its goroutine).
LEMMA OneCall ==
  ASSUME CallsOK, NEW q \in Requests, NEW d, CallOK(d), Step(q, d)
  PROVE  CallsOK' /\ calls'[q] = d /\ \A p \in Requests \ {q} : calls'[p] = calls[p]
<1>1. calls \in [Requests -> CallState] /\ calls' = [calls EXCEPT ![q] = d] /\ d \in CallState
  BY DEF CallsOK, Step, CallOK
<1>2. calls' \in [Requests -> CallState] /\ calls'[q] = d
      /\ \A p \in Requests \ {q} : calls'[p] = calls[p]
  BY <1>1
<1>3. \A p \in Requests : CallOK(calls'[p])
  BY <1>2 DEF CallsOK
<1> QED
  BY <1>2, <1>3 DEF CallsOK

\* A call that has not begun (Idle).
LEMMA IdleOK == CallOK(Idle)
<1>1. Idle \in CallState
  BY DEF Idle, CallState, PCs, NoSecret, Secret
<1> QED
  BY <1>1 DEF Idle, CallOK, PlaceOK, SecretOK, TriesOK, AnswerOK

\* An ill-formed request is answered at once, any other goes to the gateway.
LEMMA ServeOK ==
  ASSUME NEW c, CallOK(c), c.pc = "idle", NEW ask \in Ask
  PROVE  CallOK([c EXCEPT !.ask = ask, !.status = Refusal(ask),
                          !.pc = IF Refusal(ask) = 0 THEN "resolve" ELSE "done"])
<1> DEFINE s == Refusal(ask)
           pc == IF s = 0 THEN "resolve" ELSE "done"
           d == [c EXCEPT !.ask = ask, !.status = s, !.pc = pc]
<1>1. s \in Nat /\ pc \in {"resolve", "done"}
  BY DEF Refusal, OpenAIRefusal, AnthropicRefusal
<1>2. c \in CallState /\ c.cred = None /\ c.log = <<>> /\ c.copy = None
  BY DEF CallOK, PlaceOK
<1> HIDE DEF s, pc
<1>3. d \in CallState
  BY <1>1, <1>2 DEF CallState, PCs
<1>4. /\ d.ask = ask /\ d.pc = pc /\ d.cred = None /\ d.log = <<>> /\ d.copy = None
  BY <1>2 DEF CallState
<1> HIDE DEF d
<1>5. CallOK(d)
  BY <1>1, <1>3, <1>4 DEF CallOK, PlaceOK, SecretOK, TriesOK, AnswerOK
<1> QED
  BY <1>5 DEF d, s, pc

\* The gateway's answer: an instance, or a status for the client.
LEMMA ResolveOK ==
  ASSUME NEW c, CallOK(c), c.pc = "resolve"
  PROVE  /\ \A i \in Instance : CallOK([c EXCEPT !.pc = "pick", !.inst = i])
         /\ \A s \in Nat : CallOK([c EXCEPT !.pc = "done", !.status = s])
<1>1. c \in CallState /\ c.cred = None /\ c.log = <<>> /\ c.copy = None /\ c.ask \in Ask
  BY DEF CallOK, PlaceOK
<1>2. ASSUME NEW i \in Instance  PROVE CallOK([c EXCEPT !.pc = "pick", !.inst = i])
  <2> DEFINE d == [c EXCEPT !.pc = "pick", !.inst = i]
  <2>1. d \in CallState
    BY <1>1 DEF CallState, PCs
  <2>2. /\ d.ask = c.ask /\ d.pc = "pick" /\ d.cred = None /\ d.log = <<>> /\ d.copy = None
        /\ d.inst = i
    BY <1>1 DEF CallState
  <2> HIDE DEF d
  <2>3. CallOK(d)
    BY <1>1, <2>1, <2>2 DEF CallOK, PlaceOK, SecretOK, TriesOK, AnswerOK
  <2> QED
    BY <2>3 DEF d
<1>3. ASSUME NEW s \in Nat  PROVE CallOK([c EXCEPT !.pc = "done", !.status = s])
  <2> DEFINE d == [c EXCEPT !.pc = "done", !.status = s]
  <2>1. d \in CallState
    BY <1>1 DEF CallState, PCs
  <2>2. /\ d.ask = c.ask /\ d.pc = "done" /\ d.cred = None /\ d.log = <<>> /\ d.copy = None
    BY <1>1 DEF CallState
  <2> HIDE DEF d
  <2>3. CallOK(d)
    BY <1>1, <2>1, <2>2 DEF CallOK, PlaceOK, SecretOK, TriesOK, AnswerOK
  <2> QED
    BY <2>3 DEF d
<1> QED
  BY <1>2, <1>3

\* A credential comes only to a call whose instance uses one; a call may go
\* on without any.
LEMMA PickOK ==
  ASSUME NEW c, CallOK(c), c.pc = "pick"
  PROVE  /\ \A id \in Ids, token \in Nat : ShouldUseCredential(c.inst) =>
              CallOK([c EXCEPT !.pc = "call", !.cred = id, !.token = token])
         /\ CallOK([c EXCEPT !.pc = "call"])
<1>1. /\ c \in CallState /\ c.cred = None /\ c.log = <<>> /\ c.copy = None /\ c.ask \in Ask
      /\ c.inst \in Instance
  BY DEF CallOK, PlaceOK
<1>2. ASSUME NEW id \in Ids, NEW token \in Nat, ShouldUseCredential(c.inst)
      PROVE  CallOK([c EXCEPT !.pc = "call", !.cred = id, !.token = token])
  <2> DEFINE d == [c EXCEPT !.pc = "call", !.cred = id, !.token = token]
  <2>1. d \in CallState
    BY <1>1 DEF CallState, PCs
  <2>2. /\ d.ask = c.ask /\ d.pc = "call" /\ d.cred = id /\ d.log = <<>> /\ d.copy = None
        /\ d.inst = c.inst
    BY <1>1 DEF CallState
  <2> HIDE DEF d
  <2>3. CallOK(d)
    BY <1>1, <1>2, <2>1, <2>2 DEF CallOK, PlaceOK, SecretOK, TriesOK, AnswerOK
  <2> QED
    BY <2>3 DEF d
<1>3. CallOK([c EXCEPT !.pc = "call"])
  <2> DEFINE d == [c EXCEPT !.pc = "call"]
  <2>1. d \in CallState
    BY <1>1 DEF CallState, PCs
  <2>2. /\ d.ask = c.ask /\ d.pc = "call" /\ d.cred = None /\ d.log = <<>> /\ d.copy = None
        /\ d.inst = c.inst
    BY <1>1 DEF CallState
  <2> HIDE DEF d
  <2>3. CallOK(d)
    BY <1>1, <2>1, <2>2 DEF CallOK, PlaceOK, SecretOK, TriesOK, AnswerOK
  <2> QED
    BY <2>3 DEF d
<1> QED
  BY <1>2, <1>3

\* An attempt (RetryGenerate, or a stream's only one) was within the number
\* allowed, and every one before it was worth a retry.
LEMMA AttemptOK ==
  ASSUME NEW c, CallOK(c), c.pc = "call", NEW s \in Nat, NEW pc \in {"call", "mark"},
         pc = "call" <=> MoreAttempts(c, s)
  PROVE  CallOK([c EXCEPT !.pc = pc, !.sent = SecretFor(c), !.log = Append(@, s)])
<1> DEFINE d == [c EXCEPT !.pc = pc, !.sent = SecretFor(c), !.log = Append(c.log, s)]
           n == Len(c.log)
<1>1. /\ c \in CallState /\ c.ask \in Ask /\ c.inst \in Instance /\ c.copy = None
      /\ c.log \in Seq(Nat)
      /\ c.cred # None => ShouldUseCredential(c.inst)
  BY DEF CallOK, PlaceOK, CallState
<1>2. /\ Append(c.log, s) \in Seq(Nat) /\ Append(c.log, s) # <<>>
      /\ Len(Append(c.log, s)) = n + 1 /\ n \in Nat
      /\ Append(c.log, s)[n + 1] = s
      /\ \A k \in 1..n : Append(c.log, s)[k] = c.log[k]
  BY <1>1
<1>3. d \in CallState
  BY <1>1, <1>2, SecretForType DEF CallState, PCs
<1>4. /\ d.ask = c.ask /\ d.inst = c.inst /\ d.cred = c.cred /\ d.token = c.token
      /\ d.copy = None /\ d.pc = pc /\ d.sent = SecretFor(c) /\ d.log = Append(c.log, s)
  BY <1>1 DEF CallState
<1> HIDE DEF d
<1>5. PlaceOK(d)
  BY <1>1, <1>2, <1>4 DEF PlaceOK
<1>6. SecretOK(d)
  <2>1. SecretFor(d) = SecretFor(c)
    BY <1>4, SecretForSame
  <2> QED
    BY <2>1, <1>4 DEF SecretOK
<1>7. Most(d) = Most(c) /\ Most(c) \in Nat /\ Most(c) >= 1
      /\ (~c.ask.stream => Most(c) = MaxRetries(c.inst) + 1 /\ MaxRetries(c.inst) \in Nat)
      /\ (c.ask.stream => Most(c) = 1)
  BY <1>1, <1>4 DEF Most, MaxRetries, Instance
<1>8. /\ n + 1 <= Most(c)
      /\ \A k \in 1..n : IsRetryable(c.log[k])
      /\ n # 0 => ~c.ask.stream
  BY <1>1, <1>7 DEF CallOK, TriesOK
<1>9. Len(d.log) = n + 1 /\ Last(d.log) = s
  BY <1>2, <1>4 DEF Last
<1>10. \A k \in 1..n : IsRetryable(d.log[k])
  BY <1>8, <1>2, <1>4
<1>11. CASE pc = "call"
  <2>1. ~c.ask.stream /\ IsRetryable(s) /\ n + 1 <= MaxRetries(c.inst)
    BY <1>11 DEF MoreAttempts
  <2>2. \A k \in 1..(n + 1) : IsRetryable(d.log[k])
    BY <2>1, <1>10, <1>2, <1>4
  <2>3. TriesOK(d)
    BY <2>1, <2>2, <1>2, <1>4, <1>7, <1>9, <1>11 DEF TriesOK
  <2>4. CallOK(d)
    BY <2>3, <1>3, <1>4, <1>5, <1>6, <1>11 DEF CallOK, AnswerOK
  <2> QED
    BY <2>4 DEF d
<1>12. CASE pc = "mark"
  <2>1. n + 1 = Most(c) \/ ~IsRetryable(s)
    BY <1>12, <1>2, <1>7, <1>8 DEF MoreAttempts
  <2>2. (n + 1) - 1 = n
    BY <1>2
  <2>3. TriesOK(d)
    BY <2>1, <2>2, <1>2, <1>4, <1>7, <1>8, <1>9, <1>10, <1>12 DEF TriesOK
  <2>4. CallOK(d)
    BY <2>3, <1>3, <1>4, <1>5, <1>6, <1>12 DEF CallOK, AnswerOK
  <2> QED
    BY <2>4 DEF d
<1> QED
  BY <1>11, <1>12

\* A success is the end of the attempts.
LEMMA SuccessOK ==
  ASSUME NEW c, CallOK(c), c.pc = "call"
  PROVE  CallOK([c EXCEPT !.pc = "mark", !.sent = SecretFor(c), !.log = Append(@, 200)])
<1>1. ~MoreAttempts(c, 200)
  BY DEF MoreAttempts, IsRetryable
<1> DEFINE pc == "mark"
           s == 200
<1>2. pc \in {"call", "mark"} /\ (pc = "call" <=> MoreAttempts(c, s)) /\ s \in Nat
  BY <1>1
<1> HIDE DEF pc, s
<1>3. CallOK([c EXCEPT !.pc = pc, !.sent = SecretFor(c), !.log = Append(@, s)])
  BY <1>2, AttemptOK
<1> QED
  BY <1>3 DEF pc, s

\* A failure is, too, unless it is worth another attempt.
LEMMA FailureOK ==
  ASSUME NEW c, CallOK(c), c.pc = "call", NEW s \in Nat
  PROVE  CallOK(Attempt(c, s))
<1> DEFINE pc == IF MoreAttempts(c, s) THEN "call" ELSE "mark"
<1>2. pc \in {"call", "mark"} /\ (pc = "call" <=> MoreAttempts(c, s))
  OBVIOUS
<1>4. Attempt(c, s) = [c EXCEPT !.pc = pc, !.sent = SecretFor(c), !.log = Append(@, s)]
  BY DEF Attempt
<1> HIDE DEF pc
<1>3. CallOK([c EXCEPT !.pc = pc, !.sent = SecretFor(c), !.log = Append(@, s)])
  BY <1>2, AttemptOK
<1> QED
  BY <1>3, <1>4

\* What the provider reports is a result MarkResult takes.
LEMMA ReportFacts ==
  ASSUME NEW c, CallOK(c), c.pc = "mark"
  PROVE  ReportOf(c) \in Result /\ ReportOf(c).outcome = Outcome(Last(c.log))
         /\ ReportOf(c).retryAfter = 0
<1>1. c.ask.model \in Models
  BY DEF CallOK, PlaceOK, Ask
<1>2. Outcome(Last(c.log)) \in Outcomes
  BY OutcomeFacts
<1> QED
  BY <1>1, <1>2 DEF ReportOf, Result

\* markResult and MarkResult: the manager is told of a call with a credential,
\* and may have a copy to write back.
LEMMA MarkOK ==
  ASSUME NEW c, CallOK(c), c.pc = "mark"
  PROVE  /\ c.cred = None => CallOK([c EXCEPT !.pc = "reply"])
         /\ CallOK([c EXCEPT !.pc = "reply", !.report = Outcome(Last(c.log))])
         /\ \A x \in Credential : c.cred # None =>
              CallOK([c EXCEPT !.pc = "update", !.report = Outcome(Last(c.log)), !.copy = x])
<1>1. /\ c \in CallState /\ c.ask \in Ask /\ c.inst \in Instance /\ c.log # <<>>
      /\ c.copy = None /\ TriesOK(c) /\ c.sent = SecretFor(c)
      /\ c.cred # None => ShouldUseCredential(c.inst)
  BY DEF CallOK, PlaceOK, SecretOK
<1>2. Outcome(Last(c.log)) \in Outcomes
  BY OutcomeFacts
<1>3. ConstantsAssumption
  BY ConstantsAssumption
<1>4. ASSUME NEW d \in CallState, d.pc \in {"reply", "update"},
             d.inst = c.inst, d.cred = c.cred, d.token = c.token, d.ask = c.ask,
             d.log = c.log, d.sent = c.sent,
             c.cred # None => d.report = Outcome(Last(c.log)),
             IF d.pc = "update" THEN d.copy # None /\ c.cred # None ELSE d.copy = None
      PROVE  CallOK(d)
  <2>1. SecretFor(d) = SecretFor(c) /\ Most(d) = Most(c)
    BY <1>4, SecretForSame DEF Most
  <2>2. PlaceOK(d)
    BY <1>1, <1>4 DEF PlaceOK
  <2>3. TriesOK(d)
    BY <1>1, <1>4, <2>1 DEF TriesOK
  <2> QED
    BY <1>1, <1>4, <2>1, <2>2, <2>3 DEF CallOK, SecretOK, AnswerOK
<1>5. ASSUME c.cred = None  PROVE CallOK([c EXCEPT !.pc = "reply"])
  <2> DEFINE d == [c EXCEPT !.pc = "reply"]
  <2>1. d \in CallState
    BY <1>1 DEF CallState, PCs
  <2>2. /\ d.pc = "reply" /\ d.inst = c.inst /\ d.cred = c.cred /\ d.token = c.token
        /\ d.ask = c.ask /\ d.log = c.log /\ d.sent = c.sent /\ d.copy = None
    BY <1>1 DEF CallState
  <2> HIDE DEF d
  <2>3. CallOK(d)
    BY <1>4, <1>5, <2>1, <2>2
  <2> QED
    BY <2>3 DEF d
<1>6. CallOK([c EXCEPT !.pc = "reply", !.report = Outcome(Last(c.log))])
  <2> DEFINE r == Outcome(Last(c.log))
             d == [c EXCEPT !.pc = "reply", !.report = r]
  <2>0. r \in Outcomes
    BY <1>2
  <2> HIDE DEF r
  <2>1. d \in CallState
    BY <1>1, <2>0 DEF CallState, PCs
  <2>2. /\ d.pc = "reply" /\ d.inst = c.inst /\ d.cred = c.cred /\ d.token = c.token
        /\ d.ask = c.ask /\ d.log = c.log /\ d.sent = c.sent /\ d.copy = None /\ d.report = r
    BY <1>1 DEF CallState
  <2> HIDE DEF d
  <2>3. CallOK(d)
    BY <1>4, <2>1, <2>2 DEF r
  <2> QED
    BY <2>3 DEF d, r
<1>7. ASSUME NEW x \in Credential, c.cred # None
      PROVE  CallOK([c EXCEPT !.pc = "update", !.report = Outcome(Last(c.log)), !.copy = x])
  <2> DEFINE r == Outcome(Last(c.log))
             d == [c EXCEPT !.pc = "update", !.report = r, !.copy = x]
  <2>0. r \in Outcomes /\ x # None
    BY <1>2, <1>3 DEF ConstantsAssumption
  <2> HIDE DEF r
  <2>1. d \in CallState
    BY <1>1, <2>0 DEF CallState, PCs
  <2>2. /\ d.pc = "update" /\ d.inst = c.inst /\ d.cred = c.cred /\ d.token = c.token
        /\ d.ask = c.ask /\ d.log = c.log /\ d.sent = c.sent /\ d.copy = x /\ d.report = r
    BY <1>1 DEF CallState
  <2> HIDE DEF d
  <2>3. CallOK(d)
    BY <1>4, <1>7, <2>0, <2>1, <2>2 DEF r
  <2> QED
    BY <2>3 DEF d, r
<1> QED
  BY <1>5, <1>6, <1>7

\* The write of the copy, done or lost, leaves the call as it was.
LEMMA UpdateOK ==
  ASSUME NEW c, CallOK(c), c.pc = "update"
  PROVE  CallOK([c EXCEPT !.pc = "reply", !.copy = None])
<1>1. /\ c \in CallState /\ c.ask \in Ask /\ c.inst \in Instance /\ c.log # <<>>
      /\ TriesOK(c) /\ c.sent = SecretFor(c) /\ c.cred # None
      /\ ShouldUseCredential(c.inst) /\ c.report = Outcome(Last(c.log))
  BY DEF CallOK, PlaceOK, SecretOK, AnswerOK
<1> DEFINE d == [c EXCEPT !.pc = "reply", !.copy = None]
<1>2. d \in CallState
  BY <1>1 DEF CallState, PCs
<1>3. /\ d.pc = "reply" /\ d.inst = c.inst /\ d.cred = c.cred /\ d.token = c.token
      /\ d.ask = c.ask /\ d.log = c.log /\ d.sent = c.sent /\ d.copy = None
      /\ d.report = c.report
  BY <1>1 DEF CallState
<1> HIDE DEF d
<1>4. SecretFor(d) = SecretFor(c) /\ Most(d) = Most(c)
  BY <1>3, SecretForSame DEF Most
<1>5. PlaceOK(d)
  BY <1>1, <1>3 DEF PlaceOK
<1>6. TriesOK(d)
  BY <1>1, <1>3, <1>4 DEF TriesOK
<1>7. CallOK(d)
  BY <1>1, <1>2, <1>3, <1>4, <1>5, <1>6 DEF CallOK, SecretOK, AnswerOK
<1> QED
  BY <1>7 DEF d

\* The frames a client gets are sequences of frames.
LEMMA FramesType ==
  ASSUME NEW ask
  PROVE  /\ Opening(ask) \in Seq({"open", "chunk", "close"})
         /\ \A text : ChunkFrames(ask, text) \in Seq({"open", "chunk", "close"})
<1> DEFINE F == {"open", "chunk", "close"}
<1>1. "open" \in F /\ "chunk" \in F
  OBVIOUS
<1> HIDE DEF F
<1>2. << >> \in Seq(F) /\ <<"open">> \in Seq(F) /\ <<"chunk">> \in Seq(F)
  BY <1>1
<1>3. Opening(ask) \in Seq(F)
  BY <1>2 DEF Opening
<1>4. ASSUME NEW text  PROVE ChunkFrames(ask, text) \in Seq(F)
  BY <1>2 DEF ChunkFrames, OpenAIFrames, AnthropicFrames
<1> QED
  BY <1>3, <1>4 DEF F

\* A call on its way out keeps what it has to account for.
LEMMA LeavingOK ==
  ASSUME NEW c, CallOK(c), c.pc \in {"reply", "stream"}, NEW d \in CallState,
         d.pc \in {"stream", "done"},
         d.inst = c.inst, d.cred = c.cred, d.token = c.token, d.ask = c.ask,
         d.log = c.log, d.sent = c.sent, d.report = c.report, d.copy = c.copy
  PROVE  /\ PlaceOK(d) /\ SecretOK(d) /\ TriesOK(d)
         /\ c.log # <<>>
         /\ c.cred # None => d.report = Outcome(Last(c.log))
<1>1. /\ c \in CallState /\ c.ask \in Ask /\ c.inst \in Instance /\ c.log # <<>>
      /\ TriesOK(c) /\ c.sent = SecretFor(c) /\ c.copy = None
      /\ c.cred # None => ShouldUseCredential(c.inst) /\ c.report = Outcome(Last(c.log))
  BY DEF CallOK, PlaceOK, SecretOK, AnswerOK
<1>2. SecretFor(d) = SecretFor(c) /\ Most(d) = Most(c)
  BY SecretForSame DEF Most
<1>3. PlaceOK(d)
  BY <1>1 DEF PlaceOK
<1>4. TriesOK(d)
  BY <1>1, <1>2 DEF TriesOK
<1> QED
  BY <1>1, <1>2, <1>3, <1>4 DEF SecretOK

\* An answer, or the beginning of a stream.
LEMMA ReplyOK ==
  ASSUME NEW c, CallOK(c), c.pc = "reply"
  PROVE  LET ok == Last(c.log) = 200
             streams == ok /\ c.ask.stream
         IN CallOK([c EXCEPT !.status = IF ok THEN 200 ELSE 502,
                             !.pc = IF streams THEN "stream" ELSE "done",
                             !.frames = IF streams THEN Opening(c.ask) ELSE c.frames])
<1> DEFINE ok == Last(c.log) = 200
           streams == ok /\ c.ask.stream
           s == IF ok THEN 200 ELSE 502
           pc == IF streams THEN "stream" ELSE "done"
           fs == IF streams THEN Opening(c.ask) ELSE c.frames
           d == [c EXCEPT !.status = s, !.pc = pc, !.frames = fs]
<1>1. c \in CallState
  BY DEF CallOK
<1>2. s \in Nat /\ pc \in {"stream", "done"} /\ fs \in Seq({"open", "chunk", "close"})
  <2>1. Opening(c.ask) \in Seq({"open", "chunk", "close"})
    BY FramesType
  <2>2. c.frames \in Seq({"open", "chunk", "close"})
    BY <1>1 DEF CallState
  <2> QED
    BY <2>1, <2>2
<1>3. s = (IF Last(c.log) = 200 THEN 200 ELSE 502) /\ (pc = "stream" => s = 200)
      /\ (pc = "stream" => c.ask.stream /\ Last(c.log) = 200)
      /\ (pc = "done" => ~(s = 200 /\ c.ask.stream))
  OBVIOUS
<1> HIDE DEF s, pc, fs, ok, streams
<1>4. d \in CallState
  BY <1>1, <1>2 DEF CallState, PCs
<1>5. /\ d.pc = pc /\ d.inst = c.inst /\ d.cred = c.cred /\ d.token = c.token
      /\ d.ask = c.ask /\ d.log = c.log /\ d.sent = c.sent /\ d.report = c.report
      /\ d.copy = c.copy /\ d.status = s
  BY <1>1 DEF CallState
<1> HIDE DEF d
<1>6. /\ PlaceOK(d) /\ SecretOK(d) /\ TriesOK(d)
      /\ c.cred # None => d.report = Outcome(Last(c.log))
  BY <1>2, <1>4, <1>5, LeavingOK
<1>7. AnswerOK(d)
  BY <1>2, <1>3, <1>5, <1>6 DEF AnswerOK
<1>8. CallOK(d)
  BY <1>4, <1>6, <1>7 DEF CallOK
<1> QED
  BY <1>8 DEF d, s, pc, fs, streams, ok

\* A chunk of a stream.
LEMMA ChunkOK ==
  ASSUME NEW c, CallOK(c), c.pc = "stream", NEW text
  PROVE  CallOK([c EXCEPT !.frames = @ \o ChunkFrames(c.ask, text)])
<1> DEFINE fs == c.frames \o ChunkFrames(c.ask, text)
           d == [c EXCEPT !.frames = fs]
<1>1. c \in CallState /\ c.ask.stream /\ Last(c.log) = 200 /\ c.status = 200
  BY DEF CallOK, AnswerOK
<1>2. fs \in Seq({"open", "chunk", "close"})
  <2>1. c.frames \in Seq({"open", "chunk", "close"})
    BY <1>1 DEF CallState
  <2>2. ChunkFrames(c.ask, text) \in Seq({"open", "chunk", "close"})
    BY FramesType
  <2> QED
    BY <2>1, <2>2
<1> HIDE DEF fs
<1>3. d \in CallState
  BY <1>1, <1>2 DEF CallState
<1>4. /\ d.pc = "stream" /\ d.inst = c.inst /\ d.cred = c.cred /\ d.token = c.token
      /\ d.ask = c.ask /\ d.log = c.log /\ d.sent = c.sent /\ d.report = c.report
      /\ d.copy = c.copy /\ d.status = c.status
  BY <1>1 DEF CallState
<1> HIDE DEF d
<1>5. /\ PlaceOK(d) /\ SecretOK(d) /\ TriesOK(d)
      /\ c.cred # None => d.report = Outcome(Last(c.log))
  BY <1>3, <1>4, LeavingOK
<1>6. AnswerOK(d)
  BY <1>1, <1>4, <1>5 DEF AnswerOK
<1>7. CallOK(d)
  BY <1>3, <1>5, <1>6 DEF CallOK
<1> QED
  BY <1>7 DEF d, fs

\* The end of a stream is its closing frame.
LEMMA EndOK ==
  ASSUME NEW c, CallOK(c), c.pc = "stream"
  PROVE  CallOK([c EXCEPT !.pc = "done", !.frames = Append(@, "close")])
<1> DEFINE fs == Append(c.frames, "close")
           d == [c EXCEPT !.pc = "done", !.frames = fs]
<1>1. c \in CallState /\ c.ask.stream /\ Last(c.log) = 200 /\ c.status = 200
  BY DEF CallOK, AnswerOK
<1>2. fs \in Seq({"open", "chunk", "close"}) /\ fs # <<>> /\ fs[Len(fs)] = "close"
  BY <1>1 DEF CallState
<1> HIDE DEF fs
<1>3. d \in CallState
  BY <1>1, <1>2 DEF CallState, PCs
<1>4. /\ d.pc = "done" /\ d.inst = c.inst /\ d.cred = c.cred /\ d.token = c.token
      /\ d.ask = c.ask /\ d.log = c.log /\ d.sent = c.sent /\ d.report = c.report
      /\ d.copy = c.copy /\ d.status = c.status /\ d.frames = fs
  BY <1>1 DEF CallState
<1> HIDE DEF d
<1>5. /\ PlaceOK(d) /\ SecretOK(d) /\ TriesOK(d)
      /\ c.cred # None => d.report = Outcome(Last(c.log))
  BY <1>3, <1>4, LeavingOK
<1>6. AnswerOK(d)
  BY <1>1, <1>2, <1>4, <1>5 DEF AnswerOK
<1>7. CallOK(d)
  BY <1>3, <1>5, <1>6 DEF CallOK
<1> QED
  BY <1>7 DEF d, fs

-----------------------------------------------------------------------------
(* The inductive invariant *)

\* A call that is not touched keeps its account while the blame grows.
LEMMA AccountKept ==
  ASSUME NEW p \in Requests, CallsOK, BlameOK(p), calls'[p] = calls[p], gone \subseteq gone',
         \A id \in Ids : blame[id] \subseteq blame'[id]
  PROVE  BlameOK(p)'
<1>1. CallOK(calls[p])
  BY DEF CallsOK
<1>2. calls[p].cred \in Ids \cup {None} /\ (calls[p].pc = "update" => calls[p].cred # None)
  BY <1>1 DEF CallOK, PlaceOK, CallState
<1> DEFINE c == calls[p]
<1> QED
  BY <1>2 DEF BlameOK, Deserved

\* So do the credentials.
LEMMA RecordsKept ==
  ASSUME BlameIsDeserved, creds' = creds, \A id \in Ids : blame[id] \subseteq blame'[id]
  PROVE  BlameIsDeserved'
BY DEF BlameIsDeserved, Deserved

\* And the copies that refreshes have.
LEMMA CopiesKept ==
  ASSUME RefreshOK, refresh' = refresh, issued' = issued,
         \A id \in Ids : blame[id] \subseteq blame'[id]
  PROVE  RefreshOK'
BY DEF RefreshOK, Deserved

\* With nothing new to blame, a record needs what has happened so far.
LEMMA NothingNew ==
  ASSUME blame' = blame, \A id \in Ids : creds'[id] # None => Deserved(creds'[id], id)
  PROVE  BlameIsDeserved'
BY DEF BlameIsDeserved, Deserved

\* A step of a call that leaves the credentials alone.
LEMMA CallStep ==
  ASSUME ExchangeInv, NEW q \in Requests, NEW d, CallOK(d), Step(q, d),
         now' = now, creds' = creds, gone' = gone, refresh' = refresh, issued' = issued,
         blame' \in [Ids -> SUBSET Blames],
         \A id \in Ids : blame[id] \subseteq blame'[id],
         calls'[q] = d => BlameOK(q)'
  PROVE  ExchangeInv'
<1>1. CallsOK' /\ calls'[q] = d /\ \A p \in Requests \ {q} : calls'[p] = calls[p]
  BY OneCall DEF ExchangeInv
<1>2. BlameIsDeserved' /\ RefreshOK'
  BY RecordsKept, CopiesKept DEF ExchangeInv
<1>3. ASSUME NEW p \in Requests  PROVE BlameOK(p)'
  <2>1. CASE p = q
    BY <1>1, <2>1
  <2>2. CASE p # q
    BY <1>1, <2>2, AccountKept DEF ExchangeInv
  <2> QED
    BY <2>1, <2>2
<1> QED
  BY <1>1, <1>2, <1>3 DEF ExchangeInv

\* One that puts the call where it owes the manager nothing.
LEMMA QuietStep ==
  ASSUME ExchangeInv, NEW q \in Requests, NEW d, CallOK(d), Step(q, d),
         d.pc \notin {"mark", "update"},
         now' = now, creds' = creds, gone' = gone, refresh' = refresh, issued' = issued,
         blame' = blame
  PROVE  ExchangeInv'
<1>1. calls'[q] = d => BlameOK(q)'
  BY DEF BlameOK
<1> QED
  BY <1>1, CallStep DEF ExchangeInv

\* The handler up to the gateway (ServeLLMApi).
LEMMA ServeStep ==
  ASSUME ExchangeInv, NEW q \in Requests, NEW ask \in Asks[q], ServeLLMApi(q, ask)
  PROVE  ExchangeInv'
<1> DEFINE c == calls[q]
           d == [c EXCEPT !.ask = ask, !.status = Refusal(ask),
                          !.pc = IF Refusal(ask) = 0 THEN "resolve" ELSE "done"]
<1>1. CallOK(c) /\ c \in CallState
  BY DEF ExchangeInv, CallsOK, CallOK
<1>2. ask \in Ask
  BY ExchangeAssumption DEF ExchangeAssumption
<1>3. c.pc = "idle" /\ Step(q, d) /\ UNCHANGED <<now, creds, gone, refresh, issued, blame>>
  BY DEF ServeLLMApi
<1>4. d.pc \in {"resolve", "done"}
  BY <1>1 DEF CallState
<1> HIDE DEF c
<1>5. CallOK(d)
  BY <1>1, <1>2, <1>3, ServeOK
<1> HIDE DEF d
<1> QED
  BY <1>3, <1>4, <1>5, QuietStep

\* The gateway's answer, an instance or an error.
LEMMA ResolveStep ==
  ASSUME ExchangeInv, NEW q \in Requests,
         (\E i \in Serving[q] : Resolve(q, i)) \/ \E s \in GatewayErrors : ResolveFails(q, s)
  PROVE  ExchangeInv'
<1>1. CallOK(calls[q]) /\ calls[q] \in CallState
  BY DEF ExchangeInv, CallsOK, CallOK
<1>2. ASSUME NEW i \in Serving[q], Resolve(q, i)  PROVE ExchangeInv'
  <2> DEFINE d == [calls[q] EXCEPT !.pc = "pick", !.inst = i]
  <2>1. i \in Instance
    BY ExchangeAssumption DEF ExchangeAssumption
  <2>2. /\ calls[q].pc = "resolve" /\ Step(q, d)
        /\ UNCHANGED <<now, creds, gone, refresh, issued, blame>>
    BY <1>2 DEF Resolve
  <2>3. d.pc = "pick"
    BY <1>1 DEF CallState
  <2>4. CallOK(d)
    BY <1>1, <2>1, <2>2, ResolveOK
  <2> HIDE DEF d
  <2> QED
    BY <2>2, <2>3, <2>4, QuietStep
<1>3. ASSUME NEW s \in GatewayErrors, ResolveFails(q, s)  PROVE ExchangeInv'
  <2> DEFINE d == [calls[q] EXCEPT !.pc = "done", !.status = s]
  <2>1. s \in Nat
    BY DEF GatewayErrors
  <2>2. /\ calls[q].pc = "resolve" /\ Step(q, d)
        /\ UNCHANGED <<now, creds, gone, refresh, issued, blame>>
    BY <1>3 DEF ResolveFails
  <2>3. d.pc = "done"
    BY <1>1 DEF CallState
  <2>4. CallOK(d)
    BY <1>1, <2>1, <2>2, ResolveOK
  <2> HIDE DEF d
  <2> QED
    BY <2>2, <2>3, <2>4, QuietStep
<1> QED
  BY <1>2, <1>3

\* A pick comes from the pool, where a deleted or disabled credential is not.
LEMMA PickableFacts ==
  ASSUME NEW p, NEW m, NEW id \in Pickable(p, m)
  PROVE  id \in Ids /\ creds[id] # None /\ creds[id].status # "disabled"
<1>1. id \in Pool!Candidates(p, {})
  BY DEF Pickable, Pool!Servable
<1>2. id \in Ids /\ [i \in Ids |-> Scheduled(creds[i])][id] # None
  BY <1>1 DEF Pool!Candidates
<1>3. Scheduled(creds[id]) # None
  BY <1>2
<1> QED
  BY <1>2, <1>3 DEF Scheduled

\* pickCredential, with or without a credential in the end.
LEMMA PickStep ==
  ASSUME ExchangeInv, NEW q \in Requests,
         (\E id \in Ids, token \in 1..MaxToken : PickCredential(q, id, token)) \/ PickNone(q)
  PROVE  ExchangeInv'
<1>1. CallOK(calls[q]) /\ calls[q] \in CallState
  BY DEF ExchangeInv, CallsOK, CallOK
<1>2. ASSUME NEW id \in Ids, NEW token \in 1..MaxToken, PickCredential(q, id, token)
      PROVE  ExchangeInv'
  <2> DEFINE d == [calls[q] EXCEPT !.pc = "call", !.cred = id, !.token = token]
  <2>1. token \in Nat
    OBVIOUS
  <2>2. /\ calls[q].pc = "pick" /\ ShouldUseCredential(calls[q].inst)
        /\ Step(q, d) /\ UNCHANGED <<now, creds, gone, refresh, issued, blame>>
    BY <1>2 DEF PickCredential
  <2>3. d.pc = "call"
    BY <1>1 DEF CallState
  <2>4. CallOK(d)
    BY <1>1, <2>1, <2>2, PickOK
  <2> HIDE DEF d
  <2> QED
    BY <2>2, <2>3, <2>4, QuietStep
<1>3. ASSUME PickNone(q)  PROVE ExchangeInv'
  <2> DEFINE d == [calls[q] EXCEPT !.pc = "call"]
  <2>2. calls[q].pc = "pick" /\ Step(q, d) /\ UNCHANGED <<now, creds, gone, refresh, issued, blame>>
    BY <1>3 DEF PickNone
  <2>3. d.pc = "call"
    BY <1>1 DEF CallState
  <2>4. CallOK(d)
    BY <1>1, <2>2, PickOK
  <2> HIDE DEF d
  <2> QED
    BY <2>2, <2>3, <2>4, QuietStep
<1> QED
  BY <1>2, <1>3

\* An attempt's place, and what it says of it.
LEMMA AttemptFacts ==
  ASSUME NEW c \in CallState, NEW s \in Nat
  PROVE  /\ Attempt(c, s).pc = IF MoreAttempts(c, s) THEN "call" ELSE "mark"
         /\ Attempt(c, s).cred = c.cred /\ Last(Attempt(c, s).log) = s
<1> DEFINE pc == IF MoreAttempts(c, s) THEN "call" ELSE "mark"
           log == Append(c.log, s)
<1>1. c.log \in Seq(Nat)
  BY DEF CallState
<1>2. Len(log) = Len(c.log) + 1 /\ log[Len(c.log) + 1] = s
  BY <1>1
<1>3. Attempt(c, s) = [c EXCEPT !.pc = pc, !.sent = SecretFor(c), !.log = log]
  BY DEF Attempt
<1> HIDE DEF pc, log
<1>4. Attempt(c, s).pc = pc /\ Attempt(c, s).cred = c.cred /\ Attempt(c, s).log = log
  BY <1>3 DEF CallState
<1> QED
  BY <1>2, <1>4 DEF Last, pc

\* An attempt that the vendor answers.
LEMMA SuccessStep ==
  ASSUME ExchangeInv, NEW q \in Requests, CallSucceeds(q)
  PROVE  ExchangeInv'
<1> DEFINE c == calls[q]
           d == [c EXCEPT !.pc = "mark", !.sent = SecretFor(c), !.log = Append(@, 200)]
<1>1. CallOK(c) /\ c \in CallState
  BY DEF ExchangeInv, CallsOK, CallOK
<1>2. c.pc = "call" /\ Step(q, d) /\ UNCHANGED <<now, creds, gone, refresh, issued, blame>>
  BY DEF CallSucceeds
<1> HIDE DEF c
<1>3. Last(d.log) = 200
  <2>1. c.log \in Seq(Nat) /\ d.log = Append(c.log, 200)
    BY <1>1 DEF CallState
  <2>2. Append(c.log, 200)[Len(Append(c.log, 200))] = 200
    BY <2>1
  <2> HIDE DEF d
  <2> QED
    BY <2>1, <2>2 DEF Last
<1>4. d.pc = "mark"
  BY <1>1 DEF CallState
<1>5. CallOK(d)
  BY <1>1, <1>2, SuccessOK
<1> HIDE DEF d
<1>6. calls'[q] = d => BlameOK(q)'
  BY <1>3, <1>4 DEF BlameOK
<1> QED
  BY <1>2, <1>5, <1>6, CallStep DEF ExchangeInv

\* An attempt that fails, with what is left of the retries.
LEMMA FailStep ==
  ASSUME ExchangeInv, NEW q \in Requests, NEW e \in Errors \cup {None}, CallFails(q, e)
  PROVE  ExchangeInv'
<1> DEFINE c == calls[q]
           s == WrapEinoError(e)
           d == Attempt(c, s)
<1>1. CallOK(c) /\ c \in CallState
  BY DEF ExchangeInv, CallsOK, CallOK
<1>2. s \in Nat
  BY ExchangeAssumption DEF ExchangeAssumption, WrapEinoError
<1>3. /\ c.pc = "call" /\ Step(q, d) /\ UNCHANGED <<now, creds, gone, refresh, issued>>
      /\ blame' = IF c.cred # None /\ ~MoreAttempts(c, s)
                  THEN [blame EXCEPT ![c.cred] = @ \cup {Outcome(s)}] ELSE blame
  BY DEF CallFails
<1>4. c.cred \in Ids \cup {None} /\ blame \in [Ids -> SUBSET Blames]
  BY <1>1 DEF CallState, ExchangeInv
<1> HIDE DEF c, s
<1>5. /\ d.pc = IF MoreAttempts(c, s) THEN "call" ELSE "mark"
      /\ d.cred = c.cred /\ Last(d.log) = s
  BY <1>1, <1>2, AttemptFacts
<1>6. CallOK(d)
  BY <1>1, <1>2, <1>3, FailureOK
<1>7. /\ blame' \in [Ids -> SUBSET Blames]
      /\ \A id \in Ids : blame[id] \subseteq blame'[id]
  <2>1. Outcome(s) \in Outcomes
    BY OutcomeFacts
  <2> QED
    BY <2>1, <1>3, <1>4 DEF Blames
<1> HIDE DEF d
<1>8. calls'[q] = d => BlameOK(q)'
  <2>1. d.pc = "mark" /\ d.cred # None => Outcome(s) \in blame'[d.cred]
    BY <1>3, <1>4, <1>5
  <2> QED
    BY <2>1, <1>5 DEF BlameOK
<1> QED
  BY <1>3, <1>6, <1>7, <1>8, CallStep

\* An attempt that ends because the client has left.
LEMMA CancelStep ==
  ASSUME ExchangeInv, NEW q \in Requests, CallCancelled(q)
  PROVE  ExchangeInv'
<1> DEFINE d == Attempt(calls[q], WrapEinoError(None))
<1>1. CallOK(calls[q])
  BY DEF ExchangeInv, CallsOK
<1>2. WrapEinoError(None) \in Nat
  BY DEF WrapEinoError
<1>3. /\ calls[q].pc = "call" /\ q \in gone /\ Step(q, d)
      /\ UNCHANGED <<now, creds, gone, refresh, issued, blame>>
  BY DEF CallCancelled
<1>4. CallOK(d)
  BY <1>1, <1>2, <1>3, FailureOK
<1> HIDE DEF d
<1>5. BlameOK(q)'
  BY <1>3 DEF BlameOK
<1> QED
  BY <1>3, <1>4, <1>5, CallStep DEF ExchangeInv

\* MarkResult's copy is accounted for while the client waits.
LEMMA MarkStep ==
  ASSUME ExchangeInv, NEW q \in Requests, MarkResult(q)
  PROVE  ExchangeInv'
<1> DEFINE c == calls[q]
           r == ReportOf(c)
           x == ApplyResult(creds[c.cred], r, now)
<1>1. CallOK(c) /\ c \in CallState
  BY DEF ExchangeInv, CallsOK, CallOK
<1>2. /\ c.pc = "mark" /\ UNCHANGED <<now, creds, gone, refresh, issued, blame>>
      /\ IF c.cred = None THEN Step(q, [c EXCEPT !.pc = "reply"])
         ELSE IF creds[c.cred] = None \/ ~Changes(creds[c.cred], r)
         THEN Step(q, [c EXCEPT !.pc = "reply", !.report = r.outcome])
         ELSE Step(q, [c EXCEPT !.pc = "update", !.report = r.outcome, !.copy = x])
  BY DEF MarkResult
<1>3. r \in Result /\ r.outcome = Outcome(Last(c.log)) /\ r.retryAfter = 0
  BY <1>1, <1>2, ReportFacts
<1>4. BlameOK(q) /\ blame \in [Ids -> SUBSET Blames]
      /\ creds \in [Ids -> Credential \cup {None}] /\ now \in Nat /\ BlameIsDeserved
  BY DEF ExchangeInv
<1>5. q \notin gone /\ c.cred # None /\ r.outcome # "success" => r.outcome \in blame[c.cred]
  BY <1>2, <1>3, <1>4, OutcomeFacts DEF BlameOK
<1>6. c.cred \in Ids \cup {None}
  BY <1>1 DEF CallState
<1> HIDE DEF c, r
<1>7. CASE c.cred = None
  <2> DEFINE d == [c EXCEPT !.pc = "reply"]
  <2>1. Step(q, d) /\ d.pc = "reply"
    BY <1>1, <1>2, <1>7 DEF CallState
  <2>2. CallOK(d)
    BY <1>1, <1>2, <1>7, MarkOK
  <2> HIDE DEF d
  <2> QED
    BY <1>2, <2>1, <2>2, QuietStep
<1>8. CASE c.cred # None /\ (creds[c.cred] = None \/ ~Changes(creds[c.cred], r))
  <2> DEFINE d == [c EXCEPT !.pc = "reply", !.report = r.outcome]
  <2>1. Step(q, d) /\ d.pc = "reply"
    BY <1>1, <1>2, <1>8 DEF CallState
  <2>2. CallOK(d)
    BY <1>1, <1>2, <1>3, MarkOK
  <2> HIDE DEF d
  <2> QED
    BY <1>2, <2>1, <2>2, QuietStep
<1>9. CASE c.cred # None /\ creds[c.cred] # None /\ Changes(creds[c.cred], r)
  <2> DEFINE d == [c EXCEPT !.pc = "update", !.report = r.outcome, !.copy = x]
  <2>1. creds[c.cred] \in Credential /\ c.cred \in Ids
    BY <1>4, <1>6, <1>9
  <2>2. x \in Credential
    BY <1>3, <1>4, <2>1, ApplyResultType
  <2>3. q \notin gone => Deserved(x, c.cred)
    <3>1. Deserved(creds[c.cred], c.cred)
      BY <1>4, <1>9, <2>1 DEF BlameIsDeserved
    <3> QED
      BY <3>1, <1>3, <1>4, <1>5, <1>9, <2>1, ApplyResultDeserved
  <2> HIDE DEF x
  <2>4. Step(q, d) /\ d.pc = "update" /\ d.copy = x /\ d.cred = c.cred
    BY <1>1, <1>2, <1>9 DEF CallState
  <2>5. CallOK(d)
    BY <1>1, <1>2, <1>3, <1>9, <2>2, MarkOK
  <2> HIDE DEF d
  <2>6. calls'[q] = d => BlameOK(q)'
    BY <1>2, <2>3, <2>4 DEF BlameOK, Deserved
  <2> QED
    BY <1>2, <1>4, <2>4, <2>5, <2>6, CallStep
<1> QED
  BY <1>7, <1>8, <1>9

\* The copy is written while its client waits, so that it is accounted for.
LEMMA UpdateStep ==
  ASSUME ExchangeInv, NEW q \in Requests, Update(q)
  PROVE  ExchangeInv'
<1> DEFINE c == calls[q]
           d == [c EXCEPT !.pc = "reply", !.copy = None]
<1>1. CallOK(c) /\ c \in CallState
  BY DEF ExchangeInv, CallsOK, CallOK
<1>2. /\ c.pc = "update" /\ q \notin gone /\ Step(q, d)
      /\ UNCHANGED <<now, gone, refresh, issued, blame>>
      /\ creds' = [creds EXCEPT ![c.cred] = c.copy]
  BY DEF Update
<1>3. c.copy \in Credential /\ c.cred \in Ids
  BY <1>1, <1>2 DEF CallOK, PlaceOK, CallState
<1>4. Deserved(c.copy, c.cred)
  BY <1>2 DEF ExchangeInv, BlameOK
<1> HIDE DEF c
<1>5. d.pc = "reply"
  BY <1>1 DEF CallState
<1>6. CallOK(d)
  BY <1>1, <1>2, UpdateOK
<1> HIDE DEF d
<1>7. CallsOK' /\ calls'[q] = d /\ \A p \in Requests \ {q} : calls'[p] = calls[p]
  BY <1>2, <1>6, OneCall DEF ExchangeInv
<1>8. creds' \in [Ids -> Credential \cup {None}]
  BY <1>2, <1>3 DEF ExchangeInv
<1>9. BlameIsDeserved'
  <2> SUFFICES ASSUME NEW id \in Ids, creds'[id] # None
               PROVE  Deserved(creds'[id], id)
    BY <1>2, NothingNew
  <2>1. creds \in [Ids -> Credential \cup {None}]
    BY DEF ExchangeInv
  <2> QED
    BY <1>2, <1>3, <1>4, <2>1 DEF ExchangeInv, BlameIsDeserved
<1>10. ASSUME NEW p \in Requests  PROVE BlameOK(p)'
  <2>1. CASE p = q
    BY <1>5, <1>7, <2>1 DEF BlameOK
  <2>2. CASE p # q
    BY <1>2, <1>7, <2>2, AccountKept DEF ExchangeInv
  <2> QED
    BY <2>1, <2>2
<1>11. RefreshOK'
  BY <1>2, CopiesKept DEF ExchangeInv
<1> QED
  BY <1>2, <1>7, <1>8, <1>9, <1>10, <1>11 DEF ExchangeInv

\* The write-back of a report fails.
LEMMA LostStep ==
  ASSUME ExchangeInv, NEW q \in Requests, UpdateFails(q)
  PROVE  ExchangeInv'
<1> DEFINE d == [calls[q] EXCEPT !.pc = "reply", !.copy = None]
<1>1. CallOK(calls[q]) /\ calls[q] \in CallState
  BY DEF ExchangeInv, CallsOK, CallOK
<1>2. calls[q].pc = "update" /\ Step(q, d) /\ UNCHANGED <<now, creds, gone, refresh, issued, blame>>
  BY DEF UpdateFails
<1>3. d.pc = "reply"
  BY <1>1 DEF CallState
<1>4. CallOK(d)
  BY <1>1, <1>2, UpdateOK
<1> HIDE DEF d
<1> QED
  BY <1>2, <1>3, <1>4, QuietStep

\* The answer to a request that is not streamed.
LEMMA ReplyStep ==
  ASSUME ExchangeInv, NEW q \in Requests, Reply(q)
  PROVE  ExchangeInv'
<1> DEFINE c == calls[q]
           ok == Last(c.log) = 200
           streams == ok /\ c.ask.stream
           pc == IF streams THEN "stream" ELSE "done"
           d == [c EXCEPT !.status = IF ok THEN 200 ELSE 502, !.pc = pc,
                          !.frames = IF streams THEN Opening(c.ask) ELSE c.frames]
<1>1. CallOK(c) /\ c \in CallState
  BY DEF ExchangeInv, CallsOK, CallOK
<1>2. c.pc = "reply" /\ Step(q, d) /\ UNCHANGED <<now, creds, gone, refresh, issued, blame>>
  BY DEF Reply
<1> HIDE DEF c
<1>3. d.pc = pc /\ pc \in {"stream", "done"}
  BY <1>1 DEF CallState
<1>4. CallOK(d)
  BY <1>1, <1>2, ReplyOK
<1> HIDE DEF d, pc
<1> QED
  BY <1>2, <1>3, <1>4, QuietStep

\* A chunk of a stream, and its end.
LEMMA StreamStep ==
  ASSUME ExchangeInv, NEW q \in Requests,
         (\E text \in BOOLEAN : StreamChunk(q, text))
           \/ \E end \in {"eof", "broken"} : StreamEnds(q, end)
  PROVE  ExchangeInv'
<1> DEFINE c == calls[q]
<1>1. CallOK(c) /\ c \in CallState
  BY DEF ExchangeInv, CallsOK, CallOK
<1>2. ASSUME NEW text \in BOOLEAN, StreamChunk(q, text)  PROVE ExchangeInv'
  <2> DEFINE d == [c EXCEPT !.frames = @ \o ChunkFrames(c.ask, text)]
  <2>1. c.pc = "stream" /\ Step(q, d) /\ UNCHANGED <<now, creds, gone, refresh, issued, blame>>
    BY <1>2 DEF StreamChunk
  <2>2. d.pc = "stream"
    BY <1>1, <2>1 DEF CallState
  <2> HIDE DEF c
  <2>3. CallOK(d)
    BY <1>1, <2>1, ChunkOK
  <2> HIDE DEF d
  <2> QED
    BY <2>1, <2>2, <2>3, QuietStep
<1>3. ASSUME NEW end \in {"eof", "broken"}, StreamEnds(q, end)  PROVE ExchangeInv'
  <2> DEFINE d == [c EXCEPT !.pc = "done", !.frames = Append(@, "close")]
  <2>1. c.pc = "stream" /\ Step(q, d) /\ UNCHANGED <<now, creds, gone, refresh, issued, blame>>
    BY <1>3 DEF StreamEnds
  <2>2. d.pc = "done"
    BY <1>1 DEF CallState
  <2> HIDE DEF c
  <2>3. CallOK(d)
    BY <1>1, <2>1, EndOK
  <2> HIDE DEF d
  <2> QED
    BY <2>1, <2>2, <2>3, QuietStep
<1> QED
  BY <1>2, <1>3

-----------------------------------------------------------------------------
(* What happens meanwhile *)

\* A client that leaves takes its claim on the credential along.
LEMMA LeaveStep ==
  ASSUME ExchangeInv, NEW q \in Requests, ClientLeaves(q)
  PROVE  ExchangeInv'
<1>1. /\ gone' = gone \cup {q} /\ gone' \subseteq Requests
      /\ UNCHANGED <<now, creds, calls, refresh, issued, blame>>
  BY DEF ClientLeaves, ExchangeInv
<1>2. CallsOK'
  BY <1>1 DEF ExchangeInv, CallsOK
<1>3. BlameIsDeserved' /\ RefreshOK'
  BY <1>1, RecordsKept, CopiesKept DEF ExchangeInv
<1>4. ASSUME NEW p \in Requests  PROVE BlameOK(p)'
  BY <1>1, AccountKept DEF ExchangeInv
<1> QED
  BY <1>1, <1>2, <1>3, <1>4 DEF ExchangeInv

\* What a copy says against its credential, given the blame.
Fits(c, b) ==
  /\ c.status = "disabled" => "auth" \in b
  /\ c.quota.exceeded \/ c.unavailable => "quota" \in b
  /\ c.lastError => {"quota", "other"} \cap b # {}
  /\ KnownModels(c) # {} => Outcomes \cap b # {}
  /\ c.status = "error" => b # {}

\* A refresh moves on and writes a copy that is accounted for, or none.
LEMMA RefreshMove ==
  ASSUME ExchangeInv, NEW id \in Ids, NEW x \in Credential, NEW y \in Refresh \cup {None},
         creds' = creds \/ creds' = [creds EXCEPT ![id] = x],
         refresh' = [refresh EXCEPT ![id] = y],
         Fits(x, blame'[id]), y # None => Fits(y.snap, blame'[id]),
         UNCHANGED <<now, calls, gone>>, issued' \in [Ids -> Nat],
         blame' \in [Ids -> SUBSET Blames], \A k \in Ids : blame[k] \subseteq blame'[k]
  PROVE  ExchangeInv'
<1>1. creds \in [Ids -> Credential \cup {None}] /\ BlameIsDeserved /\ RefreshOK
  BY DEF ExchangeInv
<1>2. creds' \in [Ids -> Credential \cup {None}]
      /\ \A k \in Ids : creds'[k] = creds[k] \/ (k = id /\ creds'[k] = x)
  BY <1>1
<1>3. BlameIsDeserved'
  <2> SUFFICES ASSUME NEW k \in Ids, creds'[k] # None
               PROVE  Fits(creds'[k], blame'[k])
    BY DEF BlameIsDeserved, Deserved, Fits
  <2>1. CASE creds'[k] = creds[k]
    <3>1. Deserved(creds[k], k) /\ blame[k] \subseteq blame'[k]
      BY <1>1, <2>1 DEF BlameIsDeserved
    <3>2. Fits(creds[k], blame'[k])
      BY <3>1 DEF Deserved, Fits
    <3> QED
      BY <2>1, <3>2
  <2>2. CASE k = id /\ creds'[k] = x
    BY <2>2
  <2> QED
    BY <1>2, <2>1, <2>2
<1>4. RefreshOK'
  <2>1. refresh' \in [Ids -> Refresh \cup {None}]
        /\ refresh'[id] = y /\ \A k \in Ids \ {id} : refresh'[k] = refresh[k]
    BY <1>1 DEF RefreshOK
  <2> SUFFICES ASSUME NEW k \in Ids, refresh'[k] # None
               PROVE  Fits(refresh'[k].snap, blame'[k])
    BY <2>1 DEF RefreshOK, Deserved, Fits
  <2>2. CASE k = id
    BY <2>1, <2>2
  <2>3. CASE k # id
    <3>1. refresh'[k] = refresh[k] /\ Deserved(refresh[k].snap, k) /\ blame[k] \subseteq blame'[k]
      BY <1>1, <2>1, <2>3 DEF RefreshOK
    <3>2. Fits(refresh[k].snap, blame'[k])
      BY <3>1 DEF Deserved, Fits
    <3> QED
      BY <3>1, <3>2
  <2> QED
    BY <2>2, <2>3
<1>5. CallsOK'
  BY DEF ExchangeInv, CallsOK
<1>6. ASSUME NEW p \in Requests  PROVE BlameOK(p)'
  BY AccountKept DEF ExchangeInv
<1> QED
  BY <1>2, <1>3, <1>4, <1>5, <1>6 DEF ExchangeInv

\* A cycle takes its copy (snapshotForRefresh).
LEMMA BeginStep ==
  ASSUME ExchangeInv, NEW id \in Ids, BeginRefresh(id)
  PROVE  ExchangeInv'
<1> DEFINE y == [pc |-> "mark", snap |-> creds[id]]
<1>1. /\ creds[id] # None /\ refresh' = [refresh EXCEPT ![id] = y]
      /\ UNCHANGED <<now, creds, calls, gone, issued, blame>>
  BY DEF BeginRefresh
<1>2. creds[id] \in Credential /\ Fits(creds[id], blame[id])
      /\ issued \in [Ids -> Nat] /\ blame \in [Ids -> SUBSET Blames]
  BY <1>1 DEF ExchangeInv, RefreshOK, BlameIsDeserved, Deserved, Fits
<1>3. y \in Refresh /\ y.snap = creds[id]
  BY <1>2 DEF Refresh
<1> HIDE DEF y
<1> QED
  BY <1>1, <1>2, <1>3, RefreshMove

\* What a refresh has is typed and deserved.
LEMMA SnapFacts ==
  ASSUME ExchangeInv, NEW id \in Ids, refresh[id] # None
  PROVE  /\ refresh[id] \in Refresh /\ refresh[id].snap \in Credential
         /\ Fits(refresh[id].snap, blame[id])
<1>1. refresh[id] \in Refresh /\ Deserved(refresh[id].snap, id)
  BY DEF ExchangeInv, RefreshOK
<1> QED
  BY <1>1 DEF Refresh, Deserved, Fits

\* A record that differs in its status, its token or its next refresh only.
LEMMA FitsAgain ==
  ASSUME NEW c \in Credential, NEW x \in Credential, NEW b, Fits(c, b),
         x.quota = c.quota, x.unavailable = c.unavailable, x.lastError = c.lastError,
         x.modelStates = c.modelStates,
         x.status \in {c.status, "active", "refreshing"} \/ (x.status = "error" /\ b # {})
  PROVE  Fits(x, b)
BY DEF Fits, KnownModels

\* refreshOne's first Update.
LEMMA MarkingStep ==
  ASSUME ExchangeInv, NEW id \in Ids, MarkRefreshing(id)
  PROVE  ExchangeInv'
<1> DEFINE c == refresh[id].snap
           x == [c EXCEPT !.status = "refreshing"]
           y == [refresh[id] EXCEPT !.pc = "call"]
<1>1. /\ refresh[id] # None /\ RefreshUpdate(id, x)
      /\ refresh' = [refresh EXCEPT ![id].pc = "call"]
      /\ UNCHANGED <<now, calls, gone, issued, blame>>
  BY DEF MarkRefreshing
<1>2. refresh[id] \in Refresh /\ c \in Credential /\ Fits(c, blame[id])
  BY <1>1, SnapFacts
<1>3. /\ refresh' = [refresh EXCEPT ![id] = y]
      /\ issued \in [Ids -> Nat] /\ blame \in [Ids -> SUBSET Blames]
  BY <1>1 DEF ExchangeInv, RefreshOK
<1>4. y \in Refresh /\ y.snap = c
  BY <1>2 DEF Refresh
<1> HIDE DEF c, y
<1>5. /\ x \in Credential /\ x.status = "refreshing" /\ x.quota = c.quota
      /\ x.unavailable = c.unavailable /\ x.lastError = c.lastError
      /\ x.modelStates = c.modelStates
  BY <1>2 DEF Credential, Status
<1>6. creds' = creds \/ creds' = [creds EXCEPT ![id] = x]
  BY <1>1 DEF RefreshUpdate
<1> HIDE DEF x
<1>7. Fits(x, blame[id])
  BY <1>2, <1>5, FitsAgain
<1> QED
  BY <1>1, <1>2, <1>3, <1>4, <1>5, <1>6, <1>7, RefreshMove

\* Its second: a token, a failure that is on record from now on, or nothing.
LEMMA EndStep ==
  ASSUME ExchangeInv, NEW id \in Ids,
         RefreshSucceeds(id) \/ RefreshFails(id) \/ RefreshNothing(id)
  PROVE  ExchangeInv'
<1> DEFINE c == refresh[id].snap
<1>1. /\ refresh[id] # None /\ UNCHANGED <<now, calls, gone>>
      /\ refresh' = [refresh EXCEPT ![id] = None]
  BY DEF RefreshSucceeds, RefreshFails, RefreshNothing, EndRefresh
<1>2. c \in Credential /\ Fits(c, blame[id])
  BY <1>1, SnapFacts
<1>3. /\ issued \in [Ids -> Nat] /\ blame \in [Ids -> SUBSET Blames] /\ now \in Nat
  BY DEF ExchangeInv, RefreshOK
<1>4. ASSUME NEW x \in Credential, RefreshUpdate(id, x), Fits(x, blame'[id]),
             issued' \in [Ids -> Nat], blame' \in [Ids -> SUBSET Blames],
             \A k \in Ids : blame[k] \subseteq blame'[k]
      PROVE  ExchangeInv'
  <2>1. creds' = creds \/ creds' = [creds EXCEPT ![id] = x]
    BY <1>4 DEF RefreshUpdate
  <2> QED
    BY <1>1, <1>4, <2>1, RefreshMove
<1>5. CASE RefreshSucceeds(id)
  <2> DEFINE n == issued[id] + 1
             l == Loaded(c)
             x == [l EXCEPT !.token = n]
  <2>1. /\ RefreshUpdate(id, x) /\ blame' = blame
        /\ issued' = [issued EXCEPT ![id] = n]
    BY <1>5 DEF RefreshSucceeds, EndRefresh
  <2>2. n \in Nat /\ issued' \in [Ids -> Nat]
    BY <1>3, <2>1
  <2>3. /\ l \in Credential /\ l.status \in {c.status, "active"} /\ l.quota = c.quota
        /\ l.unavailable = c.unavailable /\ l.lastError = c.lastError
        /\ l.modelStates = c.modelStates
    BY <1>2 DEF Loaded, Credential, Status
  <2> HIDE DEF n, l, c
  <2>4. /\ x \in Credential /\ x.status = l.status /\ x.quota = l.quota
        /\ x.unavailable = l.unavailable /\ x.lastError = l.lastError
        /\ x.modelStates = l.modelStates
    BY <2>2, <2>3 DEF Credential
  <2> HIDE DEF x
  <2>5. Fits(x, blame[id])
    BY <1>2, <2>3, <2>4, FitsAgain
  <2> QED
    BY <1>3, <1>4, <2>1, <2>2, <2>4, <2>5
<1>6. CASE RefreshFails(id)
  <2> DEFINE n == now + RefreshDelay
             x == [c EXCEPT !.status = "error", !.nextRefreshAfter = n]
  <2>1. /\ RefreshUpdate(id, x) /\ issued' = issued
        /\ blame' = [blame EXCEPT ![id] = @ \cup {"refresh"}]
    BY <1>6 DEF RefreshFails, EndRefresh
  <2>2. n \in Nat
    BY <1>3, ConstantsAssumption DEF ConstantsAssumption
  <2>3. blame' \in [Ids -> SUBSET Blames] /\ "refresh" \in blame'[id]
        /\ \A k \in Ids : blame[k] \subseteq blame'[k]
    BY <1>3, <2>1 DEF Blames
  <2> HIDE DEF n, c
  <2>4. /\ x \in Credential /\ x.status = "error" /\ x.quota = c.quota
        /\ x.unavailable = c.unavailable /\ x.lastError = c.lastError
        /\ x.modelStates = c.modelStates
    BY <1>2, <2>2 DEF Credential, Status
  <2> HIDE DEF x
  <2>5. Fits(c, blame'[id])
    BY <1>2, <2>3 DEF Fits
  <2>6. Fits(x, blame'[id])
    BY <1>2, <2>3, <2>4, <2>5, FitsAgain
  <2> QED
    BY <1>3, <1>4, <2>1, <2>3, <2>4, <2>6
<1>7. CASE RefreshNothing(id)
  <2> DEFINE x == [c EXCEPT !.status = "active"]
  <2>1. RefreshUpdate(id, x) /\ UNCHANGED <<issued, blame>>
    BY <1>7 DEF RefreshNothing, EndRefresh
  <2> HIDE DEF c
  <2>2. /\ x \in Credential /\ x.status = "active" /\ x.quota = c.quota
        /\ x.unavailable = c.unavailable /\ x.lastError = c.lastError
        /\ x.modelStates = c.modelStates
    BY <1>2 DEF Credential, Status
  <2> HIDE DEF x
  <2>3. Fits(x, blame[id])
    BY <1>2, <2>2, FitsAgain
  <2> QED
    BY <1>3, <1>4, <2>1, <2>2, <2>3
<1> QED
  BY <1>5, <1>6, <1>7

\* An administrator deletes a credential under the calls.
LEMMA DeregisterStep ==
  ASSUME ExchangeInv, NEW id \in Ids, Deregister(id)
  PROVE  ExchangeInv'
<1>1. creds' = [creds EXCEPT ![id] = None] /\ UNCHANGED <<now, calls, gone, refresh, issued, blame>>
  BY DEF Deregister
<1>2. creds \in [Ids -> Credential \cup {None}]
  BY DEF ExchangeInv
<1>3. creds' \in [Ids -> Credential \cup {None}]
  BY <1>1, <1>2
<1>4. BlameIsDeserved'
  <2> SUFFICES ASSUME NEW k \in Ids, creds'[k] # None
               PROVE  Deserved(creds'[k], k)
    BY <1>1, NothingNew
  <2>1. creds'[k] = creds[k] /\ Deserved(creds[k], k)
    BY <1>1, <1>2 DEF ExchangeInv, BlameIsDeserved
  <2> QED
    BY <2>1
<1>5. CallsOK'
  BY <1>1 DEF ExchangeInv, CallsOK
<1>6. ASSUME NEW p \in Requests  PROVE BlameOK(p)'
  BY <1>1, AccountKept DEF ExchangeInv
<1>7. RefreshOK'
  BY <1>1, CopiesKept DEF ExchangeInv
<1> QED
  BY <1>1, <1>3, <1>4, <1>5, <1>6, <1>7 DEF ExchangeInv

\* A step that leaves all but the clock alone.
LEMMA ClockStep ==
  ASSUME ExchangeInv, now' \in Nat, UNCHANGED <<creds, calls, gone, refresh, issued, blame>>
  PROVE  ExchangeInv'
<1>1. BlameIsDeserved' /\ RefreshOK'
  BY RecordsKept, CopiesKept DEF ExchangeInv
<1>2. CallsOK'
  BY DEF ExchangeInv, CallsOK
<1>3. ASSUME NEW p \in Requests  PROVE BlameOK(p)'
  BY AccountKept DEF ExchangeInv
<1> QED
  BY <1>1, <1>2, <1>3 DEF ExchangeInv

-----------------------------------------------------------------------------
(* The invariant of the specification *)

\* At first no call is under way and nobody is blamed.
LEMMA InitInv == Init => ExchangeInv
<1> SUFFICES ASSUME Init  PROVE ExchangeInv
  OBVIOUS
<1>1. creds = Initial /\ calls = [q \in Requests |-> Idle] /\ gone = {} /\ now = 1
      /\ blame = [id \in Ids |-> {}] /\ refresh = [id \in Ids |-> None]
      /\ issued = [id \in Ids |-> IF Initial[id] = None THEN 0 ELSE Initial[id].token]
  BY DEF Init
<1>2. creds \in [Ids -> Credential \cup {None}]
  BY <1>1, ExchangeAssumption DEF ExchangeAssumption
<1>3. CallsOK
  BY <1>1, IdleOK DEF CallsOK, CallOK
<1>4. BlameIsDeserved
  BY <1>1, ExchangeAssumption DEF ExchangeAssumption, BlameIsDeserved, Deserved
<1>5. ASSUME NEW q \in Requests  PROVE BlameOK(q)
  BY <1>1 DEF BlameOK, Idle
<1>6. now \in Nat /\ gone \subseteq Requests /\ blame \in [Ids -> SUBSET Blames]
  BY <1>1
<1>7. RefreshOK
  <2>1. \A id \in Ids : Initial[id] # None => Initial[id].token \in Nat
    BY ExchangeAssumption DEF ExchangeAssumption, Credential
  <2> QED
    BY <1>1, <2>1 DEF RefreshOK
<1> QED
  BY <1>2, <1>3, <1>4, <1>5, <1>6, <1>7 DEF ExchangeInv

\* Every step keeps the invariant.
LEMMA InvStep == ExchangeInv /\ [Next]_vars => ExchangeInv'
<1> SUFFICES ASSUME ExchangeInv, [Next]_vars  PROVE ExchangeInv'
  OBVIOUS
<1>1. CASE UNCHANGED vars
  BY <1>1, ClockStep DEF vars, ExchangeInv
<1>2. CASE \E q \in Requests : \E ask \in Asks[q] : ServeLLMApi(q, ask)
  BY <1>2, ServeStep
<1>3. ASSUME NEW q \in Requests, HandlerStep(q)  PROVE ExchangeInv'
  BY <1>3, ResolveStep, PickStep, MarkStep, UpdateStep, LostStep, ReplyStep DEF HandlerStep
<1>4. ASSUME NEW q \in Requests, VendorStep(q)  PROVE ExchangeInv'
  BY <1>4, SuccessStep, FailStep, CancelStep, StreamStep DEF VendorStep
<1>5. CASE \E q \in Requests : ClientLeaves(q)
  BY <1>5, LeaveStep
<1>6. CASE \E q \in Requests, text \in BOOLEAN : StreamChunk(q, text)
  BY <1>6, StreamStep
<1>7. CASE \E id \in Ids : RefreshStep(id) \/ Deregister(id)
  BY <1>7, BeginStep, MarkingStep, EndStep, DeregisterStep DEF RefreshStep
<1>8. CASE Tick
  <2>1. now' \in Nat /\ UNCHANGED <<creds, calls, gone, refresh, issued, blame>>
    BY <1>8 DEF Tick, ExchangeInv
  <2> QED
    BY <2>1, ClockStep
<1> QED
  BY <1>1, <1>2, <1>3, <1>4, <1>5, <1>6, <1>7, <1>8 DEF Next

\* The inductive invariant holds throughout.
LEMMA ExchangeInvariant == Spec => []ExchangeInv
<1>1. Init => ExchangeInv
  BY InitInv
<1>2. ExchangeInv /\ [Next]_vars => ExchangeInv'
  BY InvStep
<1> QED
  BY <1>1, <1>2, PTL DEF Spec

-----------------------------------------------------------------------------
(* Theorems *)

\* Every variable of concurrent requests, their credentials and the blame
\* stays in its set (a handler's step, MarkResult's write-back included).
THEOREM ExchangeTypeCorrect == Spec => []TypeOK
<1>1. ExchangeInv => TypeOK
  BY DEF ExchangeInv, CallsOK, RefreshOK, Blames, TypeOK
<1> QED
  BY <1>1, ExchangeInvariant, PTL

\* A credential is disabled, held back or has an error on record only for
\* what happened to a call that had picked it while its client waited, and its
\* status says "error" only for that or for a refresh that failed, whatever
\* copies concurrent calls and refreshes write back (markResult, MarkResult,
\* Update and refreshOne).
THEOREM BlameAlwaysDeserved == Spec => []BlameIsDeserved
<1>1. ExchangeInv => BlameIsDeserved
  BY DEF ExchangeInv
<1> QED
  BY <1>1, ExchangeInvariant, PTL

\* The two decisions between a credential and the static key, on both sides of
\* the provider (shouldUseCredential, resolveCredential), always agree.
THEOREM SecretAlwaysAccounted == Spec => []SecretIsAccounted
<1>1. ExchangeInv => SecretIsAccounted
  <2> SUFFICES ASSUME ExchangeInv, NEW q \in Requests, calls[q].log # <<>>
               PROVE  LET c == calls[q] IN
                      /\ c.cred # None => \/ c.inst.kind = "ollama"
                                          \/ c.sent = AccessToken(c.cred, c.token)
                      /\ c.sent.from = "credential" =>
                           /\ c.sent.id = c.cred
                           /\ \/ c.inst.strategy \in {"credential_first", "credential_only"}
                              \/ c.inst.strategy # "api_key_only" /\ ~c.inst.key
                      /\ c.sent.from = "config" => c.inst.key /\ c.cred = None
                      /\ c.sent.from = "nobody" =>
                           c.inst.kind = "ollama" \/ (~c.inst.key /\ c.cred = None)
    BY DEF SecretIsAccounted
  <2> DEFINE c == calls[q]
             i == c.inst
  <2>1. CallOK(c)
    BY DEF ExchangeInv, CallsOK
  <2>2. /\ i \in Instance /\ c.sent = SecretFor(c)
        /\ c.cred # None => ShouldUseCredential(i)
    BY <2>1 DEF CallOK, PlaceOK, SecretOK
  <2>3. i.strategy \in Strategies /\ i.key \in BOOLEAN
    BY <2>2 DEF Instance
  <2> HIDE DEF c, i
  <2>4. /\ ConfigKey(i) = IF i.key THEN StaticKey ELSE NoSecret
        /\ StaticKey.from = "config" /\ NoSecret.from = "nobody"
        /\ AccessToken(c.cred, c.token).from = "credential"
        /\ AccessToken(c.cred, c.token).id = c.cred
    BY DEF ConfigKey, StaticKey, NoSecret, AccessToken
  <2>5. c.inst = i
    BY DEF i
  <2>6. ShouldUseCredential(i) <=>
          \/ i.strategy \in {"credential_first", "credential_only"}
          \/ i.strategy \in {"", "api_key_first"} /\ ~i.key
    BY <2>3 DEF ShouldUseCredential, Strategy, Strategies
  <2>7. ResolveCredential(c) = IF c.cred # None /\ ShouldUseCredential(i)
                               THEN AccessToken(c.cred, c.token) ELSE ConfigKey(i)
    BY <2>3, <2>5, <2>6 DEF ResolveCredential, Strategy, Strategies
  <2>8. SecretFor(c) = IF i.kind = "ollama" THEN NoSecret ELSE ResolveCredential(c)
    <3>1. CASE i.kind = "gemini"
      BY <3>1, <2>4, <2>5, <2>7 DEF SecretFor, GeminiSecret
    <3>2. CASE i.kind # "gemini"
      BY <3>2, <2>5 DEF SecretFor, OllamaSecret, AnthropicSecret, OpenRouterSecret, OpenAISecret
    <3> QED
      BY <3>1, <3>2
  <2>9. CASE i.kind = "ollama"
    BY <2>2, <2>4, <2>5, <2>8, <2>9 DEF c
  <2>10. CASE i.kind # "ollama" /\ c.cred # None
    <3>1. c.sent = AccessToken(c.cred, c.token)
      BY <2>2, <2>7, <2>8, <2>10
    <3> QED
      BY <3>1, <2>2, <2>3, <2>4, <2>5, <2>6, <2>10 DEF c, Strategies
  <2>11. CASE i.kind # "ollama" /\ c.cred = None
    <3>1. c.sent = ConfigKey(i)
      BY <2>2, <2>7, <2>8, <2>11
    <3> QED
      BY <3>1, <2>3, <2>4, <2>5, <2>11 DEF c
  <2> QED
    BY <2>9, <2>10, <2>11
<1> QED
  BY <1>1, ExchangeInvariant, PTL

\* RetryGenerate's attempts are never more than configured, never follow an
\* error that is not worth a retry, and never stop early on one that is.
THEOREM RetriesAlwaysJustified == Spec => []RetriesAreJustified
<1>1. ExchangeInv => RetriesAreJustified
  <2> SUFFICES ASSUME ExchangeInv, NEW q \in Requests, calls[q].log # <<>>
               PROVE  /\ Len(calls[q].log) <= Most(calls[q])
                      /\ \A k \in 1..Len(calls[q].log) - 1 : IsRetryable(calls[q].log[k])
                      /\ calls[q].pc # "call" => \/ Len(calls[q].log) = Most(calls[q])
                                                 \/ ~IsRetryable(Last(calls[q].log))
    BY DEF RetriesAreJustified, Most, IsRetryable
  <2> DEFINE c == calls[q]
  <2>1. CallOK(c)
    BY DEF ExchangeInv, CallsOK
  <2>2. c.log \in Seq(Nat) /\ TriesOK(c) /\ c.ask \in Ask /\ c.inst \in Instance
    BY <2>1 DEF CallOK, CallState, PlaceOK
  <2>3. Len(c.log) \in Nat /\ Most(c) \in Nat
    BY <2>2 DEF Most, Instance
  <2> HIDE DEF c
  <2>4. CASE c.pc = "call"
    <3>1. Len(c.log) + 1 <= Most(c) /\ \A k \in 1..Len(c.log) : IsRetryable(c.log[k])
      BY <2>2, <2>4 DEF TriesOK, c
    <3> QED
      BY <3>1, <2>3, <2>4 DEF c
  <2>5. CASE c.pc # "call"
    BY <2>2, <2>5 DEF TriesOK, c
  <2> QED
    BY <2>4, <2>5
<1> QED
  BY <1>1, ExchangeInvariant, PTL

\* What the client is told (llmapi's status) and what the manager is told
\* (markResult's outcome) of a call with a credential never differ.
THEOREM ClientAndManagerAlwaysAgree == Spec => []ClientAndManagerAgree
<1>1. ExchangeInv => ClientAndManagerAgree
  <2> SUFFICES ASSUME ExchangeInv, NEW q \in Requests, calls[q].pc = "done",
                      calls[q].log # <<>>
               PROVE  LET c == calls[q] IN
                      /\ c.status \in {200, 502}
                      /\ c.cred # None => (c.status = 200 <=> c.report = "success")
                      /\ c.status = 200 /\ c.ask.stream =>
                           c.frames # <<>> /\ c.frames[Len(c.frames)] = "close"
    BY DEF ClientAndManagerAgree
  <2> DEFINE c == calls[q]
  <2>1. AnswerOK(c)
    BY DEF ExchangeInv, CallsOK, CallOK
  <2>2. /\ c.status = IF Last(c.log) = 200 THEN 200 ELSE 502
        /\ c.cred # None => c.report = Outcome(Last(c.log))
        /\ c.status = 200 /\ c.ask.stream =>
             c.frames # <<>> /\ c.frames[Len(c.frames)] = "close"
    BY <2>1 DEF AnswerOK
  <2>3. Outcome(Last(c.log)) = "success" <=> Last(c.log) = 200
    BY OutcomeFacts
  <2> HIDE DEF c
  <2> QED
    BY <2>2, <2>3 DEF c
<1> QED
  BY <1>1, ExchangeInvariant, PTL

-----------------------------------------------------------------------------
(* A disabled credential stays out *)

\* A call's step leaves a credential out if it neither writes it nor has it
\* outside the end of a call.
LEMMA StaysOut ==
  ASSUME CallsOK, NEW id \in Ids, Out(id), NEW q \in Requests, NEW d, Step(q, d),
         creds'[id] = creds[id] \/ creds'[id] = None, refresh' = refresh,
         d.cred = id => d.pc \in {"reply", "stream", "done"}
  PROVE  Out(id)'
<1>1. calls' = [calls EXCEPT ![q] = d] /\ calls \in [Requests -> CallState]
  BY DEF Step, CallsOK
<1>2. ASSUME NEW p \in Requests, calls'[p].cred = id
      PROVE  calls'[p].pc \in {"reply", "stream", "done"}
  BY <1>1, <1>2 DEF Out
<1>3. /\ creds'[id] = None \/ creds'[id].status = "disabled"
      /\ refresh'[id] = None
  BY DEF Out, IsDisabled
<1> QED
  BY <1>2, <1>3 DEF Out, IsDisabled

\* A step of a call that is not at its end is one of a call without the
\* credential, which it cannot get.
LEMMA EarlyOut ==
  ASSUME CallsOK, NEW id \in Ids, Out(id), NEW q \in Requests,
         calls[q].pc \notin {"reply", "stream", "done"},
         NEW d, Step(q, d), d.cred = calls[q].cred,
         creds'[id] = creds[id] \/ creds'[id] = None, refresh' = refresh
  PROVE  Out(id)'
<1>1. d.cred # id
  BY DEF Out
<1> QED
  BY <1>1, StaysOut

\* A call that begins does not bring a credential back.
LEMMA BeginOut ==
  ASSUME ExchangeInv, NEW id \in Ids, Out(id), NEW q \in Requests,
         \/ \E ask \in Asks[q] : ServeLLMApi(q, ask)
         \/ \E i \in Serving[q] : Resolve(q, i)
         \/ \E s \in GatewayErrors : ResolveFails(q, s)
  PROVE  Out(id)'
<1>1. CallsOK /\ calls[q] \in CallState
  BY DEF ExchangeInv, CallsOK
<1>2. ASSUME NEW ask \in Asks[q], ServeLLMApi(q, ask)  PROVE Out(id)'
  <2> DEFINE d == [calls[q] EXCEPT !.ask = ask, !.status = Refusal(ask),
                     !.pc = IF Refusal(ask) = 0 THEN "resolve" ELSE "done"]
  <2>1. calls[q].pc = "idle" /\ Step(q, d) /\ UNCHANGED <<creds, refresh>>
    BY <1>2 DEF ServeLLMApi
  <2>2. d.cred = calls[q].cred
    BY <1>1 DEF CallState
  <2> HIDE DEF d
  <2> QED
    BY <1>1, <2>1, <2>2, EarlyOut
<1>3. ASSUME NEW i, Resolve(q, i)  PROVE Out(id)'
  <2> DEFINE d == [calls[q] EXCEPT !.pc = "pick", !.inst = i]
  <2>1. calls[q].pc = "resolve" /\ Step(q, d) /\ UNCHANGED <<creds, refresh>>
    BY <1>3 DEF Resolve
  <2>2. d.cred = calls[q].cred
    BY <1>1 DEF CallState
  <2> HIDE DEF d
  <2> QED
    BY <1>1, <2>1, <2>2, EarlyOut
<1>4. ASSUME NEW s, ResolveFails(q, s)  PROVE Out(id)'
  <2> DEFINE d == [calls[q] EXCEPT !.pc = "done", !.status = s]
  <2>1. calls[q].pc = "resolve" /\ Step(q, d) /\ UNCHANGED <<creds, refresh>>
    BY <1>4 DEF ResolveFails
  <2>2. d.cred = calls[q].cred
    BY <1>1 DEF CallState
  <2> HIDE DEF d
  <2> QED
    BY <1>1, <2>1, <2>2, EarlyOut
<1> QED
  BY <1>2, <1>3, <1>4

\* A pick passes a disabled or deleted credential over.
LEMMA PickOut ==
  ASSUME ExchangeInv, NEW id \in Ids, Out(id), NEW q \in Requests,
         (\E k \in Ids, token \in 1..MaxToken : PickCredential(q, k, token)) \/ PickNone(q)
  PROVE  Out(id)'
<1>1. CallsOK /\ calls[q] \in CallState
  BY DEF ExchangeInv, CallsOK
<1>2. ASSUME NEW k \in Ids, NEW token, PickCredential(q, k, token)  PROVE Out(id)'
  <2> DEFINE d == [calls[q] EXCEPT !.pc = "call", !.cred = k, !.token = token]
  <2>1. /\ k \in Pickable(calls[q].inst.provider, calls[q].ask.model)
        /\ Step(q, d) /\ UNCHANGED <<creds, refresh>>
    BY <1>2 DEF PickCredential
  <2>2. creds[k] # None /\ creds[k].status # "disabled"
    BY <2>1, PickableFacts
  <2>3. k # id
    BY <2>2 DEF Out, IsDisabled
  <2>4. d.cred = k
    BY <1>1 DEF CallState
  <2> HIDE DEF d
  <2> QED
    BY <1>1, <2>1, <2>3, <2>4, StaysOut
<1>3. ASSUME PickNone(q)  PROVE Out(id)'
  <2> DEFINE d == [calls[q] EXCEPT !.pc = "call"]
  <2>1. calls[q].pc = "pick" /\ Step(q, d) /\ UNCHANGED <<creds, refresh>>
    BY <1>3 DEF PickNone
  <2>2. d.cred = calls[q].cred
    BY <1>1 DEF CallState
  <2> HIDE DEF d
  <2> QED
    BY <1>1, <2>1, <2>2, EarlyOut
<1> QED
  BY <1>2, <1>3

\* Nor does an attempt: the credential was picked before.
LEMMA AttemptOut ==
  ASSUME ExchangeInv, NEW id \in Ids, Out(id), NEW q \in Requests,
         \/ CallSucceeds(q) \/ (\E e \in Errors \cup {None} : CallFails(q, e))
         \/ CallCancelled(q)
  PROVE  Out(id)'
<1>1. CallsOK /\ calls[q] \in CallState
  BY DEF ExchangeInv, CallsOK
<1>2. ASSUME CallSucceeds(q)  PROVE Out(id)'
  <2> DEFINE d == [calls[q] EXCEPT !.pc = "mark", !.sent = SecretFor(calls[q]),
                                   !.log = Append(@, 200)]
  <2>1. calls[q].pc = "call" /\ Step(q, d) /\ UNCHANGED <<creds, refresh>>
    BY <1>2 DEF CallSucceeds
  <2>2. d.cred = calls[q].cred
    BY <1>1 DEF CallState
  <2> HIDE DEF d
  <2> QED
    BY <1>1, <2>1, <2>2, EarlyOut
<1>3. ASSUME NEW s, calls[q].pc = "call", Step(q, Attempt(calls[q], s)),
             UNCHANGED <<creds, refresh>>
      PROVE  Out(id)'
  <2>1. Attempt(calls[q], s).cred = calls[q].cred
    BY <1>1 DEF CallState, Attempt
  <2> QED
    BY <1>1, <1>3, <2>1, EarlyOut
<1>4. ASSUME NEW e, CallFails(q, e)  PROVE Out(id)'
  BY <1>3, <1>4 DEF CallFails
<1>5. ASSUME CallCancelled(q)  PROVE Out(id)'
  BY <1>3, <1>5 DEF CallCancelled
<1> QED
  BY <1>2, <1>4, <1>5

\* No copy of the credential is under way, so that none is written back.
LEMMA MarkOut ==
  ASSUME ExchangeInv, NEW id \in Ids, Out(id), NEW q \in Requests,
         MarkResult(q) \/ Update(q) \/ UpdateFails(q)
  PROVE  Out(id)'
<1> DEFINE c == calls[q]
<1>1. CallsOK /\ c \in CallState /\ CallOK(c) /\ creds \in [Ids -> Credential \cup {None}]
  BY DEF ExchangeInv, CallsOK
<1>2. ASSUME MarkResult(q)  PROVE Out(id)'
  <2> DEFINE r == ReportOf(c)
             x == ApplyResult(creds[c.cred], r, now)
             d1 == [c EXCEPT !.pc = "reply"]
             d2 == [c EXCEPT !.pc = "reply", !.report = r.outcome]
             d3 == [c EXCEPT !.pc = "update", !.report = r.outcome, !.copy = x]
  <2>1. c.pc = "mark" /\ (Step(q, d1) \/ Step(q, d2) \/ Step(q, d3)) /\ UNCHANGED <<creds, refresh>>
    BY <1>2 DEF MarkResult
  <2> HIDE DEF r, x
  <2>2. d1.cred = c.cred /\ d2.cred = c.cred /\ d3.cred = c.cred
    BY <1>1 DEF CallState
  <2> HIDE DEF d1, d2, d3
  <2> QED
    BY <1>1, <2>1, <2>2, EarlyOut
<1>3. ASSUME Update(q)  PROVE Out(id)'
  <2> DEFINE d == [c EXCEPT !.pc = "reply", !.copy = None]
  <2>1. c.pc = "update" /\ Step(q, d) /\ refresh' = refresh
        /\ creds' = [creds EXCEPT ![c.cred] = c.copy]
    BY <1>3 DEF Update
  <2>2. d.cred = c.cred
    BY <1>1 DEF CallState
  <2>3. c.cred # id
    BY <2>1 DEF Out
  <2>4. creds'[id] = creds[id]
    BY <1>1, <2>1, <2>3
  <2> HIDE DEF d
  <2> QED
    BY <1>1, <2>1, <2>2, <2>4, EarlyOut
<1>4. ASSUME UpdateFails(q)  PROVE Out(id)'
  <2> DEFINE d == [c EXCEPT !.pc = "reply", !.copy = None]
  <2>1. c.pc = "update" /\ Step(q, d) /\ UNCHANGED <<creds, refresh>>
    BY <1>4 DEF UpdateFails
  <2>2. d.cred = c.cred
    BY <1>1 DEF CallState
  <2> HIDE DEF d
  <2> QED
    BY <1>1, <2>1, <2>2, EarlyOut
<1> QED
  BY <1>2, <1>3, <1>4

\* Nor does the end of a call: its report is behind it.
LEMMA EndOut ==
  ASSUME ExchangeInv, NEW id \in Ids, Out(id), NEW q \in Requests,
         \/ Reply(q) \/ (\E text \in BOOLEAN : StreamChunk(q, text))
         \/ \E end \in {"eof", "broken"} : StreamEnds(q, end)
  PROVE  Out(id)'
<1> DEFINE c == calls[q]
<1>1. CallsOK /\ c \in CallState
  BY DEF ExchangeInv, CallsOK
<1>2. ASSUME Reply(q)  PROVE Out(id)'
  <2> DEFINE streams == Last(c.log) = 200 /\ c.ask.stream
             pc == IF streams THEN "stream" ELSE "done"
             d == [c EXCEPT !.status = IF Last(c.log) = 200 THEN 200 ELSE 502, !.pc = pc,
                            !.frames = IF streams THEN Opening(c.ask) ELSE @]
  <2>1. Step(q, d) /\ UNCHANGED <<creds, refresh>>
    BY <1>2 DEF Reply
  <2>2. d.pc = pc /\ pc \in {"stream", "done"}
    BY <1>1 DEF CallState
  <2> HIDE DEF d, pc
  <2> QED
    BY <1>1, <2>1, <2>2, StaysOut
<1>3. ASSUME NEW text, StreamChunk(q, text)  PROVE Out(id)'
  <2> DEFINE d == [c EXCEPT !.frames = @ \o ChunkFrames(c.ask, text)]
  <2>1. c.pc = "stream" /\ Step(q, d) /\ UNCHANGED <<creds, refresh>>
    BY <1>3 DEF StreamChunk
  <2>2. d.pc = "stream"
    BY <1>1, <2>1 DEF CallState
  <2> HIDE DEF d
  <2> QED
    BY <1>1, <2>1, <2>2, StaysOut
<1>4. ASSUME NEW end, StreamEnds(q, end)  PROVE Out(id)'
  <2> DEFINE d == [c EXCEPT !.pc = "done", !.frames = Append(@, "close")]
  <2>1. Step(q, d) /\ UNCHANGED <<creds, refresh>>
    BY <1>4 DEF StreamEnds
  <2>2. d.pc = "done"
    BY <1>1 DEF CallState
  <2> HIDE DEF d
  <2> QED
    BY <1>1, <2>1, <2>2, StaysOut
<1> QED
  BY <1>2, <1>3, <1>4

\* A refresh is begun only for credentials that are neither disabled nor
\* deleted, and a deletion leaves none.
LEMMA RecordOut ==
  ASSUME ExchangeInv, NEW id \in Ids, Out(id),
         \E k \in Ids : RefreshStep(k) \/ Deregister(k)
  PROVE  Out(id)'
<1>1. PICK k \in Ids : RefreshStep(k) \/ Deregister(k)
  OBVIOUS
<1>2. creds \in [Ids -> Credential \cup {None}] /\ refresh \in [Ids -> Refresh \cup {None}]
  BY DEF ExchangeInv, RefreshOK
<1>3. refresh[id] = None /\ (creds[id] = None \/ creds[id].status = "disabled")
  BY DEF Out, IsDisabled
<1>4. (creds'[id] = creds[id] \/ creds'[id] = None) /\ refresh'[id] = None /\ calls' = calls
  <2>1. CASE BeginRefresh(k)
    <3>1. k # id
      BY <1>3, <2>1 DEF BeginRefresh
    <3> QED
      BY <1>2, <1>3, <2>1, <3>1 DEF BeginRefresh
  <2>2. CASE MarkRefreshing(k)
    <3>1. k # id
      BY <1>3, <2>2 DEF MarkRefreshing
    <3> QED
      BY <1>2, <1>3, <2>2, <3>1 DEF MarkRefreshing, RefreshUpdate
  <2>3. ASSUME NEW x, EndRefresh(k, x)
        PROVE  creds'[id] = creds[id] /\ refresh'[id] = None /\ calls' = calls
    <3>1. k # id
      BY <1>3, <2>3 DEF EndRefresh
    <3> QED
      BY <1>2, <1>3, <2>3, <3>1 DEF EndRefresh, RefreshUpdate
  <2>4. CASE RefreshSucceeds(k) \/ RefreshFails(k) \/ RefreshNothing(k)
    BY <2>3, <2>4 DEF RefreshSucceeds, RefreshFails, RefreshNothing
  <2>5. CASE Deregister(k)
    BY <1>2, <1>3, <2>5 DEF Deregister
  <2> QED
    BY <1>1, <2>1, <2>2, <2>4, <2>5 DEF RefreshStep
<1> QED
  BY <1>3, <1>4 DEF Out, IsDisabled

\* Once the last call under way with a disabled or deleted credential has
\* reported and its refresh has ended, no pick returns it and no write-back, by
\* MarkResult's Update or refreshOne's, brings it back.
THEOREM DisabledStaysFinal == Spec => DisabledIsFinal
<1> DEFINE Kept == \A id \in Ids : Out(id) => Out(id)'
<1>1. ExchangeInv /\ [Next]_vars => [Kept]_vars
  <2> SUFFICES ASSUME ExchangeInv, Next, NEW id \in Ids, Out(id)  PROVE Out(id)'
    OBVIOUS
  <2>1. ASSUME NEW q \in Requests, NEW ask \in Asks[q], ServeLLMApi(q, ask)  PROVE Out(id)'
    BY <2>1, BeginOut
  <2>2. ASSUME NEW q \in Requests, HandlerStep(q)  PROVE Out(id)'
    BY <2>2, BeginOut, PickOut, MarkOut, EndOut DEF HandlerStep
  <2>3. ASSUME NEW q \in Requests, VendorStep(q)  PROVE Out(id)'
    BY <2>3, AttemptOut, EndOut DEF VendorStep
  <2>4. ASSUME NEW q \in Requests, ClientLeaves(q)  PROVE Out(id)'
    BY <2>4 DEF ClientLeaves, Out, IsDisabled
  <2>5. ASSUME NEW q \in Requests, NEW text \in BOOLEAN, StreamChunk(q, text)  PROVE Out(id)'
    BY <2>5, EndOut
  <2>6. CASE \E k \in Ids : RefreshStep(k) \/ Deregister(k)
    BY <2>6, RecordOut
  <2>7. CASE Tick
    BY <2>7 DEF Tick, Out, IsDisabled
  <2> QED
    BY <2>1, <2>2, <2>3, <2>4, <2>5, <2>6, <2>7 DEF Next
<1> QED
  BY <1>1, ExchangeInvariant, PTL DEF Spec, DisabledIsFinal
=============================================================================
