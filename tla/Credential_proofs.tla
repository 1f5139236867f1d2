-------------------------- MODULE Credential_proofs --------------------------
(***************************************************************************)
(* What the rules of Credential do to a credential, for every value of the *)
(* constants: they yield a credential, and the same one (its ID).          *)
(***************************************************************************)
EXTENDS Credential, TLAPS

\* The backoff of computeBackoff (manager.go:647-659) is a duration.
LEMMA BackoffType ==
  ASSUME NEW level \in Nat
  PROVE  ComputeBackoff(level) \in Nat
BY ConstantsAssumption DEF ComputeBackoff

\* The state MarkResult clears a model to is a model state.
LEMMA ClearModelStateType == NoQuota \in Quota /\ ClearModelState \in ModelState
BY DEF NoQuota, Quota, ClearModelState, ModelState, Status

\* A success (manager.go:364-390) yields a credential with the same ID.
LEMMA OnSuccessType ==
  ASSUME NEW c \in Credential, NEW m \in Models
  PROVE  OnSuccess(c, m) \in Credential /\ OnSuccess(c, m).id = c.id
<1> DEFINE cleared ==
        IF c.unavailable \/ c.lastError \/ c.quota.exceeded
        THEN [c EXCEPT !.unavailable = FALSE, !.lastError = FALSE, !.quota = NoQuota,
                       !.nextRetryAfter = 0, !.status = "active"]
        ELSE c
<1> DEFINE stale == {k \in {m} \cap (KnownModels(c) \ {<<>>}) :
                  c.modelStates[k].unavailable \/ c.modelStates[k].lastError}
<1> DEFINE ms == [k \in Models |-> IF k \in stale THEN ClearModelState ELSE c.modelStates[k]]
<1>1. cleared \in Credential /\ cleared.id = c.id
  BY ClearModelStateType DEF Credential, Status
<1>2. ms \in [Models -> ModelState \cup {None}]
  BY ClearModelStateType DEF Credential
<1>3. OnSuccess(c, m) = [cleared EXCEPT !.modelStates = ms]
  BY DEF OnSuccess
<1> HIDE DEF cleared, stale, ms
<1>4. QED
  BY <1>1, <1>2, <1>3 DEF Credential

\* A failure (manager.go:391-422) yields a credential with the same ID.
LEMMA OnFailureType ==
  ASSUME NEW c \in Credential, NEW r \in Result, NEW t \in Nat
  PROVE  OnFailure(c, r, t) \in Credential /\ OnFailure(c, r, t).id = c.id
<1> DEFINE level == c.quota.backoffLevel
           backoff == IF r.retryAfter > ComputeBackoff(level) THEN r.retryAfter
                      ELSE ComputeBackoff(level)
<1>1. level \in Nat
  BY DEF Credential, Quota
<1>2. backoff \in Nat
  BY <1>1, BackoffType DEF Result
<1>3. r.retryAfter \in Nat
  BY DEF Result
<1>4. OnFailure(c, r, t) =
       CASE r.outcome = "quota" /\ ~CooldownDisabledFor(c) ->
            [c EXCEPT !.quota = [exceeded |-> TRUE, nextRecoverAt |-> t + backoff,
                                 backoffLevel |-> level + 1],
                      !.unavailable = TRUE, !.nextRetryAfter = t + backoff,
                      !.status = "error"]
       [] r.outcome = "auth" -> [c EXCEPT !.status = "disabled"]
       [] OTHER ->
            [c EXCEPT !.lastError = TRUE, !.status = "error",
                      !.unavailable = IF r.retryAfter # 0 THEN TRUE ELSE c.unavailable,
                      !.nextRetryAfter = IF r.retryAfter # 0 THEN t + r.retryAfter
                                         ELSE c.nextRetryAfter]
  BY DEF OnFailure
<1> HIDE DEF backoff
<1>5. CASE r.outcome = "quota" /\ ~CooldownDisabledFor(c)
  <2> DEFINE q == [exceeded |-> TRUE, nextRecoverAt |-> t + backoff,
                   backoffLevel |-> level + 1]
             until == t + backoff
  <2>1. q \in Quota /\ until \in Nat
    BY <1>1, <1>2 DEF Quota
  <2>2. OnFailure(c, r, t) =
            [c EXCEPT !.quota = q, !.unavailable = TRUE, !.nextRetryAfter = until,
                      !.status = "error"]
    BY <1>4, <1>5
  <2> HIDE DEF q, until
  <2> QED
    BY <2>1, <2>2 DEF Credential, Status
<1>6. CASE r.outcome = "auth"
  BY <1>4, <1>6 DEF Credential, Status
<1>7. CASE ~(r.outcome = "quota" /\ ~CooldownDisabledFor(c)) /\ r.outcome # "auth"
  <2>1. OnFailure(c, r, t) =
            [c EXCEPT !.lastError = TRUE, !.status = "error",
                      !.unavailable = IF r.retryAfter # 0 THEN TRUE ELSE c.unavailable,
                      !.nextRetryAfter = IF r.retryAfter # 0 THEN t + r.retryAfter
                                         ELSE c.nextRetryAfter]
    BY <1>4, <1>7
  <2> DEFINE u == IF r.retryAfter # 0 THEN TRUE ELSE c.unavailable
             until == IF r.retryAfter # 0 THEN t + r.retryAfter ELSE c.nextRetryAfter
  <2>a. c.unavailable \in BOOLEAN /\ c.nextRetryAfter \in Nat
    BY DEF Credential
  <2>b. u \in BOOLEAN
    BY <2>a, Zenon
  <2>c. until \in Nat
    BY <2>a, <1>3
  <2>2. u \in BOOLEAN /\ until \in Nat
    BY <2>b, <2>c
  <2>3. OnFailure(c, r, t) = [c EXCEPT !.lastError = TRUE, !.status = "error",
                                       !.unavailable = u, !.nextRetryAfter = until]
    BY <2>1
  <2> HIDE DEF u, until
  <2> QED
    BY <2>2, <2>3 DEF Credential, Status
<1>8. QED
  BY <1>5, <1>6, <1>7

\* The per-model effect of a failure (manager.go:425-449) is a model state.
LEMMA ModelFailureType ==
  ASSUME NEW d \in Credential, NEW old \in ModelState, NEW r \in Result, NEW t \in Nat
  PROVE  ModelFailure(d, old, r, t) \in ModelState
<1>1. r.retryAfter \in Nat
  BY DEF Result
<1> DEFINE u == IF r.retryAfter # 0 THEN TRUE ELSE old.unavailable
           until == IF r.retryAfter # 0 THEN t + r.retryAfter ELSE old.nextRetryAfter
<1>a. old.unavailable \in BOOLEAN /\ old.nextRetryAfter \in Nat
  BY DEF ModelState
<1>b. u \in BOOLEAN
  BY <1>a, Zenon
<1>c. until \in Nat
  BY <1>a, <1>1
<1>2. u \in BOOLEAN /\ until \in Nat
  BY <1>b, <1>c
<1>3. d.quota \in Quota /\ d.nextRetryAfter \in Nat
  BY DEF Credential
<1>4. ModelFailure(d, old, r, t) =
        IF r.outcome = "quota" /\ ~CooldownDisabledFor(d)
        THEN [old EXCEPT !.quota = d.quota, !.unavailable = TRUE, !.status = "error",
                         !.nextRetryAfter = d.nextRetryAfter]
        ELSE [old EXCEPT !.lastError = TRUE, !.status = "error",
                         !.unavailable = u, !.nextRetryAfter = until]
  BY DEF ModelFailure
<1> HIDE DEF u, until
<1> QED
  BY <1>2, <1>3, <1>4 DEF ModelState, Status

\* MarkResult (manager.go:339-458) turns its copy of a credential into a
\* credential with the same ID, whatever the outcome.
LEMMA ApplyResultType ==
  ASSUME NEW c \in Credential, NEW r \in Result, NEW t \in Nat
  PROVE  ApplyResult(c, r, t) \in Credential /\ ApplyResult(c, r, t).id = c.id
<1> DEFINE d == OnFailure(c, r, t)
           old == IF c.modelStates[r.model] # None THEN c.modelStates[r.model]
                  ELSE ClearModelState
<1>1. r.model \in Models
  BY DEF Result
<1>2. d \in Credential /\ d.id = c.id
  BY OnFailureType
<1>3. old \in ModelState
  BY <1>1, ClearModelStateType DEF Credential
<1>4. ModelFailure(d, old, r, t) \in ModelState
  BY <1>2, <1>3, ModelFailureType
<1>5. ApplyResult(c, r, t) =
        IF r.outcome = "success" THEN OnSuccess(c, r.model)
        ELSE IF r.model = <<>> THEN d
        ELSE [d EXCEPT !.modelStates[r.model] = ModelFailure(d, old, r, t)]
  BY DEF ApplyResult
<1> HIDE DEF d, old
<1>6. [d EXCEPT !.modelStates[r.model] = ModelFailure(d, old, r, t)] \in Credential
  BY <1>1, <1>2, <1>4 DEF Credential
<1>7. [d EXCEPT !.modelStates[r.model] = ModelFailure(d, old, r, t)].id = c.id
  BY <1>2 DEF Credential
<1> QED
  BY <1>1, <1>2, <1>5, <1>6, <1>7, OnSuccessType

\* Load (manager.go:203-205) changes nothing but the status.
LEMMA LoadedType ==
  ASSUME NEW c \in Credential
  PROVE  /\ Loaded(c) \in Credential
         /\ Loaded(c).id = c.id
         /\ Loaded(c).token = c.token
         /\ Loaded(c).status # "refreshing"
         /\ Loaded(Loaded(c)) = Loaded(c)
BY DEF Loaded, Credential, Status

\* A login's credential with a token of the provider is a credential with
\* the same ID.
LEMMA TokenType ==
  ASSUME NEW c \in Credential, NEW n \in Nat
  PROVE  [c EXCEPT !.token = n] \in Credential /\ [c EXCEPT !.token = n].id = c.id
BY DEF Credential

\* A status is the only thing the first Update of refreshOne changes.
LEMMA StatusType ==
  ASSUME NEW c \in Credential, NEW s \in Status
  PROVE  [c EXCEPT !.status = s] \in Credential /\ [c EXCEPT !.status = s].id = c.id
BY DEF Credential

\* A refresh that succeeded brings a token and an expiration time.
LEMMA RefreshedType ==
  ASSUME NEW c \in Credential, NEW n \in Nat, NEW k \in Nat
  PROVE  /\ [c EXCEPT !.token = n, !.expires = k] \in Credential
         /\ [c EXCEPT !.token = n, !.expires = k].id = c.id
BY DEF Credential

\* A refresh that failed brings a status and the time of the next attempt.
LEMMA DelayedType ==
  ASSUME NEW c \in Credential, NEW s \in Status, NEW n \in Nat
  PROVE  /\ [c EXCEPT !.status = s, !.nextRefreshAfter = n] \in Credential
         /\ [c EXCEPT !.status = s, !.nextRefreshAfter = n].id = c.id
BY DEF Credential

\* The state a lookup of a model key finds (selector.go:112-128) is one of
\* the credential's model states.
LEMMA StateForType ==
  ASSUME NEW c \in Credential, NEW k
  PROVE  StateFor(c, k) \subseteq ModelState
BY DEF StateFor, KnownModels, Credential

\* A hold of availability fields (selector.go:130-142) lasts beyond the
\* moment it is asked for, and until one of the two times the fields name.
LEMMA HoldFacts ==
  ASSUME NEW s, s.unavailable \in BOOLEAN, s.nextRetryAfter \in Nat, s.quota \in Quota,
         NEW t \in Nat
  PROVE  \/ /\ Hold(s, t) = NotBlocked
            /\ ~(s.unavailable /\ s.nextRetryAfter > t)
         \/ /\ Hold(s, t).reason \in {"cooldown", "other"}
            /\ s.unavailable /\ s.nextRetryAfter > t
            /\ Hold(s, t).next \in {s.nextRetryAfter, s.quota.nextRecoverAt} \ {0}
            /\ Hold(s, t).next \in Nat
            /\ Hold(s, t).next >= s.nextRetryAfter
            /\ Hold(s, t).next >= s.quota.nextRecoverAt
<1>1. s.quota.nextRecoverAt \in Nat /\ s.quota.exceeded \in BOOLEAN
  BY DEF Quota
<1>2. CASE s.unavailable /\ s.nextRetryAfter > t
  <2>1. Hold(s, t) = [reason |-> IF s.quota.exceeded THEN "cooldown" ELSE "other",
                      next |-> IF s.quota.nextRecoverAt > s.nextRetryAfter
                               THEN s.quota.nextRecoverAt ELSE s.nextRetryAfter]
    BY <1>2 DEF Hold
  <2> QED
    BY <1>1, <1>2, <2>1
<1>3. CASE ~(s.unavailable /\ s.nextRetryAfter > t)
  BY <1>3 DEF Hold
<1> QED
  BY <1>2, <1>3

\* isCredentialBlockedForModel (selector.go:82-142) answers for one and the
\* same reason at every time: the credential or the model is disabled, no
\* state speaks of the model, or the hold of one state decides.
LEMMA BlockedCases ==
  ASSUME NEW c \in Credential, NEW k
  PROVE  \/ \A t \in Nat : BlockedForModel(c, k, t) = [reason |-> "disabled", next |-> 0]
         \/ \A t \in Nat : BlockedForModel(c, k, t) = NotBlocked
         \/ \E s \in {c} \cup StateFor(c, k) :
              /\ s.unavailable \in BOOLEAN /\ s.nextRetryAfter \in Nat /\ s.quota \in Quota
              /\ \A t \in Nat : BlockedForModel(c, k, t) = Hold(s, t)
<1>1. CASE IsDisabled(c)
  BY <1>1 DEF BlockedForModel
<1>2. CASE ~IsDisabled(c) /\ ~(k # <<>> /\ KnownModels(c) # {})
  <2>1. \A t \in Nat : BlockedForModel(c, k, t) = Hold(c, t)
    BY <1>2 DEF BlockedForModel
  <2>2. c.unavailable \in BOOLEAN /\ c.nextRetryAfter \in Nat /\ c.quota \in Quota
    BY DEF Credential
  <2> QED
    BY <2>1, <2>2
<1>3. CASE ~IsDisabled(c) /\ k # <<>> /\ KnownModels(c) # {} /\ StateFor(c, k) = {}
  BY <1>3 DEF BlockedForModel
<1>4. CASE ~IsDisabled(c) /\ k # <<>> /\ KnownModels(c) # {} /\ StateFor(c, k) # {}
  <2> DEFINE s == CHOOSE x \in StateFor(c, k) : TRUE
  <2>1. s \in StateFor(c, k)
    BY <1>4
  <2>2. \A t \in Nat : BlockedForModel(c, k, t) =
          IF s.status = "disabled" THEN [reason |-> "disabled", next |-> 0] ELSE Hold(s, t)
    BY <1>4 DEF BlockedForModel
  <2> HIDE DEF s
  <2>3. s \in ModelState
    BY <2>1, StateForType
  <2>4. s.unavailable \in BOOLEAN /\ s.nextRetryAfter \in Nat /\ s.quota \in Quota
    BY <2>3 DEF ModelState
  <2> QED
    BY <2>1, <2>2, <2>4
<1> QED
  BY <1>1, <1>2, <1>3, <1>4

\* The outcome of a request (manager.go:339-458) leaves the token alone and
\* makes no credential a refreshing one.
LEMMA ApplyResultKeeps ==
  ASSUME NEW c \in Credential, NEW r \in Result, NEW t \in Nat
  PROVE  /\ ApplyResult(c, r, t).token = c.token
         /\ c.status # "refreshing" => ApplyResult(c, r, t).status # "refreshing"
<1> DEFINE d == OnFailure(c, r, t)
           old == IF c.modelStates[r.model] # None THEN c.modelStates[r.model]
                  ELSE ClearModelState
           s == OnSuccess(c, r.model)
<1>1. s.token = c.token /\ (c.status # "refreshing" => s.status # "refreshing")
  <2> DEFINE cleared ==
        IF c.unavailable \/ c.lastError \/ c.quota.exceeded
        THEN [c EXCEPT !.unavailable = FALSE, !.lastError = FALSE, !.quota = NoQuota,
                       !.nextRetryAfter = 0, !.status = "active"]
        ELSE c
  <2>1. /\ cleared \in Credential /\ cleared.token = c.token
        /\ c.status # "refreshing" => cleared.status # "refreshing"
    BY ClearModelStateType DEF Credential, Status
  <2>2. \E ms : s = [cleared EXCEPT !.modelStates = ms]
    BY DEF OnSuccess
  <2> HIDE DEF cleared, s
  <2> QED
    BY <2>1, <2>2 DEF Credential
<1>2. d.token = c.token /\ d.status # "refreshing" /\ d \in Credential
  <2>1. d.token = c.token /\ d.status # "refreshing"
    BY DEF OnFailure, Credential
  <2> QED
    BY <2>1, OnFailureType
<1>3. ApplyResult(c, r, t) =
        IF r.outcome = "success" THEN s
        ELSE IF r.model = <<>> THEN d
        ELSE [d EXCEPT !.modelStates[r.model] = ModelFailure(d, old, r, t)]
  BY DEF ApplyResult
<1> HIDE DEF d, old, s
<1>4. /\ [d EXCEPT !.modelStates[r.model] = ModelFailure(d, old, r, t)].token = d.token
      /\ [d EXCEPT !.modelStates[r.model] = ModelFailure(d, old, r, t)].status = d.status
  BY <1>2 DEF Credential
<1> QED
  BY <1>1, <1>2, <1>3, <1>4
=============================================================================
