----------------------------- MODULE Credential -----------------------------
(***************************************************************************)
(* The credential record of llm/cliauth/credential/types.go and the pure   *)
(* rules the manager package applies to it: when it is blocked for a model *)
(* (selector.go), when it needs a refresh, how long a quota error backs it *)
(* off, and what the outcome of a request does to it (manager.go).         *)
(*                                                                         *)
(* Tokens are numbered: token n is the n-th token pair the provider issued *)
(* for the credential.  Times are natural numbers and 0 is Go's zero time. *)
(* A model name is the sequence of its ':'-separated segments and <<>> is  *)
(* the empty name.  Messages, labels and timestamps that no condition      *)
(* reads are left out.                                                     *)
(***************************************************************************)
EXTENDS Integers, Sequences

CONSTANTS
  Ids,          \* credential IDs, numbers: the scheduler sorts by ID
  Providers,    \* provider keys, lower-cased and trimmed
  Models,       \* the model names requests carry, as segment sequences
  None,         \* nil: no credential, no map entry, no provider
  BackoffBase,  \* defaultQuotaBackoffBase
  BackoffMax,   \* defaultQuotaBackoffMax
  RefreshLead,  \* how long before its expiration a token is refreshed
  RefreshDelay, \* how long after a failed refresh the next one may start
  QuotaCooldownDisabled \* the manager's global switch

Status == {"active", "error", "disabled", "refreshing"}
Outcomes == {"success", "quota", "auth", "other"}

Quota == [exceeded: BOOLEAN, nextRecoverAt: Nat, backoffLevel: Nat]

ModelState == [status: Status, unavailable: BOOLEAN, nextRetryAfter: Nat,
               lastError: BOOLEAN, quota: Quota]

Credential ==
  [id: Ids, provider: Providers, priority: Int, token: Nat, expires: Nat,
   disableCooling: {"unset", "true", "false"}, status: Status,
   unavailable: BOOLEAN, nextRetryAfter: Nat, nextRefreshAfter: Nat,
   lastError: BOOLEAN, quota: Quota,
   modelStates: [Models -> ModelState \cup {None}]]

\* What a request reports: retryAfter = 0 stands for the nil hint.
Result == [outcome: Outcomes, model: Models, retryAfter: Nat]

ASSUME ConstantsAssumption ==
  /\ Ids \subseteq Nat
  /\ Models \subseteq Seq(STRING)
  /\ BackoffBase \in Nat \ {0} /\ BackoffMax \in Nat /\ BackoffBase <= BackoffMax
  /\ RefreshLead \in Nat /\ RefreshDelay \in Nat
  /\ QuotaCooldownDisabled \in BOOLEAN
  /\ None \notin Credential /\ None \notin ModelState
  /\ None \notin Ids /\ None \notin Providers

NoQuota == [exceeded |-> FALSE, nextRecoverAt |-> 0, backoffLevel |-> 0]

ClearModelState ==
  [status |-> "active", unavailable |-> FALSE, nextRetryAfter |-> 0,
   lastError |-> FALSE, quota |-> NoQuota]

\* A credential as a login builds it: active, with its first token.
NewCredential(id, p, prio, exp) ==
  [id |-> id, provider |-> p, priority |-> prio, token |-> 1, expires |-> exp,
   disableCooling |-> "unset", status |-> "active", unavailable |-> FALSE,
   nextRetryAfter |-> 0, nextRefreshAfter |-> 0, lastError |-> FALSE,
   quota |-> NoQuota, modelStates |-> [m \in Models |-> None]]

IsDisabled(c) == c.status = "disabled"

\* The models a credential has a state for: the keys of its ModelStates map.
KnownModels(c) == {m \in Models : c.modelStates[m] # None}

-----------------------------------------------------------------------------
(* selector.go *)

\* Strips the last ':' segment of a model name, if it has several.
CanonicalModelKey(m) == IF Len(m) > 1 THEN SubSeq(m, 1, Len(m) - 1) ELSE m

NotBlocked == [reason |-> "none", next |-> 0]

\* How the availability fields of a credential or of a model state block it.
Hold(s, now) ==
  IF s.unavailable /\ s.nextRetryAfter > now
  THEN [reason |-> IF s.quota.exceeded THEN "cooldown" ELSE "other",
        next |-> IF s.quota.nextRecoverAt > s.nextRetryAfter
                 THEN s.quota.nextRecoverAt ELSE s.nextRetryAfter]
  ELSE NotBlocked

\* The per-model state a lookup of key finds: its own, else its base model's.
StateFor(c, key) ==
  LET found == {key, CanonicalModelKey(key)} \cap KnownModels(c)
  IN IF key \in found THEN {c.modelStates[key]}
     ELSE {c.modelStates[k] : k \in found \ {<<>>}}

\* isCredentialBlockedForModel.  A credential that has model states, none of
\* them for this model, is not blocked whatever its own fields say.
BlockedForModel(c, key, now) ==
  IF IsDisabled(c) THEN [reason |-> "disabled", next |-> 0]
  ELSE IF key # <<>> /\ KnownModels(c) # {}
  THEN IF StateFor(c, key) = {} THEN NotBlocked
       ELSE LET s == CHOOSE x \in StateFor(c, key) : TRUE
            IN IF s.status = "disabled" THEN [reason |-> "disabled", next |-> 0]
               ELSE Hold(s, now)
  ELSE Hold(c, now)

-----------------------------------------------------------------------------
(* manager.go *)

NeedsRefresh(c, now) ==
  /\ c.status # "refreshing"
  /\ c.nextRefreshAfter = 0 \/ now >= c.nextRefreshAfter
  /\ c.expires # 0
  /\ now > c.expires - RefreshLead

\* The progressive backoff: the base doubled level times, up to the maximum.
ComputeBackoff(level) ==
  LET d[i \in Nat] == IF i = 0 THEN BackoffBase
                      ELSE IF d[i-1] < BackoffMax THEN 2 * d[i-1] ELSE d[i-1]
  IN IF level <= 0 THEN BackoffBase
     ELSE IF d[level] \in 0..BackoffMax THEN d[level] ELSE BackoffMax

CooldownDisabledFor(c) ==
  IF c.disableCooling = "unset" THEN QuotaCooldownDisabled
  ELSE c.disableCooling = "true"

\* A successful request clears the errors and flags it finds, at both levels.
OnSuccess(c, m) ==
  LET cleared ==
        IF c.unavailable \/ c.lastError \/ c.quota.exceeded
        THEN [c EXCEPT !.unavailable = FALSE, !.lastError = FALSE, !.quota = NoQuota,
                       !.nextRetryAfter = 0, !.status = "active"]
        ELSE c
      stale == {k \in {m} \cap (KnownModels(c) \ {<<>>}) :
                  c.modelStates[k].unavailable \/ c.modelStates[k].lastError}
  IN [cleared EXCEPT !.modelStates =
        [k \in Models |->
           IF k \in stale THEN ClearModelState ELSE c.modelStates[k]]]

\* The credential-level effect of a failed request.
OnFailure(c, r, now) ==
  LET backoff == IF r.retryAfter > ComputeBackoff(c.quota.backoffLevel)
                 THEN r.retryAfter ELSE ComputeBackoff(c.quota.backoffLevel)
  IN CASE r.outcome = "quota" /\ ~CooldownDisabledFor(c) ->
            [c EXCEPT !.quota = [exceeded |-> TRUE, nextRecoverAt |-> now + backoff,
                                 backoffLevel |-> c.quota.backoffLevel + 1],
                      !.unavailable = TRUE, !.nextRetryAfter = now + backoff,
                      !.status = "error"]
       [] r.outcome = "auth" -> [c EXCEPT !.status = "disabled"]
       [] OTHER ->
            [c EXCEPT !.lastError = TRUE, !.status = "error",
                      !.unavailable = IF r.retryAfter # 0 THEN TRUE ELSE c.unavailable,
                      !.nextRetryAfter = IF r.retryAfter # 0 THEN now + r.retryAfter
                                         ELSE c.nextRetryAfter]

\* The state a failed request leaves for its model; d is the credential after
\* OnFailure and old the state the model had.
ModelFailure(d, old, r, now) ==
  IF r.outcome = "quota" /\ ~CooldownDisabledFor(d)
  THEN [old EXCEPT !.quota = d.quota, !.unavailable = TRUE, !.status = "error",
                   !.nextRetryAfter = d.nextRetryAfter]
  ELSE [old EXCEPT !.lastError = TRUE, !.status = "error",
                   !.unavailable = IF r.retryAfter # 0 THEN TRUE ELSE old.unavailable,
                   !.nextRetryAfter = IF r.retryAfter # 0 THEN now + r.retryAfter
                                      ELSE old.nextRetryAfter]

\* What MarkResult makes of its copy of the credential.  A model's state is
\* kept under the name the request carried, not under its canonical key.
ApplyResult(c, r, now) ==
  IF r.outcome = "success" THEN OnSuccess(c, r.model)
  ELSE LET d == OnFailure(c, r, now)
           old == IF c.modelStates[r.model] # None THEN c.modelStates[r.model]
                  ELSE ClearModelState
       IN IF r.model = <<>> THEN d
          ELSE [d EXCEPT !.modelStates[r.model] = ModelFailure(d, old, r, now)]

\* Whether MarkResult has anything to write back.
Changes(c, r) == r.outcome # "success" \/ OnSuccess(c, r.model) # c

\* Load: a row that a crash left refreshing is active again.
Loaded(c) == IF c.status = "refreshing" THEN [c EXCEPT !.status = "active"] ELSE c
=============================================================================
