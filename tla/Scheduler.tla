------------------------------ MODULE Scheduler ------------------------------
(***************************************************************************)
(* authScheduler (llm/cliauth/manager/scheduler.go and selector.go): the   *)
(* incremental per-provider, per-model index from which Pick is served.    *)
(* Every exported operation holds the scheduler's mutex, so each is one    *)
(* action.  A shard is built by the first Pick of its model and from then  *)
(* on kept up to date by every upsert and remove.                          *)
(***************************************************************************)
EXTENDS Credential, FiniteSets

CONSTANTS
  Inputs,     \* the credentials the manager hands over
  TriedSets,  \* the tried sets callers pass to Pick
  MaxTime     \* bound on the clock

VARIABLES
  now,           \* the clock
  strategy,      \* "round_robin" or "fill_first"
  credProviders, \* credID -> provider key
  providers,     \* the providers that have a providerScheduler
  creds,         \* creds[p][id]: the credential of p's scheduledCredMeta
  shards,        \* shards[p][key]: p's modelScheduler for the key
  last           \* what the last Pick was asked and returned

vars == <<now, strategy, credProviders, providers, creds, shards, last>>

ShardKey(m) == CanonicalModelKey(CanonicalModelKey(m))
Keys == {ShardKey(m) : m \in Models}
Priorities == {c.priority : c \in Inputs}

EntryStates == {"ready", "cooldown", "blocked", "disabled"}
Entry == [cred: Credential, state: EntryStates, nextRetryAt: Nat]

\* ready[n] is the ReadyBucket of priority n, a map from ID to credential
\* (the code's slice is sorted by ID); round is a ghost: who was served by
\* the bucket in the current turn.
Shard == [entries: [Ids -> Entry \cup {None}],
          ready: [Priorities -> [Ids -> Credential \cup {None}]],
          cursor: [Priorities -> Nat],
          round: [Priorities -> SUBSET Ids],
          blocked: SUBSET Ids]

ASSUME SchedulerAssumption ==
  /\ Inputs \subseteq Credential
  /\ TriedSets \subseteq SUBSET Ids
  /\ MaxTime \in Nat
  /\ IsFiniteSet(Ids)
  /\ None \notin Entry

NoPick == [provider |-> None, model |-> <<>>, tried |-> {}, outcome |-> "none", cred |-> None]

-----------------------------------------------------------------------------
(* modelScheduler *)

\* Mutant: the retry time is one unit early.
EntryForEarly(c, key, t) ==
  LET b == BlockedForModel(c, key, t)
  IN [cred |-> c,
      state |-> CASE b.reason = "none" -> "ready" [] b.reason = "cooldown" -> "cooldown"
                  [] b.reason = "disabled" -> "disabled" [] OTHER -> "blocked",
      nextRetryAt |-> b.next - 1]

\* The state isCredentialBlockedForModel gives the entry of a credential.
EntryFor(c, key, t) ==
  LET b == BlockedForModel(c, key, t)
  IN [cred |-> c,
      state |-> CASE b.reason = "none" -> "ready" [] b.reason = "cooldown" -> "cooldown"
                  [] b.reason = "disabled" -> "disabled" [] OTHER -> "blocked",
      nextRetryAt |-> b.next]

Listed(sh) == {id \in Ids : sh.entries[id] # None}

\* Buckets, cursors and the blocked list are all built again.
RebuildIndexes(sh) ==
  LET ready == {id \in Listed(sh) : sh.entries[id].state = "ready"} IN
  [sh EXCEPT
     !.ready = [n \in Priorities |-> [id \in Ids |->
        IF id \in ready /\ sh.entries[id].cred.priority = n
        THEN sh.entries[id].cred ELSE None]],
     !.cursor = [n \in Priorities |-> 0],
     !.round = [n \in Priorities |-> {}],
     !.blocked = {id \in Listed(sh) : sh.entries[id].state \in {"cooldown", "blocked"}}]

\* Mutant: a change of priority does not rebuild the indexes.
UpsertEntryIgnoresPriority(sh, c, key, t) ==
  LET old == sh.entries[c.id]
      new == EntryFor(c, key, t)
      sh2 == [sh EXCEPT !.entries[c.id] = new]
  IN IF old # None /\ old.state = new.state /\ old.nextRetryAt = new.nextRetryAt
     THEN sh2 ELSE RebuildIndexes(sh2)

\* Mutant: a known entry takes the new credential but keeps its state.
UpsertEntryKeepsState(sh, c, key, t) ==
  LET old == sh.entries[c.id] IN
  IF old # None THEN [sh EXCEPT !.entries[c.id].cred = c]
  ELSE RebuildIndexes([sh EXCEPT !.entries[c.id] = EntryFor(c, key, t)])

\* The indexes are left alone, and keep the credential they hold, when
\* neither the state, the retry time nor the priority changed.
UpsertEntry(sh, c, key, t) ==
  LET old == sh.entries[c.id]
      new == EntryFor(c, key, t)
      sh2 == [sh EXCEPT !.entries[c.id] = new]
  IN IF /\ old # None
        /\ old.state = new.state /\ old.nextRetryAt = new.nextRetryAt
        /\ old.cred.priority = c.priority
     THEN sh2 ELSE RebuildIndexes(sh2)

RemoveEntry(sh, id) ==
  IF sh.entries[id] = None THEN sh
  ELSE RebuildIndexes([sh EXCEPT !.entries[id] = None])

PromoteExpired(sh, key, t) ==
  LET due == {id \in sh.blocked : sh.entries[id].nextRetryAt \in 1..t} IN
  IF due = {} THEN sh
  ELSE RebuildIndexes([sh EXCEPT !.entries =
         [id \in Ids |-> IF id \in due THEN EntryFor(sh.entries[id].cred, key, t)
                         ELSE sh.entries[id]]])

\* A new shard over the provider's credentials.
BuildShard(metas, key, t) ==
  RebuildIndexes(
    [entries |-> [id \in Ids |-> IF metas[id] = None THEN None
                                 ELSE EntryFor(metas[id], key, t)],
     ready |-> <<>>, cursor |-> <<>>, round |-> <<>>, blocked |-> {}])

EnsureModel(p, key) ==
  IF shards[p][key] # None THEN PromoteExpired(shards[p][key], key, now)
  ELSE BuildShard(creds[p], key, now)

-----------------------------------------------------------------------------
(* Strategies *)

Bucket(sh, n) == {id \in Ids : sh.ready[n][id] # None}
Matches(sh, n, tried) == Bucket(sh, n) \ tried

\* The bucket position of an ID: its index in the slice sorted by ID.
Index(sh, n, id) == Cardinality({j \in Bucket(sh, n) : j < id})

\* The first match at or after the cursor, going round the bucket.
RoundRobin(sh, n, tried) ==
  LET size == Cardinality(Bucket(sh, n))
      start == sh.cursor[n] % size
      distance(id) == (Index(sh, n, id) - start) % size
  IN CHOOSE id \in Matches(sh, n, tried) :
       \A j \in Matches(sh, n, tried) : distance(id) <= distance(j)

FillFirst(sh, n, tried) ==
  CHOOSE id \in Matches(sh, n, tried) : \A j \in Matches(sh, n, tried) : id <= j

\* Mutant: the first bucket with a match, whatever its priority.
BestPrioritiesAny(sh, tried) == {n \in Priorities : Matches(sh, n, tried) # {}}

\* The highest priority whose bucket has a credential not yet tried.
BestPriorities(sh, tried) ==
  {n \in Priorities : /\ Matches(sh, n, tried) # {}
                      /\ \A k \in Priorities : Matches(sh, k, tried) # {} => k <= n}

\* Mutant: the cursor stays on the credential it returns.
AdvanceOffByOne(sh, n, id) ==
  LET served == sh.round[n] \cup {id} IN
  [sh EXCEPT !.cursor[n] = Index(sh, n, id),
             !.round[n] = IF served = Bucket(sh, n) THEN {} ELSE served]

\* PickFromBucket moves the cursor past the credential it returns.
Advance(sh, n, id) ==
  LET served == sh.round[n] \cup {id} IN
  [sh EXCEPT !.cursor[n] = Index(sh, n, id) + 1,
             !.round[n] = IF served = Bucket(sh, n) THEN {} ELSE served]

\* Why a shard has nothing to offer.
Unavailable(sh, tried) ==
  LET open == Listed(sh) \ tried IN
  IF open = {} THEN "not_found"
  ELSE IF \A id \in open : sh.entries[id].state = "cooldown" THEN "cooldown"
  ELSE "unavailable"

-----------------------------------------------------------------------------
(* authScheduler *)

Init ==
  /\ now = 1
  /\ strategy = "round_robin"
  /\ credProviders = [id \in Ids |-> None]
  /\ providers = {}
  /\ creds = [p \in Providers |-> [id \in Ids |-> None]]
  /\ shards = [p \in Providers |-> [k \in Keys |-> None]]
  /\ last = NoPick

RemoveFrom(ps, id) ==
  shards' = [p \in Providers |-> [k \in Keys |->
    IF p \in ps /\ shards[p][k] # None THEN RemoveEntry(shards[p][k], id)
    ELSE shards[p][k]]]

Remove(id) ==
  /\ creds' = [p \in Providers |->
       IF p = credProviders[id] THEN [creds[p] EXCEPT ![id] = None] ELSE creds[p]]
  /\ RemoveFrom({credProviders[id]}, id)
  /\ credProviders' = [credProviders EXCEPT ![id] = None]
  /\ last' = NoPick
  /\ UNCHANGED <<now, strategy, providers>>

\* Mutant: a credential that changed provider stays with the previous one.
PlaceKeepsPrevious(c) ==
  /\ creds' = [creds EXCEPT ![c.provider][c.id] = c]
  /\ shards' = [shards EXCEPT ![c.provider] = [k \in Keys |->
       IF @[k] = None THEN None ELSE UpsertEntry(@[k], c, k, now)]]
  /\ credProviders' = [credProviders EXCEPT ![c.id] = c.provider]
  /\ providers' = providers \cup {c.provider}
  /\ last' = NoPick
  /\ UNCHANGED <<now, strategy>>

\* An enabled credential goes to its provider; one that changed provider
\* leaves the previous one.
Place(c) ==
  /\ creds' = [p \in Providers |->
       [creds[p] EXCEPT ![c.id] = IF p = c.provider THEN c
                                  ELSE IF p = credProviders[c.id] THEN None ELSE @]]
  /\ shards' = [p \in Providers |-> [k \in Keys |->
       IF shards[p][k] = None THEN None
       ELSE IF p = c.provider THEN UpsertEntry(shards[p][k], c, k, now)
       ELSE IF p = credProviders[c.id] THEN RemoveEntry(shards[p][k], c.id)
       ELSE shards[p][k]]]
  /\ credProviders' = [credProviders EXCEPT ![c.id] = c.provider]
  /\ providers' = providers \cup {c.provider}
  /\ last' = NoPick
  /\ UNCHANGED <<now, strategy>>

Upsert(c) == IF IsDisabled(c) THEN Remove(c.id) ELSE Place(c)

\* rebuild: everything is forgotten and the snapshot f inserted again.
Rebuild(f) ==
  LET kept == {id \in Ids : f[id] # None /\ ~IsDisabled(f[id])} IN
  /\ credProviders' = [id \in Ids |-> IF id \in kept THEN f[id].provider ELSE None]
  /\ providers' = {f[id].provider : id \in kept}
  /\ creds' = [p \in Providers |-> [id \in Ids |->
       IF id \in kept /\ f[id].provider = p THEN f[id] ELSE None]]
  /\ shards' = [p \in Providers |-> [k \in Keys |-> None]]
  /\ last' = NoPick
  /\ UNCHANGED now

\* Manager.SetStrategy: the strategy, then a rebuild from the manager's
\* credentials, which without concurrent writers are the scheduler's own plus
\* the disabled ones.
SetStrategy(s) ==
  /\ strategy' = s
  /\ Rebuild([id \in Ids |-> IF credProviders[id] = None THEN None
                             ELSE creds[credProviders[id]][id]])

Answer(p, m, tried, outcome, cred) ==
  last' = [provider |-> p, model |-> m, tried |-> tried, outcome |-> outcome, cred |-> cred]

PickFound(p, m, tried) ==
  LET sh == EnsureModel(p, ShardKey(m)) IN
  \E n \in BestPriorities(sh, tried) :
    LET id == IF strategy = "round_robin" THEN RoundRobin(sh, n, tried)
              ELSE FillFirst(sh, n, tried)
    IN /\ shards' = [shards EXCEPT ![p][ShardKey(m)] =
             IF strategy = "round_robin" THEN Advance(sh, n, id) ELSE sh]
       /\ Answer(p, m, tried, "picked", sh.ready[n][id])

PickFails(p, m, tried) ==
  LET sh == EnsureModel(p, ShardKey(m)) IN
  /\ BestPriorities(sh, tried) = {}
  /\ shards' = [shards EXCEPT ![p][ShardKey(m)] = sh]
  /\ Answer(p, m, tried, Unavailable(sh, tried), None)

PickUnknownProvider(p, m, tried) ==
  /\ Answer(p, m, tried, "not_found", None)
  /\ UNCHANGED shards

Pick(p, m, tried) ==
  /\ IF p \in providers THEN PickFound(p, m, tried) \/ PickFails(p, m, tried)
     ELSE PickUnknownProvider(p, m, tried)
  /\ UNCHANGED <<now, strategy, credProviders, providers, creds>>

Tick ==
  /\ now < MaxTime
  /\ now' = now + 1
  /\ last' = NoPick
  /\ UNCHANGED <<strategy, credProviders, providers, creds, shards>>

Next ==
  \/ \E c \in Inputs : Upsert(c)
  \/ \E id \in Ids : Remove(id)
  \/ \E s \in {"round_robin", "fill_first"} : SetStrategy(s)
  \/ \E p \in Providers, m \in Models, tried \in TriedSets : Pick(p, m, tried)
  \/ Tick

Spec == Init /\ [][Next]_vars

-----------------------------------------------------------------------------
(* Properties *)

\* Type invariant of the scheduler's maps (scheduler.go:26-58).
TypeOK ==
  /\ now \in Nat
  /\ strategy \in {"round_robin", "fill_first"}
  /\ credProviders \in [Ids -> Providers \cup {None}]
  /\ providers \subseteq Providers
  /\ creds \in [Providers -> [Ids -> Credential \cup {None}]]
  /\ shards \in [Providers -> [Keys -> Shard \cup {None}]]
  /\ last \in [provider: Providers \cup {None}, model: Models \cup {<<>>},
               tried: SUBSET Ids, cred: Credential \cup {None},
               outcome: {"none", "picked", "not_found", "cooldown", "unavailable"}]

\* The scheduler's three views of who belongs where agree: credProviders
\* names exactly the provider whose creds hold the credential, nothing
\* disabled is held, and every shard lists exactly its provider's
\* credentials, in their latest version (upsertLocked, removeLocked and the
\* loops over modelShards).
PlacementAgrees ==
  \A p \in Providers, id \in Ids :
    /\ (creds[p][id] # None) <=> (credProviders[id] = p)
    /\ creds[p][id] # None =>
         /\ creds[p][id].id = id /\ creds[p][id].provider = p
         /\ ~IsDisabled(creds[p][id]) /\ p \in providers
    /\ \A k \in Keys : shards[p][k] # None =>
         IF creds[p][id] = None THEN shards[p][k].entries[id] = None
         ELSE /\ shards[p][k].entries[id] # None
              /\ shards[p][k].entries[id].cred = creds[p][id]

\* The buckets and the blocked list of a shard index exactly its entries by
\* state and priority, although upsertEntryLocked skips the rebuild when it
\* thinks nothing changed (scheduler.go:290-294).
IndexesAgree ==
  \A p \in Providers, k \in Keys : shards[p][k] # None =>
    LET sh == shards[p][k] IN
    /\ \A n \in Priorities : Bucket(sh, n) =
         {id \in Listed(sh) : sh.entries[id].state = "ready" /\ sh.entries[id].cred.priority = n}
    /\ sh.blocked = {id \in Listed(sh) : sh.entries[id].state \in {"cooldown", "blocked"}}

\* No entry is lost: a ready one is not blocked now, one that is held has a
\* retry time at which promoteExpiredLocked will look at it again, and that
\* time is the one its credential asks for, never later.
HeldUntilRetryOnly ==
  \A p \in Providers, k \in Keys : shards[p][k] # None =>
    \A id \in Listed(shards[p][k]) :
      LET e == shards[p][k].entries[id] IN
      /\ e.state = "ready" => BlockedForModel(e.cred, k, now).reason = "none"
      /\ e.state \in {"cooldown", "blocked"} =>
           \E s \in {e.cred} \cup StateFor(e.cred, k) :
             /\ s.unavailable
             /\ e.nextRetryAt \in {s.nextRetryAfter, s.quota.nextRecoverAt} \ {0}

\* Between two rebuilds of a bucket, round robin serves everybody once
\* before it serves anybody twice (RoundRobinSelector.PickFromBucket), when
\* callers pass no tried set, as authmanaged.go:71 does.
EvenRotation ==
  [][\A p \in Providers, k \in Keys, n \in Priorities :
       /\ shards[p][k] # None /\ shards'[p][k] # None
       /\ strategy = "round_robin" /\ last'.outcome = "picked"
       /\ last'.provider = p /\ ShardKey(last'.model) = k /\ last'.cred.priority = n
       /\ shards'[p][k].ready = shards[p][k].ready
       => last'.cred.id \notin shards[p][k].round[n]]_vars

\* The scheduler implements the pool: its credentials by ID, its answers by
\* ID (which version of the credential a pick returns is PickIsLatest).
Pool == INSTANCE CredentialPool WITH
  pool <- [id \in Ids |-> IF credProviders[id] = None THEN None
                          ELSE creds[credProviders[id]][id]],
  answer <- [provider |-> last.provider, model |-> last.model, tried |-> last.tried,
             outcome |-> last.outcome,
             id |-> IF last.cred = None THEN None ELSE last.cred.id]

ImplementsPool == Pool!Spec

-----------------------------------------------------------------------------
(* Statements of the code's comments that the code does not keep *)

\* "upsert incrementally synchronizes one credential into the scheduler":
\* a pick returns the credential as it was last handed over.
PickIsLatest ==
  last.outcome = "picked" => last.cred = creds[last.provider][last.cred.id]

\* "canonicalModelKey strips variant suffixes for consistent model key
\* lookup": a pick for a model never returns a credential that a result for
\* this very model put on hold.
ModelHoldIsFound ==
  last.outcome = "picked" =>
    LET c == creds[last.provider][last.cred.id] IN
    last.model \in KnownModels(c) =>
      Hold(c.modelStates[last.model], now).reason = "none"
=============================================================================
