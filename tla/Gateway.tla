------------------------------ MODULE Gateway -------------------------------
(***************************************************************************)
(* AgentGateway.ResolveProvider (gateway/agentgateway.go) and the resolver *)
(* of stored providers with its cache (gateway/providerresolver.go), while *)
(* the admin API (admin/routes.go) changes the rows they read.  A request  *)
(* reads the route row, the key row and the provider row one after the     *)
(* other, without a transaction, and shares g.routes and the cache with    *)
(* the other requests; each lock or store call is a step.                  *)
(***************************************************************************)
EXTENDS RoutePolicy

CONSTANTS
  Requests,     \* request goroutines
  Asks,         \* Asks[t]: what t may ask for
  RouteInputs,  \* the route bodies administrators send, per ID
  KeyInputs,    \* the key bodies they send
  Configs,      \* provider configurations
  ConfigInputs, \* ConfigInputs[ref]: those they send for the reference
  Buildable,    \* those NewProvider accepts
  Histories,    \* what earlier processes may have left in the store
  StaticRoutes, \* StaticRoutes[id]: the route of the Caddyfile, or None
  StaticRefs,   \* the providers of the Caddyfile
  MaxTime,      \* bound on the clock
  MaxChanges,   \* bound on the number of changes administrators make
  Faults        \* whether reads of the store may fail

ASSUME GatewayAssumption ==
  /\ Asks \in [Requests -> SUBSET Ask]
  /\ RouteInputs \subseteq Route /\ \A r \in RouteInputs : Len(r.targets) > 0
  /\ KeyInputs \subseteq Key
  /\ ConfigInputs \in [Refs -> SUBSET Configs]
  /\ Buildable \subseteq Configs /\ None \notin Configs /\ "static" \notin Configs
  /\ Histories \subseteq [routes: [RouteIds -> Route \cup {None}],
                            keys: [KeyIds -> Key \cup {None}],
                            configs: [Refs -> Configs \cup {None}]]
  /\ \A h \in Histories, id \in RouteIds :
       h.routes[id] # None => h.routes[id] = Defaults(h.routes[id])
  /\ StaticRoutes \in [RouteIds -> Route \cup {None}]
  /\ None \notin Route /\ None \notin Key /\ None \notin Target
  /\ StaticRefs \subseteq Refs
  /\ MaxTime \in Nat /\ MaxChanges \in Nat /\ Faults \in BOOLEAN

VARIABLES
  now,          \* the clock
  hasStore,     \* whether the app has a config store
  routeRows,    \* routeRows[id]: the stored route
  keyRows,      \* keyRows[id]: the stored local API key
  providerRows, \* providerRows[ref]: the stored provider configuration
  routes,       \* g.routes
  cache,        \* cache[ref]: the configuration of the cached instance
  reqs,         \* reqs[t]: the request t works on
  seen,         \* ghost: the rows that were current since the request began
  changes       \* how many changes administrators have made

rows == <<routeRows, keyRows, providerRows>>
vars == <<now, hasStore, rows, routes, cache, reqs, seen, changes>>

PCs == {"idle", "route", "ensure", "key", "config", "cache", "build", "static", "done"}

\* via is the instance that serves the request: of a stored configuration,
\* or the static one.
Request == [pc: PCs, ask: Ask \cup {None}, route: Route \cup {None}, key: Key \cup {None},
            target: Target \cup {None}, cfg: Configs \cup {None}, status: Nat,
            via: Configs \cup {None, "static"}]

Idle == [pc |-> "idle", ask |-> None, route |-> None, key |-> None, target |-> None,
         cfg |-> None, status |-> 0, via |-> None]

Unseen == [routes |-> {}, keys |-> {}, configs |-> [x \in Refs |-> {}], since |-> 0,
           faulted |-> FALSE]

EmptyStore == [routes |-> [id \in RouteIds |-> None], keys |-> [id \in KeyIds |-> None],
               configs |-> [x \in Refs |-> None]]

\* The routes of the Caddyfile.
StaticTable == [id \in RouteIds |->
  IF StaticRoutes[id] = None THEN None ELSE Defaults(StaticRoutes[id])]

\* Provision: the static routes, and whatever an earlier process has stored.
Init ==
  /\ now = 1
  /\ hasStore \in BOOLEAN
  /\ \E h \in IF hasStore THEN Histories ELSE {EmptyStore} :
       routeRows = h.routes /\ keyRows = h.keys /\ providerRows = h.configs
  /\ routes = StaticTable
  /\ cache = [x \in Refs |-> None]
  /\ reqs = [t \in Requests |-> Idle]
  /\ seen = [t \in Requests |-> Unseen]
  /\ changes = 0

-----------------------------------------------------------------------------
(* The admin API: every handler is one statement on one row *)

Active(t) == reqs[t].pc \notin {"idle", "done"}

\* The ghost of a change: the requests under way have seen the new row too.
RouteSeen(id, r) ==
  seen' = [t \in Requests |->
    IF Active(t) /\ reqs[t].ask.route = id THEN [seen[t] EXCEPT !.routes = @ \cup {r}]
    ELSE seen[t]]

KeySeen(id, k) ==
  seen' = [t \in Requests |->
    IF Active(t) /\ reqs[t].ask.key = id THEN [seen[t] EXCEPT !.keys = @ \cup {k}]
    ELSE seen[t]]

ConfigSeen(ref, c) ==
  seen' = [t \in Requests |->
    IF Active(t) THEN [seen[t] EXCEPT !.configs[ref] = @ \cup {c}] ELSE seen[t]]

Change ==
  /\ hasStore
  /\ changes < MaxChanges
  /\ changes' = changes + 1
  /\ UNCHANGED <<now, hasStore, routes, cache, reqs>>

PutRoute(id, r) ==
  /\ Change
  /\ routeRows' = [routeRows EXCEPT ![id] = r]
  /\ RouteSeen(id, r)
  /\ UNCHANGED <<keyRows, providerRows>>

PutKey(id, k) ==
  /\ Change
  /\ keyRows' = [keyRows EXCEPT ![id] = k]
  /\ KeySeen(id, k)
  /\ UNCHANGED <<routeRows, providerRows>>

PutConfig(ref, c) ==
  /\ Change
  /\ providerRows' = [providerRows EXCEPT ![ref] = c]
  /\ ConfigSeen(ref, c)
  /\ UNCHANGED <<routeRows, keyRows>>

\* Create fails on an existing row, Update on a missing one.
CreateRoute(r) == routeRows[r.id] = None /\ PutRoute(r.id, Defaults(r))
UpdateRoute(r) == routeRows[r.id] # None /\ PutRoute(r.id, Defaults(r))
DeleteRoute(id) == PutRoute(id, None)

CreateLocalAPIKey(k) == keyRows[k.id] = None /\ PutKey(k.id, k)
UpdateLocalAPIKey(k) == keyRows[k.id] # None /\ PutKey(k.id, k)
DeleteLocalAPIKey(id) == PutKey(id, None)

CreateProvider(ref, c) == providerRows[ref] = None /\ PutConfig(ref, c)
UpdateProvider(ref, c) == providerRows[ref] # None /\ PutConfig(ref, c)
DeleteProvider(ref) == PutConfig(ref, None)

-----------------------------------------------------------------------------
(* ResolveProvider *)

Step(t, r) ==
  /\ reqs' = [reqs EXCEPT ![t] = r]
  /\ UNCHANGED <<now, hasStore, rows, changes>>

\* An error returns no part of the resolution.
Refused(t, status) == [Idle EXCEPT !.pc = "done", !.ask = reqs[t].ask, !.status = status]
Served(t, via) == [reqs[t] EXCEPT !.pc = "done", !.status = 200, !.cfg = None, !.via = via]

Faulted(t) == seen' = [seen EXCEPT ![t].faulted = TRUE]

Begin(t, ask) ==
  /\ reqs[t].pc = "idle"
  /\ Step(t, [Idle EXCEPT !.pc = "route", !.ask = ask])
  /\ seen' = [seen EXCEPT ![t] =
       [routes |-> IF ask.route = None THEN {} ELSE {routeRows[ask.route]},
        keys |-> IF ask.key = None THEN {} ELSE {keyRows[ask.key]},
        configs |-> [x \in Refs |-> {providerRows[x]}],
        since |-> now, faulted |-> FALSE]]
  /\ UNCHANGED <<routes, cache>>

\* resolveRoute with a loader: a missing row is an error of the loader.
LoadRoute(t) ==
  LET id == reqs[t].ask.route IN
  /\ reqs[t].pc = "route" /\ id # None /\ hasStore
  /\ IF routeRows[id] = None THEN Step(t, Refused(t, 503))
     ELSE Step(t, [reqs[t] EXCEPT !.pc = "ensure", !.route = Defaults(routeRows[id])])
  /\ UNCHANGED <<routes, cache, seen>>

LoadRouteFails(t) ==
  /\ Faults
  /\ reqs[t].pc = "route" /\ reqs[t].ask.route # None /\ hasStore
  /\ Step(t, Refused(t, 503))
  /\ Faulted(t)
  /\ UNCHANGED <<routes, cache>>

EnsureRoute(t) ==
  /\ reqs[t].pc = "ensure"
  /\ routes' = [routes EXCEPT ![reqs[t].ask.route] = reqs[t].route]
  /\ Step(t, [reqs[t] EXCEPT !.pc = "key"])
  /\ UNCHANGED <<cache, seen>>

\* resolveRoute without a loader.
StaticRoute(t) ==
  LET id == reqs[t].ask.route IN
  /\ reqs[t].pc = "route" /\ id # None /\ ~hasStore
  /\ IF routes[id] = None THEN Step(t, Refused(t, 503))
     ELSE Step(t, [reqs[t] EXCEPT !.pc = "key", !.route = Defaults(routes[id])])
  /\ UNCHANGED <<routes, cache, seen>>

NoRouteId(t) ==
  /\ reqs[t].pc = "route" /\ reqs[t].ask.route = None
  /\ Step(t, Refused(t, 503))
  /\ UNCHANGED <<routes, cache, seen>>

\* resolveLocalAPIKey: the status it fails with, or 200.
ResolveLocalAPIKey(r, id) ==
  IF id = None THEN IF r.requireKey THEN 401 ELSE 200
  ELSE IF ~hasStore THEN 503
  ELSE IF keyRows[id] = None THEN 401
  ELSE ValidateLocalAPIKeyForRoute(r, keyRows[id], now)

\* The key is read, everything up to the choice of a target is local.
Admit(t) ==
  LET r == reqs[t].route
      id == reqs[t].ask.key
      k == IF id = None \/ ~hasStore THEN None ELSE keyRows[id]
  IN
  /\ reqs[t].pc = "key"
  /\ IF ResolveLocalAPIKey(r, id) # 200 THEN Step(t, Refused(t, ResolveLocalAPIKey(r, id)))
     ELSE IF ValidateRequestPolicy(r, k, reqs[t].ask) # 200 THEN Step(t, Refused(t, 403))
     ELSE IF SelectTarget(r, reqs[t].ask) = {} THEN Step(t, Refused(t, 502))
     ELSE \E x \in SelectTarget(r, reqs[t].ask) :
            Step(t, [reqs[t] EXCEPT !.pc = IF hasStore THEN "config" ELSE "static",
                                    !.key = k, !.target = x])
  /\ UNCHANGED <<routes, cache, seen>>

AdmitFails(t) ==
  /\ Faults
  /\ reqs[t].pc = "key" /\ reqs[t].ask.key # None /\ hasStore
  /\ Step(t, Refused(t, 401))
  /\ Faulted(t)
  /\ UNCHANGED <<routes, cache>>

-----------------------------------------------------------------------------
(* The chain of resolvers: stored configurations first, then static ones *)

\* Mutant: a missing row is taken for a configuration.
ReadConfigUnchecked(t) ==
  /\ reqs[t].pc = "config"
  /\ Step(t, [reqs[t] EXCEPT !.pc = "cache", !.cfg = providerRows[reqs[t].target.ref]])
  /\ UNCHANGED <<routes, cache, seen>>

ReadConfig(t) ==
  LET cfg == providerRows[reqs[t].target.ref] IN
  /\ reqs[t].pc = "config"
  /\ IF cfg = None THEN Step(t, [reqs[t] EXCEPT !.pc = "static"])
     ELSE Step(t, [reqs[t] EXCEPT !.pc = "cache", !.cfg = cfg])
  /\ UNCHANGED <<routes, cache, seen>>

\* Any error of the store moves on to the static providers.
ReadConfigFails(t) ==
  /\ Faults
  /\ reqs[t].pc = "config"
  /\ Step(t, [reqs[t] EXCEPT !.pc = "static"])
  /\ Faulted(t)
  /\ UNCHANGED <<routes, cache>>

\* Mutant: the cached instance is used whatever it was built from.
ReadCacheByRef(t) ==
  LET c == cache[reqs[t].target.ref] IN
  /\ reqs[t].pc = "cache"
  /\ IF c # None THEN Step(t, Served(t, c))
     ELSE IF reqs[t].cfg \in Buildable THEN Step(t, [reqs[t] EXCEPT !.pc = "build"])
     ELSE Step(t, [reqs[t] EXCEPT !.pc = "static"])
  /\ UNCHANGED <<routes, cache, seen>>

\* A hit needs the same fingerprint; a configuration that NewProvider
\* refuses is an error of this resolver.
ReadCache(t) ==
  LET c == cache[reqs[t].target.ref] IN
  /\ reqs[t].pc = "cache"
  /\ IF c = reqs[t].cfg THEN Step(t, Served(t, c))
     ELSE IF reqs[t].cfg \in Buildable THEN Step(t, [reqs[t] EXCEPT !.pc = "build"])
     ELSE Step(t, [reqs[t] EXCEPT !.pc = "static"])
  /\ UNCHANGED <<routes, cache, seen>>

WriteCache(t) ==
  /\ reqs[t].pc = "build"
  /\ cache' = [cache EXCEPT ![reqs[t].target.ref] = reqs[t].cfg]
  /\ Step(t, Served(t, reqs[t].cfg))
  /\ UNCHANGED <<routes, seen>>

ResolveStatic(t) ==
  /\ reqs[t].pc = "static"
  /\ IF reqs[t].target.ref \in StaticRefs THEN Step(t, Served(t, "static"))
     ELSE Step(t, Refused(t, 502))
  /\ UNCHANGED <<routes, cache, seen>>

\* The handler has its answer and the goroutine takes the next request.
Reply(t) ==
  /\ reqs[t].pc = "done"
  /\ Step(t, Idle)
  /\ seen' = [seen EXCEPT ![t] = Unseen]
  /\ UNCHANGED <<routes, cache>>

Tick ==
  /\ now < MaxTime
  /\ now' = now + 1
  /\ UNCHANGED <<hasStore, rows, routes, cache, reqs, seen, changes>>

AdminStep ==
  \/ \E r \in RouteInputs : CreateRoute(r) \/ UpdateRoute(r) \/ DeleteRoute(r.id)
  \/ \E k \in KeyInputs : CreateLocalAPIKey(k) \/ UpdateLocalAPIKey(k) \/ DeleteLocalAPIKey(k.id)
  \/ \E x \in Refs : \/ \E c \in ConfigInputs[x] : CreateProvider(x, c) \/ UpdateProvider(x, c)
                     \/ DeleteProvider(x)

RequestStep(t) ==
  \/ LoadRoute(t) \/ LoadRouteFails(t) \/ EnsureRoute(t) \/ StaticRoute(t) \/ NoRouteId(t)
  \/ Admit(t) \/ AdmitFails(t)
  \/ ReadConfig(t) \/ ReadConfigFails(t) \/ ReadCache(t) \/ WriteCache(t) \/ ResolveStatic(t)
  \/ Reply(t)

Next ==
  \/ AdminStep
  \/ \E t \in Requests : \E ask \in Asks[t] : Begin(t, ask)
  \/ \E t \in Requests : RequestStep(t)
  \/ Tick

Spec == Init /\ [][Next]_vars

-----------------------------------------------------------------------------
(* Properties *)

\* Type invariant: besides the types, what each stage of a request has got.
TypeOK ==
  /\ now \in Nat /\ hasStore \in BOOLEAN /\ changes \in 0..MaxChanges
  /\ routeRows \in [RouteIds -> Route \cup {None}]
  /\ keyRows \in [KeyIds -> Key \cup {None}]
  /\ providerRows \in [Refs -> Configs \cup {None}]
  /\ routes \in [RouteIds -> Route \cup {None}]
  /\ cache \in [Refs -> Buildable \cup {None}]
  /\ reqs \in [Requests -> Request]
  /\ \A t \in Requests :
       /\ reqs[t].pc # "idle" => reqs[t].ask \in Asks[t]
       /\ reqs[t].pc \in {"ensure", "key", "config", "cache", "build", "static"} =>
            reqs[t].route \in Route
       /\ reqs[t].pc \in {"config", "cache", "build", "static"} => reqs[t].target.ref \in Refs
       /\ reqs[t].pc \in {"cache", "build"} => reqs[t].cfg \in Configs
  /\ seen \in [Requests -> [routes: SUBSET (Route \cup {None}), keys: SUBSET (Key \cup {None}),
                            configs: [Refs -> SUBSET (Configs \cup {None})],
                            since: Nat, faulted: BOOLEAN]]

Done(t) == reqs[t].pc = "done"

\* Whatever other requests left in g.routes and in the cache, and whatever
\* administrators change meanwhile, a request is served by the route, the key
\* and the configuration of rows that were current at some time since it
\* began: a change that was complete before the request began is never
\* missed.  The static instance steps in only where the stored provider was
\* absent, could not be built or could not be read.
ServedFromWindow ==
  \A t \in Requests : Done(t) /\ reqs[t].status = 200 =>
    LET q == reqs[t] IN
    /\ IF hasStore THEN q.route \in seen[t].routes ELSE q.route = Defaults(StaticRoutes[q.ask.route])
    /\ q.key # None => q.key \in seen[t].keys
    /\ IF q.via = "static"
       THEN \/ seen[t].configs[q.target.ref] \ Buildable # {}
            \/ seen[t].faulted
       ELSE q.via \in seen[t].configs[q.target.ref]

-----------------------------------------------------------------------------
(* What the rows alone decide, as a reference for a request that no change *)
(* and no fault disturbed                                                  *)

Rank(g, strategy) ==
  LET first == IF strategy \in {"weighted", "failover"} THEN strategy ELSE "conditional" IN
  IF g = first THEN 0
  ELSE CASE g = "weighted" -> 1
         [] g = "conditional" -> 2
         [] g = "failover" -> 3
         [] g = "other" -> 4

\* Without fallback a strategy keeps to its own group; auto has two.
InReach(g, strategy, fallback) ==
  \/ fallback
  \/ IF strategy \in {"weighted", "failover", "conditional"} THEN g = strategy
     ELSE g \in {"conditional", "weighted"}

\* The positions of the targets a request may go to.
Choice(r, ask) ==
  LET fits == {i \in DOMAIN r.targets :
                 LET x == r.targets[i] IN
                 /\ ~x.disabled /\ x.ref # None /\ MatchesConditions(x, ask)
                 /\ InReach(GroupOf(x), r.strategy, r.fallback)}
      rank(i) == Rank(GroupOf(r.targets[i]), r.strategy)
      prio(i) == r.targets[i].priority
  IN {i \in fits : \A j \in fits :
        /\ rank(i) <= rank(j)
        /\ rank(i) = rank(j) /\ GroupOf(r.targets[i]) = "failover" =>
             prio(i) < prio(j) \/ (prio(i) = prio(j) /\ i <= j)}

Permitted(policies, ask) ==
  /\ ask.model \in {None} \cup {m \in Models : \A p \in policies :
                                 p.allowedModels = {} \/ m \in p.allowedModels}
  /\ ask.stream => \A p \in policies : p.allowStreaming \in {TRUE, None}

Usable(k, r, at) == /\ ~k.disabled
                    /\ k.expires = 0 \/ k.expires >= at
                    /\ k.routes = {} \/ r.id \in k.routes

\* The answers to a request that finds route r, key k and configurations
\* cfgs at the given time, with or without a store.
Answers(stored, ask, r, k, cfgs, at) ==
  IF r = None THEN {<<503, None>>}
  ELSE IF ask.key # None /\ ~stored THEN {<<503, None>>}
  ELSE IF k = None /\ (r.requireKey \/ ask.key # None) THEN {<<401, None>>}
  ELSE IF (k # None /\ ~Usable(k, r, at)) \/ ~Permitted({r, k} \ {None}, ask)
  THEN {<<403, None>>}
  ELSE IF Choice(r, ask) = {} THEN {<<502, None>>}
  ELSE {LET ref == r.targets[i].ref IN
        IF cfgs[ref] \in Buildable THEN <<200, cfgs[ref]>>
        ELSE IF ref \in StaticRefs THEN <<200, "static">> ELSE <<502, None>> :
          i \in Choice(r, ask)}

The(S) == CHOOSE x \in S : TRUE

Undisturbed(t) ==
  /\ ~seen[t].faulted
  /\ Cardinality(seen[t].routes) <= 1 /\ Cardinality(seen[t].keys) <= 1
  /\ \A x \in Refs : Cardinality(seen[t].configs[x]) = 1

\* The route the documentation promises a request: that of the store when it
\* is there, otherwise that of the Caddyfile.
DocumentedRoute(t) ==
  LET id == reqs[t].ask.route IN
  IF id = None THEN None
  ELSE IF hasStore /\ The(seen[t].routes) # None THEN The(seen[t].routes)
  ELSE StaticTable[id]

DecidedByRows(t) ==
  LET q == reqs[t]
      k == IF q.ask.key = None THEN None ELSE The(seen[t].keys)
      cfgs == [x \in Refs |-> The(seen[t].configs[x])]
  IN \E at \in seen[t].since..now :
       <<q.status, q.via>> \in Answers(hasStore, q.ask, DocumentedRoute(t), k, cfgs, at)

\* The request's route is in the Caddyfile only, and there is a store: its
\* loader's error keeps resolveRoute from looking at the static route.
HiddenByStore(t) ==
  /\ reqs[t].ask.route # None /\ hasStore
  /\ None \in seen[t].routes /\ StaticTable[reqs[t].ask.route] # None

\* A request that met no change and no fault gets the answer its rows and the
\* Caddyfile alone decide, at a moment between its beginning and its end:
\* neither g.routes nor the cache nor another request shows through, and the
\* selector's groups and the order of the checks amount to the declarative
\* rules above.  A static route that the store hides is excepted, see
\* StaticRouteServes.
OutcomeIsDecided ==
  \A t \in Requests : Done(t) /\ Undisturbed(t) /\ ~HiddenByStore(t) => DecidedByRows(t)

\* Every target of a weighted group gets exactly its weight's share of the
\* numbers rand.Intn may return (chooseWeighted), a weight that is not
\* positive counting as one.
WeightsAreShares ==
  \A id \in RouteIds, g \in {"weighted", "conditional", "other"} : routes[id] # None =>
    LET ts == routes[id].targets
        slice == Group(ts, DOMAIN ts, g)
    IN \A i \in slice :
         Cardinality({n \in 0..(TotalWeight(ts, slice) - 1) : ChooseWeighted(ts, slice, n) = i})
           = IF ts[i].weight <= 0 THEN 1 ELSE ts[i].weight

-----------------------------------------------------------------------------
(* A statement of the documentation that the code does not keep *)

\* "The gateway loads the route definition from the config store when
\* available, otherwise from static app config" (README.md:151): a request
\* for a route that only the Caddyfile defines gets the answer of that route,
\* like any other (resolveRoute, agentgateway.go:192-196).
StaticRouteServes ==
  \A t \in Requests : Done(t) /\ Undisturbed(t) /\ HiddenByStore(t) => DecidedByRows(t)
=============================================================================
