---------------------------- MODULE RoutePolicy -----------------------------
(***************************************************************************)
(* The rules of gateway/route: whether a local API key and a request are   *)
(* admitted by a route (localapikey.go, resolver.go), and which target     *)
(* the default selector chooses (selector.go).                             *)
(*                                                                         *)
(* Names are model values; None is the empty string, the nil pointer and   *)
(* the missing row.  An unset *bool is None, a list that is only searched  *)
(* is a set.  Fields that no condition reads are left out: the retry,      *)
(* quota, rate-limit and timeout policies, model maps, labels, Disabled of *)
(* a route.                                                                *)
(***************************************************************************)
EXTENDS Integers, Sequences, FiniteSets

CONSTANTS
  RouteIds,  \* route IDs
  KeyIds,    \* local API keys
  Refs,      \* provider references
  Models,    \* model names
  None       \* empty, nil, missing

ASSUME RoutePolicyAssumption ==
  /\ \A S \in {RouteIds, KeyIds, Refs, Models} : None \notin S
  /\ None \notin BOOLEAN

Flag == BOOLEAN \cup {None}
Modes == {"weighted", "failover", "conditional", "", "unknown"}
Strategies == {"auto", "weighted", "failover", "conditional", "", "unknown"}

Target == [ref: Refs \cup {None}, mode: Modes, weight: Int, priority: Int,
           models: SUBSET Models, requireStreaming: Flag, disabled: BOOLEAN]

Route == [id: RouteIds, targets: Seq(Target), requireKey: BOOLEAN,
          allowedModels: SUBSET Models, allowStreaming: Flag,
          strategy: Strategies, fallback: BOOLEAN]

\* allowedModels and allowStreaming are those of PolicyOverride; a nil
\* override restricts nothing, like an empty one.  expires = 0: never.
Key == [id: KeyIds, disabled: BOOLEAN, expires: Nat, routes: SUBSET RouteIds,
        allowedModels: SUBSET Models, allowStreaming: Flag]

\* What a request asks for.
Ask == [route: RouteIds \cup {None}, key: KeyIds \cup {None},
        model: Models \cup {None}, stream: BOOLEAN]

\* RoutePolicy.Defaults, as far as a condition reads its effect.
Defaults(r) == [r EXCEPT !.strategy = IF @ = "" THEN "auto" ELSE @]

-----------------------------------------------------------------------------
(* Admission: a status other than 200 refuses the request *)

ValidateLocalAPIKeyForRoute(r, k, now) ==
  IF \/ k.disabled
     \/ k.expires # 0 /\ k.expires < now
     \/ k.routes # {} /\ r.id \notin k.routes
  THEN 403 ELSE 200

Allows(policy, ask) ==
  /\ ask.model # None /\ policy.allowedModels # {} => ask.model \in policy.allowedModels
  /\ ask.stream => policy.allowStreaming # FALSE

\* Mutant: the restrictions of the key replace those of the route.
ValidateRequestPolicyOverridden(r, k, ask) ==
  IF Allows(IF k = None THEN r ELSE k, ask) THEN 200 ELSE 403

\* The route's restrictions and the key's both apply.
ValidateRequestPolicy(r, k, ask) ==
  IF Allows(r, ask) /\ (k # None => Allows(k, ask)) THEN 200 ELSE 403

-----------------------------------------------------------------------------
(* DefaultRouteSelector *)

MatchesConditions(x, ask) ==
  /\ x.models # {} /\ ask.model # None => ask.model \in x.models
  /\ x.requireStreaming # None => x.requireStreaming = ask.stream

\* A slice of targets is the set of their positions in the route, which the
\* code's loops go through in order.
Candidates(r, ask) ==
  {i \in DOMAIN r.targets :
     LET x == r.targets[i] IN ~x.disabled /\ x.ref # None /\ MatchesConditions(x, ask)}

GroupOf(x) == CASE x.mode \in {"weighted", ""} -> "weighted"
                [] x.mode \in {"failover", "conditional"} -> x.mode
                [] OTHER -> "other"

Group(ts, slice, g) == {i \in slice : GroupOf(ts[i]) = g}

\* The order in which the groups are tried.
SelectionOrder(strategy, fallback) ==
  CASE strategy = "weighted" ->
         IF fallback THEN <<"weighted", "conditional", "failover", "other">> ELSE <<"weighted">>
    [] strategy = "conditional" ->
         IF fallback THEN <<"conditional", "weighted", "failover", "other">> ELSE <<"conditional">>
    [] strategy = "failover" ->
         IF fallback THEN <<"failover", "weighted", "conditional", "other">> ELSE <<"failover">>
    [] OTHER ->
         IF fallback THEN <<"conditional", "weighted", "failover", "other">>
         ELSE <<"conditional", "weighted">>

Weight(x) == IF x.weight <= 0 THEN 1 ELSE x.weight

\* Cuts(ts, slice)[i]: the sum of the slice's weights up to position i.
Cuts(ts, slice) ==
  LET cut[i \in 0..Len(ts)] ==
        IF i = 0 THEN 0 ELSE cut[i-1] + (IF i \in slice THEN Weight(ts[i]) ELSE 0)
  IN cut

TotalWeight(ts, slice) == Cuts(ts, slice)[Len(ts)]

\* Mutant: pick <= weight.
ChooseWeightedOffByOne(ts, slice, pick) ==
  CHOOSE i \in slice : /\ pick <= Cuts(ts, slice)[i]
                       /\ \A j \in slice : j < i => pick > Cuts(ts, slice)[j]

\* Subtracting weights from the pick until it falls below one.
ChooseWeighted(ts, slice, pick) ==
  CHOOSE i \in slice : /\ pick < Cuts(ts, slice)[i]
                       /\ \A j \in slice : j < i => pick >= Cuts(ts, slice)[j]

\* The first of the targets with the lowest priority number.
FirstByPriority(ts, slice) ==
  CHOOSE i \in slice :
    /\ \A j \in slice : ts[i].priority <= ts[j].priority
    /\ \A j \in slice : j < i => ts[j].priority > ts[i].priority

\* The targets SelectTarget may return, depending on rand.Intn; none is 502.
SelectTarget(r, ask) ==
  LET ts == r.targets
      order == SelectionOrder(Defaults(r).strategy, r.fallback)
      group(n) == Group(ts, Candidates(r, ask), order[n])
      tried == {n \in 1..Len(order) : group(n) # {}}
  IN IF tried = {} THEN {}
     ELSE LET n == CHOOSE i \in tried : \A j \in tried : i <= j
          IN IF order[n] = "failover" THEN {ts[FirstByPriority(ts, group(n))]}
             ELSE {ts[ChooseWeighted(ts, group(n), pick)] :
                     pick \in 0..(TotalWeight(ts, group(n)) - 1)}
=============================================================================
