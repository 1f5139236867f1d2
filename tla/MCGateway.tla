----------------------------- MODULE MCGateway ------------------------------
(***************************************************************************)
(* Instances of Gateway for TLC: a route r1 with one key, a route r2 that  *)
(* nobody defines, a provider a that the Caddyfile and the store both may  *)
(* have, and a provider b that exists nowhere.                             *)
(***************************************************************************)
EXTENDS Gateway

CONSTANTS r1, r2, k1, a, b, m1, m2, q1, q2

Plain(ref) == [ref |-> ref, mode |-> "weighted", weight |-> 1, priority |-> 0, models |-> {},
               requireStreaming |-> None, disabled |-> FALSE]

\* Nothing is eligible for a request for m1 that is not a stream.
Open == [id |-> r1, requireKey |-> FALSE, allowedModels |-> {}, allowStreaming |-> None,
         strategy |-> "", fallback |-> FALSE,
         targets |-> <<[Plain(a) EXCEPT !.weight = 2, !.mode = "", !.models = {m2}],
                       [Plain(b) EXCEPT !.weight = 0, !.models = {m2}],
                       [Plain(b) EXCEPT !.mode = "conditional", !.requireStreaming = TRUE]>>]

\* A key is needed; failover targets for streams, a fallback for the rest.
Guarded == [id |-> r1, requireKey |-> TRUE, allowedModels |-> {m1}, allowStreaming |-> TRUE,
            strategy |-> "failover", fallback |-> TRUE,
            targets |-> <<[Plain(b) EXCEPT !.mode = "failover", !.priority = 1,
                                           !.requireStreaming = TRUE],
                          [Plain(a) EXCEPT !.mode = "failover", !.requireStreaming = TRUE],
                          [Plain(b) EXCEPT !.mode = "failover", !.priority = -1,
                                           !.disabled = TRUE],
                          [Plain(a) EXCEPT !.mode = "unknown", !.weight = 2],
                          [Plain(b) EXCEPT !.mode = "unknown"]>>]

Routes == {Open, Guarded}
Declared == [id \in {r1, r2} |-> IF id = r1 THEN Open ELSE None]

AnyKey == [id |-> k1, disabled |-> FALSE, expires |-> 0, routes |-> {},
           allowedModels |-> {}, allowStreaming |-> None]
Expiring == [AnyKey EXCEPT !.expires = 1, !.routes = {r1}]
Limited == [AnyKey EXCEPT !.allowedModels = {m2}, !.allowStreaming = FALSE]
Keys == {Expiring, Limited}

\* Requests of every kind with a key, and an anonymous one that shares g.routes and the cache.
Anonymous == [route |-> r1, key |-> None, model |-> m2, stream |-> FALSE]
Questions ==
  [t \in {q1, q2} |->
     IF t = q2 THEN {Anonymous}
     ELSE {Anonymous,
           [Anonymous EXCEPT !.key = k1],
           [Anonymous EXCEPT !.key = k1, !.model = m1, !.stream = TRUE],
           [Anonymous EXCEPT !.key = k1, !.model = m1],
           [Anonymous EXCEPT !.route = r2],
           [Anonymous EXCEPT !.route = None]}]

JustAnonymous == [t \in {q2} |-> {Anonymous}]

\* "bad" names a provider that is not registered.
Sent == [x \in {a, b} |-> IF x = a THEN {"c1", "c2", "bad"} ELSE {}]

Left(r, k, c) == [routes |-> [id \in {r1, r2} |-> IF id = r1 THEN r ELSE None],
                  keys |-> [id \in {k1} |-> k],
                  configs |-> [x \in {a, b} |-> IF x = a THEN c ELSE None]]
Stores == {Left(None, None, None), Left(Defaults(Open), Limited, "c1"),
           Left(Defaults(Open), Expiring, "bad"), Left(Guarded, Expiring, "c1"),
           Left(Guarded, Limited, "bad"), Left(Guarded, Expiring, None)}
=============================================================================
