----------------------------- MODULE MCExchange -----------------------------
(***************************************************************************)
(* Instances of Exchange for TLC.                                          *)
(***************************************************************************)
EXTENDS Exchange, FiniteSets, TLC

CONSTANTS q1, q2

M == <<"m">>
OneModel == {M}

AskFor(a, f, s) == [api |-> a, form |-> f, stream |-> s, model |-> M]

Ill == {AskFor("openai", "method", FALSE), AskFor("openai", "body", FALSE),
        AskFor("anthropic", "count", FALSE)}

\* One client talks openai, the other streams with anthropic.
BothApis ==
  [q \in Requests |->
     IF q = q1 THEN {AskFor("openai", "ok", s) : s \in BOOLEAN} \cup Ill
     ELSE {AskFor("anthropic", "ok", TRUE)}]

Inst(k, key, s, r) ==
  [provider |-> "p", kind |-> k, key |-> key, strategy |-> s, maxRetries |-> r]

\* An instance without a key uses credentials under the default strategy.
Keyless == Inst("gemini", FALSE, "", 1)

\* One client is served by an instance of any kind and strategy but the last,
\* the other by one that uses credentials only.
AllStrategies ==
  {Inst("openai", TRUE, "api_key_only", 0), Inst("anthropic", TRUE, "", 1),
   Inst("ollama", FALSE, "credential_first", 1), Keyless}

OneOfAKind == [q \in Requests |-> IF q = q1 THEN AllStrategies
                                  ELSE {Inst("openrouter", TRUE, "credential_only", 1)}]

Logins == [id \in Ids |-> NewCredential(id, "p", 0, 0)]

\* How much has come from outside the calls so far: time, clients that left, a
\* deletion, and refreshes that are under way, failed or brought a token.
Disturbances ==
  (now - 1) + Cardinality(gone) +
  Cardinality({id \in Ids : creds[id] = None}) +
  Cardinality({id \in Ids : refresh[id] # None}) +
  Cardinality({id \in Ids : "refresh" \in blame[id]}) +
  Cardinality({id \in Ids : issued[id] > 1})

\* More of it while one client streams and the other may retry, with the same
\* credential.  Only steps without fairness are cut off.
Most == IF calls[q1].inst = Keyless /\ ~calls[q1].ask.stream THEN 2 ELSE 1

FewDisturbances == calls' = calls => Disturbances' <= Most
=============================================================================
