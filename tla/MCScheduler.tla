---------------------------- MODULE MCScheduler -----------------------------
(***************************************************************************)
(* Instances of Scheduler for TLC.  The inputs are credentials the manager *)
(* can hand over: fresh ones, ones a result was applied to, refreshed ones *)
(* (their next token), ones registered with another priority or provider.  *)
(***************************************************************************)
EXTENDS Scheduler

M == <<"m">>
MX == <<"m", "x">>

Res(o, m, ra) == [outcome |-> o, model |-> m, retryAfter |-> ra]
Refreshed(c) == [c EXCEPT !.token = @ + 1]

C1 == NewCredential(1, "p", 0, 0)
C2 == NewCredential(2, "p", 0, 0)
C3 == NewCredential(3, "p", 0, 0)

OneModel == {M}
TwoModels == {<<>>, M}
VariantModels == {M, MX}

\* A quota error with a provider hint until 3, then a short-lived failure:
\* the retry time passes before the quota recovers.
Retried == ApplyResult(ApplyResult(C1, Res("quota", M, 2), 1), Res("other", M, 1), 1)

AllInputs ==
  { C1, Refreshed(C1), [C1 EXCEPT !.provider = "q"], [C1 EXCEPT !.priority = 1],
    Retried, ApplyResult(C1, Res("auth", M, 0), 1), C2, C3 }

VariantInputs == { C1, ApplyResult(C1, Res("quota", M, 2), 1),
                   ApplyResult(C1, Res("quota", MX, 2), 1), C2 }

RefreshInputs == { C1, Refreshed(C1), C2 }

Untried == {{}}
=============================================================================
