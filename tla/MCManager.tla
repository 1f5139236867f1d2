------------------------------ MODULE MCManager ------------------------------
(***************************************************************************)
(* Instances of Manager for TLC.                                           *)
(***************************************************************************)
EXTENDS Manager, TLC

M == <<"m">>
OneModel == {M}

Res(o) == [outcome |-> o, model |-> M, retryAfter |-> 0]

\* Credentials that expire early: a refresh is due from the first tick on.
Expiring(ids) == [id \in ids |-> NewCredential(id, "p", 0, 2)]
OneLogin == Expiring({1})

\* An expiring credential that competes with one that is always due, having
\* no refresh token.
RivalLogins == [Expiring({1, 2}) EXCEPT ![2].token = 0]

NoResults == {}
AuthOnly == {Res("auth")}

\* Handlers leave a credential alone while something else works on it.  Only
\* steps without fairness are cut off.
Apart ==
  \A t \in Clients : ops[t].pc = "idle" /\ ops'[t].pc # "idle" => ~Busy(ops'[t].id)

\* The refresh goroutines are interchangeable.
Interchangeable == Permutations(Workers)
=============================================================================
