--------------------------- MODULE CredentialPool ---------------------------
(***************************************************************************)
(* What authScheduler promises the manager, without shards, buckets or     *)
(* cursors: a pool of enabled credentials, and a Pick that answers from    *)
(* the credentials in the pool now.  Scheduler implements it.              *)
(*                                                                         *)
(* The promise has a margin.  A credential whose retry time has passed but *)
(* whose quota recovery has not may be served or held back (a shard built  *)
(* while it was blocked keeps it until the later of the two times, a shard *)
(* built afterwards serves it at once), so a pick may serve any credential *)
(* of Servable and must not pass over one of Free.                         *)
(***************************************************************************)
EXTENDS Credential

CONSTANTS Inputs, TriedSets, MaxTime

VARIABLES
  now,   \* the clock
  pool,  \* pool[id]: the enabled credential last handed to the scheduler
  answer \* what the last Pick was asked and answered, by credential ID

vars == <<now, pool, answer>>

NoPick == [provider |-> None, model |-> <<>>, tried |-> {}, outcome |-> "none", id |-> None]

\* The shard a model's requests share: pick and ensureModelLocked both strip.
ShardKey(m) == CanonicalModelKey(CanonicalModelKey(m))
Keys == {ShardKey(m) : m \in Models}

Init ==
  /\ now = 1
  /\ pool = [id \in Ids |-> None]
  /\ answer = NoPick

Scheduled(c) == IF IsDisabled(c) THEN None ELSE c

Upsert(c) ==
  /\ pool' = [pool EXCEPT ![c.id] = Scheduled(c)]
  /\ answer' = NoPick
  /\ UNCHANGED now

Remove(id) ==
  /\ pool' = [pool EXCEPT ![id] = None]
  /\ answer' = NoPick
  /\ UNCHANGED now

\* A rebuild of the index from the same credentials changes nothing here.
Rebuild ==
  /\ answer' = NoPick
  /\ UNCHANGED <<now, pool>>

Candidates(p, tried) ==
  {id \in Ids \ tried : pool[id] # None /\ pool[id].provider = p}

\* Not blocked at this moment.
Servable(p, k, tried) ==
  {id \in Candidates(p, tried) : BlockedForModel(pool[id], k, now).reason = "none"}

\* Not blocked, and no quota recovery time pending either.
Free(p, k, tried) ==
  {id \in Servable(p, k, tried) :
     \A s \in {pool[id]} \cup StateFor(pool[id], k) : s.quota.nextRecoverAt <= now}

Pick(p, m, tried, outcome, id) ==
  LET k == ShardKey(m) IN
  /\ answer' = [provider |-> p, model |-> m, tried |-> tried,
                outcome |-> outcome, id |-> id]
  /\ UNCHANGED <<now, pool>>
  /\ CASE outcome = "picked" ->
            /\ id \in Servable(p, k, tried)
            /\ \A j \in Free(p, k, tried) : pool[j].priority <= pool[id].priority
       [] outcome = "not_found" -> Candidates(p, tried) = {} /\ id = None
       [] OTHER -> /\ Candidates(p, tried) # {} /\ Free(p, k, tried) = {}
                   /\ id = None

Tick ==
  /\ now < MaxTime
  /\ now' = now + 1
  /\ answer' = NoPick
  /\ UNCHANGED pool

Next ==
  \/ \E c \in Inputs : Upsert(c)
  \/ \E id \in Ids : Remove(id)
  \/ Rebuild
  \/ \E p \in Providers, m \in Models, tried \in TriedSets, id \in Ids \cup {None},
        outcome \in {"picked", "not_found", "cooldown", "unavailable"} :
        Pick(p, m, tried, outcome, id)
  \/ Tick

Spec == Init /\ [][Next]_vars
=============================================================================
