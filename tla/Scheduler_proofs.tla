-------------------------- MODULE Scheduler_proofs --------------------------
(***************************************************************************)
(* Proofs about Scheduler: its invariants, and that it implements          *)
(* CredentialPool, for every value of the constants.                       *)
(***************************************************************************)
EXTENDS Scheduler, Credential_proofs, FiniteSetTheorems, WellFoundedInduction

-----------------------------------------------------------------------------
(* Choices in finite sets *)

\* A function on a finite set takes a least value (the loops of selector.go
\* and scheduler.go that keep the best candidate seen so far).
LEMMA FiniteMin ==
  ASSUME NEW S, IsFiniteSet(S), S # {}, NEW f \in [S -> Int]
  PROVE  \E x \in S : \A y \in S : f[x] <= f[y]
<1> DEFINE below(x) == {y \in S : f[y] < f[x]}
           T == {U \in SUBSET S : \E x \in S : U = below(x)}
<1>1. IsWellFoundedOn(StrictSubsetOrdering(S), FiniteSubsetsOf(S))
  BY FS_StrictSubsetOrderingWellFounded
<1>2. FiniteSubsetsOf(S) = SUBSET S
  BY FS_FiniteSubsetsOfFinite
<1>3. T # {} /\ T \subseteq SUBSET S
  <2>1. PICK x \in S : TRUE
    OBVIOUS
  <2>2. below(x) \in T
    BY <2>1
  <2> QED
    BY <2>2
<1>4. PICK U \in T : \A V \in T : <<V, U>> \notin StrictSubsetOrdering(S)
  <2> HIDE DEF T
  <2> QED
    BY <1>1, <1>2, <1>3, WFMin
<1>5. PICK x \in S : U = below(x)
  OBVIOUS
<1>6. ASSUME NEW y \in S, f[y] < f[x]
      PROVE  FALSE
  <2>1. below(y) \in T
    OBVIOUS
  <2>2. below(y) \subseteq U /\ y \in U /\ y \notin below(y)
    BY <1>5, <1>6
  <2>3. <<below(y), U>> \in StrictSubsetOrdering(S)
    BY <2>2, <1>5 DEF StrictSubsetOrdering
  <2> QED
    BY <2>1, <2>3, <1>4
<1> QED
  BY <1>6

-----------------------------------------------------------------------------
(* Entries *)

\* What scheduledAuth entries say (scheduler.go:283-288): the entry taken at
\* t is ready only if nothing blocks its credential, then or later; a held
\* one names a time after t that its credential asks for; and if the
\* credential is free again before that time, a quota recovery is pending.
LEMMA EntryFacts ==
  ASSUME NEW c \in Credential, NEW k, NEW t \in Nat
  PROVE  /\ EntryFor(c, k, t) \in Entry
         /\ EntryFor(c, k, t).cred = c
         /\ EntryFor(c, k, t).state = "ready" =>
              \A u \in Nat : u >= t => BlockedForModel(c, k, u).reason = "none"
         /\ EntryFor(c, k, t).state \in {"cooldown", "blocked"} =>
              /\ EntryFor(c, k, t).nextRetryAt > t
              /\ \E s \in {c} \cup StateFor(c, k) :
                   /\ s.unavailable
                   /\ EntryFor(c, k, t).nextRetryAt \in
                        {s.nextRetryAfter, s.quota.nextRecoverAt} \ {0}
              /\ \A u \in Nat :
                   BlockedForModel(c, k, u).reason = "none" /\ u < EntryFor(c, k, t).nextRetryAt
                   => \E s \in {c} \cup StateFor(c, k) : s.quota.nextRecoverAt > u
         /\ EntryFor(c, k, t).state = "disabled" =>
              \A u \in Nat : BlockedForModel(c, k, u).reason # "none"
<1> DEFINE b == BlockedForModel(c, k, t)
<1>1. EntryFor(c, k, t) =
        [cred |-> c,
         state |-> CASE b.reason = "none" -> "ready" [] b.reason = "cooldown" -> "cooldown"
                     [] b.reason = "disabled" -> "disabled" [] OTHER -> "blocked",
         nextRetryAt |-> b.next]
  BY DEF EntryFor
<1>2. CASE \A u \in Nat : BlockedForModel(c, k, u) = [reason |-> "disabled", next |-> 0]
  <2>1. EntryFor(c, k, t) = [cred |-> c, state |-> "disabled", nextRetryAt |-> 0]
    BY <1>1, <1>2
  <2> QED
    BY <1>2, <2>1 DEF Entry, EntryStates
<1>3. CASE \A u \in Nat : BlockedForModel(c, k, u) = NotBlocked
  <2>1. EntryFor(c, k, t) = [cred |-> c, state |-> "ready", nextRetryAt |-> 0]
    BY <1>1, <1>3 DEF NotBlocked
  <2> QED
    BY <1>3, <2>1 DEF Entry, EntryStates, NotBlocked
<1>4. CASE \E s \in {c} \cup StateFor(c, k) :
              /\ s.unavailable \in BOOLEAN /\ s.nextRetryAfter \in Nat /\ s.quota \in Quota
              /\ \A u \in Nat : BlockedForModel(c, k, u) = Hold(s, u)
  <2>0. PICK s \in {c} \cup StateFor(c, k) :
              /\ s.unavailable \in BOOLEAN /\ s.nextRetryAfter \in Nat /\ s.quota \in Quota
              /\ \A u \in Nat : BlockedForModel(c, k, u) = Hold(s, u)
    BY <1>4
  <2>1. b = Hold(s, t)
    BY <2>0
  <2>2. CASE b = NotBlocked /\ ~(s.unavailable /\ s.nextRetryAfter > t)
    <3>1. EntryFor(c, k, t) = [cred |-> c, state |-> "ready", nextRetryAt |-> 0]
      BY <1>1, <2>2 DEF NotBlocked
    <3>2. ASSUME NEW u \in Nat, u >= t
          PROVE  BlockedForModel(c, k, u).reason = "none"
      <4>1. ~(s.unavailable /\ s.nextRetryAfter > u)
        BY <2>0, <2>2, <3>2
      <4> QED
        BY <2>0, <4>1 DEF Hold, NotBlocked
    <3> QED
      BY <3>1, <3>2 DEF Entry, EntryStates
  <2>3. CASE /\ b.reason \in {"cooldown", "other"}
             /\ s.unavailable /\ s.nextRetryAfter > t
             /\ b.next \in {s.nextRetryAfter, s.quota.nextRecoverAt} \ {0}
             /\ b.next \in Nat
             /\ b.next >= s.nextRetryAfter
             /\ b.next >= s.quota.nextRecoverAt
    <3> HIDE DEF b
    <3>1. /\ EntryFor(c, k, t) \in Entry
          /\ EntryFor(c, k, t).cred = c
          /\ EntryFor(c, k, t).state \in {"cooldown", "blocked"}
          /\ EntryFor(c, k, t).nextRetryAt = b.next
      BY <1>1, <2>3 DEF Entry, EntryStates
    <3>2. b.next > t
      BY <2>0, <2>3
    <3>3. ASSUME NEW u \in Nat, BlockedForModel(c, k, u).reason = "none", u < b.next
          PROVE  s.quota.nextRecoverAt > u
      <4>a. BlockedForModel(c, k, u) = Hold(s, u)
        BY <2>0
      <4>b. Hold(s, u).reason = "none"
        BY <3>3, <4>a
      <4>c. ~(s.unavailable /\ s.nextRetryAfter > u)
        BY <2>0, <4>b, HoldFacts
      <4>1. ~(s.nextRetryAfter > u)
        BY <2>3, <4>c
      <4> QED
        BY <2>0, <2>3, <3>3, <4>1
    <3> QED
      BY <2>0, <2>3, <3>1, <3>2, <3>3
  <2> HIDE DEF b
  <2> QED
    BY <2>0, <2>1, <2>2, <2>3, HoldFacts
<1> QED
  BY <1>2, <1>3, <1>4, BlockedCases

-----------------------------------------------------------------------------
(* Shards *)

\* The credentials a provider holds, by ID.
MetaMap == {f \in [Ids -> Inputs \cup {None}] : \A id \in Ids : f[id] # None => f[id].id = id}

\* The entries are those of the provider's credentials, each taken at some
\* time up to t.
EntriesOK(es, ms, k, t) ==
  /\ es \in [Ids -> Entry \cup {None}]
  /\ \A id \in Ids : IF ms[id] = None THEN es[id] = None
                     ELSE \E u \in 1..t : es[id] = EntryFor(ms[id], k, u)

\* The indexes cover the entries; a bucket holds a credential under its own
\* ID and priority, though it may hold an older version of it.
IndexedOK(sh) ==
  /\ \A n \in Priorities, id \in Ids :
       /\ sh.ready[n][id] # None <=>
            /\ sh.entries[id] # None
            /\ sh.entries[id].state = "ready" /\ sh.entries[id].cred.priority = n
       /\ sh.ready[n][id] # None => sh.ready[n][id].id = id /\ sh.ready[n][id].priority = n
  /\ sh.blocked = {id \in Listed(sh) : sh.entries[id].state \in {"cooldown", "blocked"}}

ShardOK(sh, ms, k, t) ==
  sh \in Shard /\ EntriesOK(sh.entries, ms, k, t) /\ IndexedOK(sh)

\* Where a bucket's round stands: those before the cursor have been served.
RotationOK(sh) ==
  \A n \in Priorities : Bucket(sh, n) # {} =>
    /\ sh.cursor[n] \in 0..Cardinality(Bucket(sh, n))
    /\ sh.round[n] = {id \in Bucket(sh, n) :
                        Index(sh, n, id) < sh.cursor[n] % Cardinality(Bucket(sh, n))}

\* Nobody is held past its retry time.
Fresh(sh, t) ==
  \A id \in Ids : sh.entries[id] # None /\ sh.entries[id].state \in {"cooldown", "blocked"}
    => sh.entries[id].nextRetryAt > t

\* An entry is its credential's.
LEMMA EntriesFacts ==
  ASSUME NEW es, NEW ms \in MetaMap, NEW k, NEW t \in Nat, EntriesOK(es, ms, k, t),
         NEW id \in Ids
  PROVE  /\ es[id] # None <=> ms[id] # None
         /\ es[id] # None => /\ es[id] \in Entry /\ ms[id] \in Inputs /\ ms[id] \in Credential
                             /\ es[id].cred = ms[id] /\ ms[id].id = id
<1>1. CASE ms[id] = None
  BY <1>1 DEF EntriesOK
<1>2. CASE ms[id] # None
  <2>1. ms[id] \in Inputs /\ ms[id] \in Credential /\ ms[id].id = id
    BY <1>2, SchedulerAssumption DEF MetaMap
  <2>2. PICK u \in 1..t : es[id] = EntryFor(ms[id], k, u)
    BY <1>2 DEF EntriesOK
  <2>3. es[id] \in Entry /\ es[id].cred = ms[id]
    BY <2>1, <2>2, EntryFacts
  <2> QED
    BY <1>2, <2>1, <2>3, SchedulerAssumption
<1> QED
  BY <1>1, <1>2

\* rebuildIndexesLocked (scheduler.go:330-351) indexes whatever the entries
\* are, and every bucket starts a new round.
LEMMA RebuiltShard ==
  ASSUME NEW es, NEW ms \in MetaMap, NEW k, NEW t \in Nat, EntriesOK(es, ms, k, t),
         NEW a, NEW b, NEW c, NEW d,
         NEW sh, sh = [entries |-> es, ready |-> a, cursor |-> b, round |-> c, blocked |-> d]
  PROVE  /\ ShardOK(RebuildIndexes(sh), ms, k, t)
         /\ RebuildIndexes(sh).entries = es
         /\ RotationOK(RebuildIndexes(sh))
<1> DEFINE ready == {id \in Listed(sh) : sh.entries[id].state = "ready"}
           rd == [n \in Priorities |-> [id \in Ids |->
                   IF id \in ready /\ sh.entries[id].cred.priority = n
                   THEN sh.entries[id].cred ELSE None]]
           cu == [n \in Priorities |-> 0]
           ro == [n \in Priorities |-> {}]
           bl == {id \in Listed(sh) : sh.entries[id].state \in {"cooldown", "blocked"}}
           new == RebuildIndexes(sh)
<1>1. sh.entries = es
  OBVIOUS
<1>2. new = [entries |-> es, ready |-> rd, cursor |-> cu, round |-> ro, blocked |-> bl]
  <2>1. new = [sh EXCEPT !.ready = rd, !.cursor = cu, !.round = ro, !.blocked = bl]
    BY DEF RebuildIndexes
  <2> HIDE DEF rd, cu, ro, bl, new
  <2> QED
    BY <2>1
<1>3. \A id \in Ids : es[id] # None =>
         es[id] \in Entry /\ es[id].cred \in Credential /\ es[id].cred.id = id
  BY EntriesFacts
<1>4. new \in Shard
  <2>1. rd \in [Priorities -> [Ids -> Credential \cup {None}]]
    BY <1>1, <1>3 DEF Listed
  <2>2. cu \in [Priorities -> Nat] /\ ro \in [Priorities -> SUBSET Ids] /\ bl \in SUBSET Ids
    BY DEF Listed
  <2>3. es \in [Ids -> Entry \cup {None}]
    BY DEF EntriesOK
  <2> HIDE DEF rd, cu, ro, bl, new
  <2> QED
    BY <1>2, <2>1, <2>2, <2>3 DEF Shard
<1>5. new.entries = es /\ new.ready = rd /\ new.blocked = bl /\ new.cursor = cu /\ new.round = ro
  <2> HIDE DEF rd, cu, ro, bl, new
  <2> QED
    BY <1>2
<1>6. IndexedOK(new)
  <2>1. ASSUME NEW n \in Priorities, NEW id \in Ids
        PROVE  /\ rd[n][id] # None <=> es[id] # None /\ es[id].state = "ready"
                                        /\ es[id].cred.priority = n
               /\ rd[n][id] # None => rd[n][id].id = id /\ rd[n][id].priority = n
    <3>1. id \in ready <=> es[id] # None /\ es[id].state = "ready"
      BY <1>1 DEF Listed
    <3>2. rd[n][id] = IF id \in ready /\ es[id].cred.priority = n THEN es[id].cred ELSE None
      BY <1>1
    <3>3. es[id] # None => es[id].cred # None
      BY <1>3, ConstantsAssumption
    <3> HIDE DEF rd, ready
    <3> QED
      BY <1>3, <3>1, <3>2, <3>3
  <2>2. bl = {id \in Listed(new) : new.entries[id].state \in {"cooldown", "blocked"}}
    <3> HIDE DEF new
    <3> QED
      BY <1>1, <1>5 DEF Listed
  <2> HIDE DEF rd, bl, new
  <2> QED
    BY <1>5, <2>1, <2>2 DEF IndexedOK
<1>7. RotationOK(new)
  <2>1. ASSUME NEW n \in Priorities, Bucket(new, n) # {}
        PROVE  /\ new.cursor[n] \in 0..Cardinality(Bucket(new, n))
               /\ new.round[n] = {id \in Bucket(new, n) :
                        Index(new, n, id) < new.cursor[n] % Cardinality(Bucket(new, n))}
    <3>1. new.cursor[n] = 0 /\ new.round[n] = {}
      BY <1>5
    <3> HIDE DEF new
    <3>2. Cardinality(Bucket(new, n)) \in Nat \ {0}
      <4>1. IsFiniteSet(Bucket(new, n))
        BY FS_Subset, SchedulerAssumption DEF Bucket
      <4> QED
        BY <2>1, <4>1, FS_CardinalityType, FS_EmptySet
    <3>3. \A id \in Bucket(new, n) : Index(new, n, id) \in Nat
      <4>1. ASSUME NEW id \in Bucket(new, n)
            PROVE  IsFiniteSet({j \in Bucket(new, n) : j < id})
        BY FS_Subset, SchedulerAssumption DEF Bucket
      <4> QED
        BY <4>1, FS_CardinalityType DEF Index
    <3> QED
      BY <3>1, <3>2, <3>3
  <2> HIDE DEF new
  <2> QED
    BY <2>1 DEF RotationOK
<1>8. EntriesOK(new.entries, ms, k, t)
  BY <1>5
<1> HIDE DEF rd, cu, ro, bl, ready
<1> QED
  BY <1>4, <1>5, <1>6, <1>7, <1>8 DEF ShardOK

\* A shard that differs in its entries only is a record of the same parts.
LEMMA ShardParts ==
  ASSUME NEW sh \in Shard, NEW es
  PROVE  [sh EXCEPT !.entries = es] =
           [entries |-> es, ready |-> sh.ready, cursor |-> sh.cursor,
            round |-> sh.round, blocked |-> sh.blocked]
BY DEF Shard

\* Two shards with the same buckets, cursors and rounds are equally far in
\* their rounds.
LEMMA SameRotation ==
  ASSUME NEW sh, NEW sh2, sh2.ready = sh.ready, sh2.cursor = sh.cursor, sh2.round = sh.round,
         RotationOK(sh)
  PROVE  RotationOK(sh2)
<1>1. \A n \in Priorities : Bucket(sh2, n) = Bucket(sh, n)
  BY DEF Bucket
<1>2. \A n \in Priorities, id \in Ids : Index(sh2, n, id) = Index(sh, n, id)
  BY <1>1 DEF Index
<1>3. \A n \in Priorities : Bucket(sh, n) \subseteq Ids
  BY DEF Bucket
<1> QED
  BY <1>1, <1>2, <1>3 DEF RotationOK

\* upsertEntryLocked (scheduler.go:274-303) keeps the indexes right, also
\* when it leaves them alone.
LEMMA UpsertShard ==
  ASSUME NEW ms \in MetaMap, NEW k, NEW t \in Nat \ {0}, NEW sh, ShardOK(sh, ms, k, t),
         NEW c \in Inputs
  PROVE  /\ ShardOK(UpsertEntry(sh, c, k, t), [ms EXCEPT ![c.id] = c], k, t)
         /\ RotationOK(sh) => RotationOK(UpsertEntry(sh, c, k, t))
         /\ [ms EXCEPT ![c.id] = c] \in MetaMap
<1> DEFINE old == sh.entries[c.id]
           new == EntryFor(c, k, t)
           es == [sh.entries EXCEPT ![c.id] = new]
           sh2 == [sh EXCEPT !.entries[c.id] = new]
           ms2 == [ms EXCEPT ![c.id] = c]
<1>1. c \in Credential /\ c.id \in Ids
  BY SchedulerAssumption DEF Credential
<1>2. ms2 \in MetaMap /\ ms2[c.id] = c /\ c # None
  BY <1>1, ConstantsAssumption DEF MetaMap
<1>3. sh \in Shard /\ sh.entries \in [Ids -> Entry \cup {None}]
  BY DEF ShardOK, EntriesOK
<1>4. new \in Entry /\ new.cred = c
  BY <1>1, EntryFacts
<1>5. sh2 = [sh EXCEPT !.entries = es]
  BY <1>3 DEF Shard
<1> DEFINE parts == [entries |-> es, ready |-> sh.ready, cursor |-> sh.cursor,
                     round |-> sh.round, blocked |-> sh.blocked]
<1>6. sh2 = parts
  BY <1>3, <1>5, ShardParts
<1>7. EntriesOK(es, ms2, k, t)
  <2>1. es \in [Ids -> Entry \cup {None}]
    BY <1>3, <1>4
  <2>2. ASSUME NEW id \in Ids
        PROVE  IF ms2[id] = None THEN es[id] = None
               ELSE \E u \in 1..t : es[id] = EntryFor(ms2[id], k, u)
    <3>1. CASE id = c.id
      <4>1. es[id] = EntryFor(ms2[id], k, t) /\ t \in 1..t
        BY <1>1, <1>2, <1>3, <3>1
      <4> QED
        BY <1>2, <3>1, <4>1
    <3>2. CASE id # c.id
      <4>1. es[id] = sh.entries[id] /\ ms2[id] = ms[id]
        BY <1>3, <3>2 DEF MetaMap
      <4> HIDE DEF es, ms2
      <4> QED
        BY <4>1 DEF ShardOK, EntriesOK
    <3> QED
      BY <3>1, <3>2
  <2> HIDE DEF es, ms2
  <2> QED
    BY <2>1, <2>2 DEF EntriesOK
<1>8. /\ ShardOK(RebuildIndexes(sh2), ms2, k, t)
      /\ RotationOK(RebuildIndexes(sh2))
  <2> HIDE DEF es, ms2, sh2
  <2> QED
    BY <1>2, <1>6, <1>7, RebuiltShard
<1>9. CASE /\ old # None
           /\ old.state = new.state /\ old.nextRetryAt = new.nextRetryAt
           /\ old.cred.priority = c.priority
  <2>1. sh2.ready = sh.ready /\ sh2.cursor = sh.cursor /\ sh2.round = sh.round
        /\ sh2.blocked = sh.blocked /\ sh2.entries = es
    BY <1>6
  <2>2. \A id \in Ids :
          /\ es[id] # None <=> sh.entries[id] # None
          /\ es[id] # None => /\ es[id].state = sh.entries[id].state
                              /\ es[id].cred.priority = sh.entries[id].cred.priority
    BY <1>1, <1>3, <1>4, <1>9, SchedulerAssumption
  <2>3. es \in [Ids -> Entry \cup {None}]
    BY <1>7 DEF EntriesOK
  <2>4. sh2 \in Shard
    <3> HIDE DEF es
    <3> QED
      BY <1>3, <1>6, <2>3 DEF Shard
  <2> HIDE DEF es, sh2, ms2, parts
  <2>5. Listed(sh2) = Listed(sh)
    BY <2>1, <2>2 DEF Listed
  <2>6. IndexedOK(sh2)
    <3>1. IndexedOK(sh)
      BY DEF ShardOK
    <3>2. sh2.blocked = {id \in Listed(sh2) : sh2.entries[id].state \in {"cooldown", "blocked"}}
      BY <2>1, <2>2, <2>5, <3>1 DEF IndexedOK, Listed
    <3>3. ASSUME NEW n \in Priorities, NEW id \in Ids
          PROVE  sh2.ready[n][id] # None <=>
                   /\ sh2.entries[id] # None
                   /\ sh2.entries[id].state = "ready" /\ sh2.entries[id].cred.priority = n
      <4>1. sh.ready[n][id] # None <=>
              /\ sh.entries[id] # None
              /\ sh.entries[id].state = "ready" /\ sh.entries[id].cred.priority = n
        BY <3>1 DEF IndexedOK
      <4>2. sh2.ready[n][id] = sh.ready[n][id] /\ sh2.entries[id] = es[id]
        BY <2>1
      <4> QED
        BY <2>2, <4>1, <4>2
    <3> QED
      BY <2>1, <3>1, <3>2, <3>3 DEF IndexedOK
  <2>7. ShardOK(sh2, ms2, k, t)
    BY <1>7, <2>1, <2>4, <2>6 DEF ShardOK
  <2>8. RotationOK(sh) => RotationOK(sh2)
    BY <2>1, SameRotation
  <2>9. UpsertEntry(sh, c, k, t) = sh2
    BY <1>9 DEF UpsertEntry, sh2
  <2> QED
    BY <1>2, <2>7, <2>8, <2>9 DEF ms2
<1>10. CASE ~(/\ old # None
              /\ old.state = new.state /\ old.nextRetryAt = new.nextRetryAt
              /\ old.cred.priority = c.priority)
  <2>1. UpsertEntry(sh, c, k, t) = RebuildIndexes(sh2)
    BY <1>10 DEF UpsertEntry
  <2> QED
    BY <1>2, <1>8, <2>1
<1> QED
  BY <1>9, <1>10

\* removeEntryLocked (scheduler.go:305-315) takes a credential out.
LEMMA RemoveShard ==
  ASSUME NEW ms \in MetaMap, NEW k, NEW t \in Nat, NEW sh, ShardOK(sh, ms, k, t),
         NEW id \in Ids
  PROVE  /\ ShardOK(RemoveEntry(sh, id), [ms EXCEPT ![id] = None], k, t)
         /\ RotationOK(sh) => RotationOK(RemoveEntry(sh, id))
         /\ [ms EXCEPT ![id] = None] \in MetaMap
<1> DEFINE es == [sh.entries EXCEPT ![id] = None]
           sh2 == [sh EXCEPT !.entries[id] = None]
           ms2 == [ms EXCEPT ![id] = None]
<1>1. ms2 \in MetaMap
  BY DEF MetaMap
<1>2. sh \in Shard /\ sh.entries \in [Ids -> Entry \cup {None}]
  BY DEF ShardOK, EntriesOK
<1>3. EntriesOK(es, ms2, k, t)
  <2>1. es \in [Ids -> Entry \cup {None}]
    BY <1>2
  <2>2. \A j \in Ids : IF ms2[j] = None THEN es[j] = None
                       ELSE \E u \in 1..t : es[j] = EntryFor(ms2[j], k, u)
    BY <1>2 DEF ShardOK, EntriesOK, MetaMap
  <2> HIDE DEF es, ms2
  <2> QED
    BY <2>1, <2>2 DEF EntriesOK
<1>4. CASE sh.entries[id] = None
  <2>1. es = sh.entries
    BY <1>2, <1>4
  <2>2. RemoveEntry(sh, id) = sh
    BY <1>4 DEF RemoveEntry
  <2> HIDE DEF es, ms2
  <2>3. ShardOK(sh, ms2, k, t)
    BY <1>3, <2>1 DEF ShardOK
  <2> QED
    BY <1>1, <2>2, <2>3 DEF ms2
<1>5. CASE sh.entries[id] # None
  <2>1. RemoveEntry(sh, id) = RebuildIndexes(sh2)
    BY <1>5 DEF RemoveEntry
  <2>2. sh2 = [sh EXCEPT !.entries = es]
    BY <1>2 DEF Shard
  <2> HIDE DEF es, ms2, sh2
  <2>3. sh2 = [entries |-> es, ready |-> sh.ready, cursor |-> sh.cursor,
               round |-> sh.round, blocked |-> sh.blocked]
    BY <1>2, <2>2, ShardParts
  <2>4. ShardOK(RebuildIndexes(sh2), ms2, k, t) /\ RotationOK(RebuildIndexes(sh2))
    BY <1>1, <1>3, <2>3, RebuiltShard
  <2> QED
    BY <1>1, <2>1, <2>4 DEF ms2
<1> QED
  BY <1>4, <1>5

\* A held entry lasts exactly until its retry time: from then on its
\* credential is no longer blocked (maxRetryTime, selector.go:144-152).
LEMMA HeldEntryEnds ==
  ASSUME NEW c \in Credential, NEW k, NEW u \in Nat, NEW t \in Nat,
         EntryFor(c, k, u).state \in {"cooldown", "blocked"},
         EntryFor(c, k, u).nextRetryAt <= t
  PROVE  EntryFor(c, k, t).state = "ready"
<1>1. EntryFor(c, k, u).nextRetryAt = BlockedForModel(c, k, u).next
  BY DEF EntryFor
<1>2. BlockedForModel(c, k, u).reason \notin {"none", "disabled"}
  <2>1. BlockedForModel(c, k, u).reason = "none" => EntryFor(c, k, u).state = "ready"
    BY DEF EntryFor
  <2>2. BlockedForModel(c, k, u).reason = "disabled" => EntryFor(c, k, u).state = "disabled"
    BY DEF EntryFor
  <2> QED
    BY <2>1, <2>2
<1>3. PICK s \in {c} \cup StateFor(c, k) :
        /\ s.unavailable \in BOOLEAN /\ s.nextRetryAfter \in Nat /\ s.quota \in Quota
        /\ \A v \in Nat : BlockedForModel(c, k, v) = Hold(s, v)
  BY <1>2, BlockedCases DEF NotBlocked
<1>4. Hold(s, u).next >= s.nextRetryAfter /\ Hold(s, u).next \in Nat
  <2>1. Hold(s, u) # NotBlocked
    BY <1>2, <1>3 DEF NotBlocked
  <2> QED
    BY <1>3, <2>1, HoldFacts
<1>5. ~(s.nextRetryAfter > t)
  BY <1>1, <1>3, <1>4
<1>6. BlockedForModel(c, k, t) = NotBlocked
  BY <1>3, <1>5, HoldFacts
<1> QED
  BY <1>6 DEF EntryFor, NotBlocked

\* promoteExpiredLocked (scheduler.go:317-328) looks again at everybody whose
\* time has come: nobody stays held past its retry time, and the buckets
\* change if anybody was due.
LEMMA PromoteShard ==
  ASSUME NEW ms \in MetaMap, NEW k, NEW t \in Nat \ {0}, NEW sh, ShardOK(sh, ms, k, t)
  PROVE  /\ ShardOK(PromoteExpired(sh, k, t), ms, k, t)
         /\ RotationOK(sh) => RotationOK(PromoteExpired(sh, k, t))
         /\ Fresh(PromoteExpired(sh, k, t), t)
         /\ PromoteExpired(sh, k, t) = sh \/ PromoteExpired(sh, k, t).ready # sh.ready
<1> DEFINE due == {id \in sh.blocked : sh.entries[id].nextRetryAt \in 1..t}
           es == [id \in Ids |-> IF id \in due THEN EntryFor(sh.entries[id].cred, k, t)
                                 ELSE sh.entries[id]]
           sh2 == [sh EXCEPT !.entries = es]
           new == PromoteExpired(sh, k, t)
<1>1. sh \in Shard /\ sh.entries \in [Ids -> Entry \cup {None}]
  BY DEF ShardOK, EntriesOK
<1>2. \A id \in Ids : id \in sh.blocked <=>
        sh.entries[id] # None /\ sh.entries[id].state \in {"cooldown", "blocked"}
  BY DEF ShardOK, IndexedOK, Listed
<1>3. ASSUME NEW id \in Ids, sh.entries[id] # None
      PROVE  /\ sh.entries[id] \in Entry /\ ms[id] # None /\ ms[id] \in Credential
             /\ sh.entries[id].cred = ms[id] /\ ms[id].priority \in Priorities
             /\ \E u \in 1..t : sh.entries[id] = EntryFor(ms[id], k, u)
  <2>0. EntriesOK(sh.entries, ms, k, t)
    BY DEF ShardOK
  <2>1. /\ sh.entries[id] \in Entry /\ ms[id] # None /\ ms[id] \in Credential
        /\ sh.entries[id].cred = ms[id] /\ ms[id] \in Inputs
    BY <1>3, <2>0, EntriesFacts
  <2>2. \E u \in 1..t : sh.entries[id] = EntryFor(ms[id], k, u)
    BY <2>0, <2>1 DEF EntriesOK
  <2> QED
    BY <2>1, <2>2 DEF Priorities
\* A held entry asks to be looked at again at a positive time.
<1>4. ASSUME NEW id \in Ids, sh.entries[id] # None,
             sh.entries[id].state \in {"cooldown", "blocked"}
      PROVE  sh.entries[id].nextRetryAt \in Nat \ {0}
  <2>1. PICK u \in 1..t : sh.entries[id] = EntryFor(ms[id], k, u)
    BY <1>3, <1>4
  <2>2. sh.entries[id].nextRetryAt > u
    BY <1>3, <1>4, <2>1, EntryFacts
  <2>3. sh.entries[id].nextRetryAt \in Nat
    BY <1>3, <1>4 DEF Entry
  <2> QED
    BY <2>2, <2>3
<1>5. CASE due = {}
  <2>1. new = sh
    BY <1>5 DEF PromoteExpired
  <2>2. Fresh(sh, t)
    BY <1>2, <1>4, <1>5 DEF Fresh
  <2> QED
    BY <2>1, <2>2
<1>6. CASE due # {}
  <2>1. new = RebuildIndexes(sh2)
    BY <1>6 DEF PromoteExpired
  <2>2. sh2 = [entries |-> es, ready |-> sh.ready, cursor |-> sh.cursor,
               round |-> sh.round, blocked |-> sh.blocked]
    BY <1>1, ShardParts
  <2>3. ASSUME NEW id \in Ids, id \in due
        PROVE  es[id] = EntryFor(ms[id], k, t) /\ ms[id] # None /\ ms[id] \in Credential
    BY <1>2, <1>3, <2>3
  <2>4. \A id \in Ids : id \notin due => es[id] = sh.entries[id]
    OBVIOUS
  <2>5. EntriesOK(es, ms, k, t)
    <3>1. es \in [Ids -> Entry \cup {None}]
      <4>1. ASSUME NEW id \in Ids
            PROVE  es[id] \in Entry \cup {None}
        <5> HIDE DEF es, due
        <5>1. CASE id \in due
          BY <2>3, <5>1, EntryFacts
        <5>2. CASE id \notin due
          BY <1>1, <2>4, <5>2
        <5> QED
          BY <5>1, <5>2
      <4> QED
        BY <4>1
    <3>2. ASSUME NEW id \in Ids
          PROVE  IF ms[id] = None THEN es[id] = None
                 ELSE \E u \in 1..t : es[id] = EntryFor(ms[id], k, u)
      <4>1. t \in 1..t
        OBVIOUS
      <4>2. EntriesOK(sh.entries, ms, k, t)
        BY DEF ShardOK
      <4> HIDE DEF es, due
      <4> QED
        BY <2>3, <2>4, <4>1, <4>2 DEF EntriesOK
    <3> HIDE DEF es
    <3> QED
      BY <3>1, <3>2 DEF EntriesOK
  <2> HIDE DEF es, sh2
  <2>6. ShardOK(new, ms, k, t) /\ new.entries = es /\ RotationOK(new)
    BY <2>1, <2>2, <2>5, RebuiltShard
  <2>7. ASSUME NEW id \in Ids, es[id] # None, es[id].state \in {"cooldown", "blocked"}
        PROVE  es[id].nextRetryAt > t
    <3>1. CASE id \in due
      BY <2>3, <2>7, <3>1, EntryFacts
    <3>2. CASE id \notin due
      <4>1. es[id] = sh.entries[id]
        BY <2>4, <3>2
      <4>2. id \in sh.blocked /\ sh.entries[id].nextRetryAt \in Nat \ {0}
        BY <1>2, <1>4, <2>7, <4>1
      <4> QED
        BY <3>2, <4>1, <4>2
    <3> QED
      BY <3>1, <3>2
  <2>8. Fresh(new, t)
    BY <2>6, <2>7 DEF Fresh
  <2>9. new.ready # sh.ready
    <3>1. PICK id \in due : TRUE
      BY <1>6
    <3>2. id \in Ids /\ sh.entries[id] # None /\ sh.entries[id].state \in {"cooldown", "blocked"}
          /\ sh.entries[id].nextRetryAt <= t
      BY <1>1, <1>2, <3>1 DEF Shard
    <3>3. PICK u \in 1..t : sh.entries[id] = EntryFor(ms[id], k, u)
      BY <1>3, <3>2
    <3>4. ms[id] \in Credential /\ ms[id].priority \in Priorities
      BY <1>3, <3>2
    <3>5. EntryFor(ms[id], k, t).state = "ready"
      BY <3>2, <3>3, <3>4, HeldEntryEnds
    <3>6. es[id] = EntryFor(ms[id], k, t) /\ es[id] # None /\ es[id].cred = ms[id]
      BY <2>3, <3>1, <3>2, <3>4, EntryFacts, SchedulerAssumption
    <3>7. new.ready[ms[id].priority][id] # None
      BY <2>6, <3>2, <3>4, <3>5, <3>6 DEF ShardOK, IndexedOK
    <3>8. sh.ready[ms[id].priority][id] = None
      BY <3>2, <3>4 DEF ShardOK, IndexedOK
    <3> QED
      BY <3>7, <3>8
  <2> QED
    BY <2>6, <2>8, <2>9
<1> QED
  BY <1>5, <1>6

\* ensureModelLocked (scheduler.go:239-259) builds a shard over all the
\* provider's credentials, nobody held past its retry time.
LEMMA BuiltShard ==
  ASSUME NEW ms \in MetaMap, NEW k, NEW t \in Nat \ {0}
  PROVE  /\ ShardOK(BuildShard(ms, k, t), ms, k, t)
         /\ RotationOK(BuildShard(ms, k, t))
         /\ Fresh(BuildShard(ms, k, t), t)
<1> DEFINE es == [id \in Ids |-> IF ms[id] = None THEN None ELSE EntryFor(ms[id], k, t)]
           raw == [entries |-> es, ready |-> <<>>, cursor |-> <<>>, round |-> <<>>,
                   blocked |-> {}]
<1>1. BuildShard(ms, k, t) = RebuildIndexes(raw)
  BY DEF BuildShard
<1>2. \A id \in Ids : ms[id] # None => ms[id] \in Credential
  BY SchedulerAssumption DEF MetaMap
<1>3. EntriesOK(es, ms, k, t)
  <2>1. es \in [Ids -> Entry \cup {None}]
    BY <1>2, EntryFacts
  <2>2. t \in 1..t
    OBVIOUS
  <2>3. \A id \in Ids : es[id] = IF ms[id] = None THEN None ELSE EntryFor(ms[id], k, t)
    OBVIOUS
  <2> HIDE DEF es
  <2> QED
    BY <2>1, <2>2, <2>3 DEF EntriesOK
<1>4. Fresh(RebuildIndexes(raw), t)
  <2>1. RebuildIndexes(raw).entries = es
    BY <1>3, RebuiltShard
  <2>2. \A id \in Ids : es[id] # None => ms[id] # None /\ es[id] = EntryFor(ms[id], k, t)
    OBVIOUS
  <2> HIDE DEF es, raw
  <2> QED
    BY <1>2, <2>1, <2>2, EntryFacts DEF Fresh
<1>5. ShardOK(RebuildIndexes(raw), ms, k, t) /\ RotationOK(RebuildIndexes(raw))
  <2> HIDE DEF es
  <2> QED
    BY <1>3, RebuiltShard
<1> HIDE DEF raw
<1> QED
  BY <1>1, <1>4, <1>5

\* An index stays right while time passes.
LEMMA LaterShard ==
  ASSUME NEW ms, NEW k, NEW t \in Nat, NEW sh, ShardOK(sh, ms, k, t)
  PROVE  ShardOK(sh, ms, k, t + 1)
<1>1. 1..t \subseteq 1..(t + 1)
  OBVIOUS
<1> QED
  BY <1>1 DEF ShardOK, EntriesOK

\* A bucket is finite, and a position in it is a number below its size;
\* whoever has a smaller ID has a smaller position.
LEMMA BucketIndex ==
  ASSUME NEW sh, NEW n
  PROVE  /\ IsFiniteSet(Bucket(sh, n)) /\ Cardinality(Bucket(sh, n)) \in Nat
         /\ \A id \in Bucket(sh, n) : Index(sh, n, id) \in 0..(Cardinality(Bucket(sh, n)) - 1)
         /\ \A i, j \in Bucket(sh, n) : i < j => Index(sh, n, i) < Index(sh, n, j)
<1>1. Bucket(sh, n) \subseteq Ids /\ Ids \subseteq Nat
  BY ConstantsAssumption DEF Bucket
<1>2. IsFiniteSet(Bucket(sh, n)) /\ Cardinality(Bucket(sh, n)) \in Nat
  BY <1>1, FS_Subset, FS_CardinalityType, SchedulerAssumption
<1> DEFINE before(id) == {j \in Bucket(sh, n) : j < id}
<1>3. ASSUME NEW id \in Bucket(sh, n)
      PROVE  /\ IsFiniteSet(before(id)) /\ Index(sh, n, id) = Cardinality(before(id))
             /\ Cardinality(before(id)) \in Nat
  BY <1>2, FS_Subset, FS_CardinalityType DEF Index
\* A proper subset of a finite set is smaller.
<1>4. ASSUME NEW S, NEW T, IsFiniteSet(T), S \subseteq T, NEW x \in T, x \notin S
      PROVE  Cardinality(S) < Cardinality(T)
  <2>1. IsFiniteSet(S) /\ Cardinality(S) <= Cardinality(T) /\ Cardinality(S) # Cardinality(T)
    BY <1>4, FS_Subset
  <2> QED
    BY <1>4, <2>1, FS_CardinalityType
<1>5. ASSUME NEW id \in Bucket(sh, n)
      PROVE  Index(sh, n, id) \in 0..(Cardinality(Bucket(sh, n)) - 1)
  <2>0. id \in Nat
    BY <1>1
  <2>1. before(id) \subseteq Bucket(sh, n) /\ id \notin before(id)
    BY <2>0
  <2>2. Cardinality(before(id)) < Cardinality(Bucket(sh, n))
    BY <1>2, <1>4, <2>1
  <2> HIDE DEF before
  <2> QED
    BY <1>2, <1>3, <2>2
<1>6. ASSUME NEW i \in Bucket(sh, n), NEW j \in Bucket(sh, n), i < j
      PROVE  Index(sh, n, i) < Index(sh, n, j)
  <2>0. i \in Nat /\ j \in Nat /\ \A x \in Bucket(sh, n) : x \in Nat
    BY <1>1
  <2>a. \A x \in Bucket(sh, n) : x < i => x < j
    BY <1>6, <2>0
  <2>b. ~(i < i)
    BY <2>0
  <2>1. before(i) \subseteq before(j) /\ i \in before(j) /\ i \notin before(i)
    BY <1>6, <2>a, <2>b
  <2>2. Cardinality(before(i)) < Cardinality(before(j))
    BY <1>3, <1>4, <2>1
  <2> HIDE DEF before
  <2> QED
    BY <1>3, <2>2
<1> QED
  BY <1>2, <1>5, <1>6

\* Every position of a bucket is somebody's.
LEMMA IndexOnto ==
  ASSUME NEW sh, NEW n, NEW i \in 0..(Cardinality(Bucket(sh, n)) - 1)
  PROVE  \E id \in Bucket(sh, n) : Index(sh, n, id) = i
<1> DEFINE B == Bucket(sh, n)
           T == 0..(Cardinality(B) - 1)
           f == [id \in B |-> Index(sh, n, id)]
<1>1. IsFiniteSet(B) /\ Cardinality(B) \in Nat /\ B \subseteq Nat
  BY BucketIndex, ConstantsAssumption DEF Bucket
<1>2. f \in [B -> T]
  BY BucketIndex
<1>3. ASSUME NEW a \in B, NEW b \in B, f[a] = f[b]
      PROVE  a = b
  <2>1. \A x \in B : Index(sh, n, x) \in Int
    BY <1>1, BucketIndex
  <2>2. a < b \/ b < a \/ a = b
    BY <1>1
  <2>3. Index(sh, n, a) = Index(sh, n, b)
    BY <1>3
  <2> QED
    BY <2>1, <2>2, <2>3, BucketIndex
<1>4. f \in Injection(B, T)
  BY <1>2, <1>3 DEF Injection, IsInjective
<1>5. IsFiniteSet(T) /\ Cardinality(T) = Cardinality(B)
  <2> HIDE DEF B
  <2> DEFINE top == Cardinality(B) - 1
  <2>0. 0 \in Int /\ top \in Int
    BY <1>1
  <2> HIDE DEF top
  <2>1. IsFiniteSet(0..top)
    BY <2>0, FS_Interval
  <2>2. Cardinality(0..top) = IF 0 > top THEN 0 ELSE top - 0 + 1
    BY <2>0, FS_Interval
  <2> USE DEF top
  <2> QED
    BY <1>1, <2>1, <2>2
<1>6. f \in Surjection(B, T)
  <2> HIDE DEF B, T, f
  <2> QED
    BY <1>4, <1>5, FS_Injection
<1> QED
  BY <1>6 DEF Surjection

\* The moved cursor of PickFromBucket (selector.go:50-62) leaves the indexes
\* as they are.
LEMMA AdvanceShard ==
  ASSUME NEW ms, NEW k, NEW t, NEW sh, ShardOK(sh, ms, k, t),
         NEW n \in Priorities, NEW id \in Bucket(sh, n)
  PROVE  ShardOK(Advance(sh, n, id), ms, k, t) /\ Advance(sh, n, id).ready = sh.ready
<1> DEFINE new == Advance(sh, n, id)
           served == sh.round[n] \cup {id}
           cu == [sh.cursor EXCEPT ![n] = Index(sh, n, id) + 1]
           ro == [sh.round EXCEPT ![n] = IF served = Bucket(sh, n) THEN {} ELSE served]
<1>1. sh \in Shard
  BY DEF ShardOK
<1>2. new = [entries |-> sh.entries, ready |-> sh.ready, cursor |-> cu, round |-> ro,
             blocked |-> sh.blocked]
  <2>1. new = [sh EXCEPT !.cursor = cu, !.round = ro]
    BY <1>1 DEF Advance, Shard
  <2> HIDE DEF new, cu, ro
  <2> QED
    BY <1>1, <2>1 DEF Shard
<1>3. cu \in [Priorities -> Nat]
  <2>1. Index(sh, n, id) + 1 \in Nat
    BY BucketIndex
  <2> QED
    BY <1>1, <2>1 DEF Shard
<1>4. ro \in [Priorities -> SUBSET Ids]
  <2>1. served \in SUBSET Ids
    BY <1>1 DEF Shard, Bucket
  <2> HIDE DEF served
  <2> QED
    BY <1>1, <2>1 DEF Shard
<1> HIDE DEF new, cu, ro
<1>5. new \in Shard
  BY <1>1, <1>2, <1>3, <1>4 DEF Shard
<1>6. new.entries = sh.entries /\ new.ready = sh.ready /\ new.blocked = sh.blocked
  BY <1>2
<1>7. IndexedOK(new)
  BY <1>6 DEF ShardOK, IndexedOK, Listed
<1> QED
  BY <1>5, <1>6, <1>7 DEF ShardOK, new

\* How far behind the cursor an ID is, going round the bucket.
Distance(sh, n, id) ==
  (Index(sh, n, id) - (sh.cursor[n] % Cardinality(Bucket(sh, n)))) % Cardinality(Bucket(sh, n))

\* Where somebody matches, RoundRobinSelector (selector.go:50-62) takes one
\* who does: one at the least distance behind the cursor.
LEMMA RoundRobinMatches ==
  ASSUME NEW sh \in Shard, NEW n \in Priorities, NEW tried, Matches(sh, n, tried) # {}
  PROVE  /\ RoundRobin(sh, n, tried) \in Matches(sh, n, tried)
         /\ \A j \in Matches(sh, n, tried) :
              Distance(sh, n, RoundRobin(sh, n, tried)) <= Distance(sh, n, j)
<1> DEFINE M == Matches(sh, n, tried)
           size == Cardinality(Bucket(sh, n))
           start == sh.cursor[n] % size
           f == [id \in M |-> Distance(sh, n, id)]
<1>1. M \subseteq Bucket(sh, n) /\ IsFiniteSet(M)
  BY BucketIndex, FS_Subset DEF Matches
<1>2. size \in Nat \ {0} /\ start \in Nat
  <2>1. size \in Nat \ {0}
    BY <1>1, BucketIndex, FS_EmptySet
  <2>2. sh.cursor[n] \in Nat
    BY DEF Shard
  <2> HIDE DEF size
  <2> QED
    BY <2>1, <2>2
<1>3. ASSUME NEW id \in M
      PROVE  Distance(sh, n, id) \in Int
  <2>1. Index(sh, n, id) \in Int
    BY <1>1, BucketIndex
  <2>2. Distance(sh, n, id) = (Index(sh, n, id) - start) % size
    BY DEF Distance
  <2> HIDE DEF size, start
  <2> QED
    BY <1>2, <2>1, <2>2
<1>4. f \in [M -> Int]
  BY <1>3
<1>5. \E id \in M : \A j \in M : f[id] <= f[j]
  <2> HIDE DEF f, M
  <2> QED
    BY <1>1, <1>4, FiniteMin DEF M
<1>6. \E id \in M : \A j \in M : Distance(sh, n, id) <= Distance(sh, n, j)
  BY <1>5
<1>7. RoundRobin(sh, n, tried) =
        CHOOSE id \in M : \A j \in M : Distance(sh, n, id) <= Distance(sh, n, j)
  BY DEF RoundRobin, Distance
<1> QED
  BY <1>6, <1>7

\* So does FillFirstSelector (selector.go:72-80).
LEMMA FillFirstMatches ==
  ASSUME NEW sh, NEW n, NEW tried, Matches(sh, n, tried) # {}
  PROVE  FillFirst(sh, n, tried) \in Matches(sh, n, tried)
<1> DEFINE M == Matches(sh, n, tried)
           f == [id \in M |-> id]
<1>1. M \subseteq Bucket(sh, n) /\ IsFiniteSet(M) /\ M \subseteq Nat
  <2>1. M \subseteq Bucket(sh, n) /\ IsFiniteSet(M)
    BY BucketIndex, FS_Subset DEF Matches
  <2>2. Bucket(sh, n) \subseteq Nat
    BY ConstantsAssumption DEF Bucket
  <2> QED
    BY <2>1, <2>2
<1>2. f \in [M -> Int]
  <2> HIDE DEF M
  <2> QED
    BY <1>1
<1>3. \E id \in M : \A j \in M : f[id] <= f[j]
  <2> HIDE DEF f, M
  <2> QED
    BY <1>1, <1>2, FiniteMin DEF M
<1>4. \E id \in M : \A j \in M : id <= j
  BY <1>3
<1> QED
  BY <1>4 DEF FillFirst

\* pickLocked (scheduler.go:353-380) finds a bucket whenever one has a match,
\* and the one it finds has the highest priority.
LEMMA BestExists ==
  ASSUME NEW ms \in MetaMap, NEW k, NEW t \in Nat, NEW sh, ShardOK(sh, ms, k, t),
         NEW tried, BestPriorities(sh, tried) = {}, NEW n \in Priorities
  PROVE  Matches(sh, n, tried) = {}
<1> DEFINE S == {id \in Ids : \E m \in Priorities : id \in Matches(sh, m, tried)}
           f == [id \in S |-> 0 - sh.entries[id].cred.priority]
<1>1. SUFFICES ASSUME Matches(sh, n, tried) # {}
               PROVE  FALSE
  OBVIOUS
<1>2. IsFiniteSet(S) /\ S # {}
  <2>1. IsFiniteSet(S)
    BY FS_Subset, SchedulerAssumption
  <2>2. Matches(sh, n, tried) \subseteq Ids
    BY DEF Matches, Bucket
  <2> QED
    BY <1>1, <2>1, <2>2
<1>3. ASSUME NEW id \in Ids, NEW m \in Priorities, id \in Matches(sh, m, tried)
      PROVE  sh.entries[id].cred.priority = m /\ m \in Int
  <2>1. Priorities \subseteq Int
    BY SchedulerAssumption DEF Priorities, Credential
  <2> QED
    BY <1>3, <2>1 DEF Matches, Bucket, ShardOK, IndexedOK
<1>4. f \in [S -> Int]
  BY <1>3
<1>5. PICK x \in S : \A y \in S : f[x] <= f[y]
  <2> HIDE DEF S, f
  <2> QED
    BY <1>2, <1>4, FiniteMin
<1>6. PICK m \in Priorities : x \in Matches(sh, m, tried)
  OBVIOUS
<1>7. ASSUME NEW h \in Priorities, Matches(sh, h, tried) # {}
      PROVE  h <= m
  <2>1. PICK y \in Matches(sh, h, tried) : y \in Ids
    BY <1>7 DEF Matches, Bucket
  <2>2. y \in S /\ f[y] = 0 - h /\ f[x] = 0 - m
    BY <1>3, <1>6, <2>1
  <2>3. h \in Int /\ m \in Int
    BY <1>3, <1>6, <2>1
  <2> HIDE DEF S, f
  <2>4. f[x] <= f[y]
    BY <1>5, <2>2
  <2> QED
    BY <2>2, <2>3, <2>4
<1>8. m \in BestPriorities(sh, tried)
  BY <1>6, <1>7 DEF BestPriorities
<1> QED
  BY <1>8

-----------------------------------------------------------------------------
(* The inductive invariant *)

\* What the last pick left is an answer.
LastOK ==
  last \in [provider: Providers \cup {None}, model: Models \cup {<<>>},
            tried: SUBSET Ids, cred: Credential \cup {None},
            outcome: {"none", "picked", "not_found", "cooldown", "unavailable"}]

\* credProviders and creds say the same, of credentials that may be there.
PlacesOK ==
  /\ credProviders \in [Ids -> Providers \cup {None}]
  /\ providers \subseteq Providers
  /\ creds \in [Providers -> MetaMap]
  /\ \A p \in Providers, id \in Ids :
       /\ creds[p][id] # None <=> credProviders[id] = p
       /\ creds[p][id] # None => /\ creds[p][id].provider = p
                                 /\ ~IsDisabled(creds[p][id]) /\ p \in providers

\* Every shard that exists is in order.
ShardsOK ==
  /\ shards \in [Providers -> [Keys -> Shard \cup {None}]]
  /\ \A p \in Providers, k \in Keys :
       shards[p][k] # None => ShardOK(shards[p][k], creds[p], k, now)

\* The invariant of the scheduler.
SchedInv ==
  /\ now \in Nat \ {0} /\ strategy \in {"round_robin", "fill_first"}
  /\ PlacesOK /\ ShardsOK /\ LastOK

\* The cursors of all shards are where the ghost round says.
RotationInv ==
  \A p \in Providers, k \in Keys : shards[p][k] # None => RotationOK(shards[p][k])

\* What the invariant says of one provider and one shard.
LEMMA InvFacts ==
  ASSUME SchedInv
  PROVE  /\ now \in Nat \ {0}
         /\ \A p \in Providers : creds[p] \in MetaMap
         /\ \A p \in Providers, id \in Ids : creds[p][id] # None =>
              creds[p][id] \in Inputs /\ creds[p][id] \in Credential /\ creds[p][id].id = id
         /\ \A p \in Providers, k \in Keys : shards[p][k] # None =>
              shards[p][k] \in Shard /\ ShardOK(shards[p][k], creds[p], k, now)
<1>1. \A p \in Providers : creds[p] \in MetaMap
  BY DEF SchedInv, PlacesOK
<1>2. \A p \in Providers, k \in Keys : shards[p][k] # None =>
        ShardOK(shards[p][k], creds[p], k, now)
  BY DEF SchedInv, ShardsOK
<1> QED
  BY <1>1, <1>2, SchedulerAssumption DEF SchedInv, MetaMap, ShardOK

\* A new scheduler holds nobody.
LEMMA InitInv == Init => SchedInv /\ RotationInv
<1> SUFFICES ASSUME Init PROVE SchedInv /\ RotationInv
  OBVIOUS
<1> USE DEF Init
<1>1. PlacesOK
  <2>1. [id \in Ids |-> None] \in MetaMap
    BY DEF MetaMap
  <2> QED
    BY <2>1, ConstantsAssumption DEF PlacesOK
<1>2. \A p \in Providers, k \in Keys : shards[p][k] = None
  OBVIOUS
<1>3. ShardsOK
  BY <1>2 DEF ShardsOK
<1>4. LastOK
  BY DEF LastOK, NoPick
<1> QED
  BY <1>1, <1>2, <1>3, <1>4 DEF SchedInv, RotationInv

\* Placing an enabled credential (upsertLocked, scheduler.go:116-151).
LEMMA PlaceStep ==
  ASSUME SchedInv, NEW c \in Inputs, ~IsDisabled(c), Place(c)
  PROVE  SchedInv' /\ (RotationInv => RotationInv')
<1>1. c \in Credential /\ c.id \in Ids /\ c.provider \in Providers /\ c # None
  BY SchedulerAssumption, ConstantsAssumption DEF Credential
<1>2. None \notin Providers
  BY ConstantsAssumption
<1>3. ASSUME NEW p \in Providers
      PROVE  creds'[p] = IF p = c.provider THEN [creds[p] EXCEPT ![c.id] = c]
                         ELSE IF p = credProviders[c.id] THEN [creds[p] EXCEPT ![c.id] = None]
                         ELSE creds[p]
  <2>1. creds'[p] = [creds[p] EXCEPT ![c.id] =
            IF p = c.provider THEN c
            ELSE IF p = credProviders[c.id] THEN None ELSE creds[p][c.id]]
    BY DEF Place
  <2>2. creds[p] \in [Ids -> Inputs \cup {None}]
    BY InvFacts DEF MetaMap
  <2> QED
    BY <1>1, <2>1, <2>2
<1>4. ASSUME NEW p \in Providers
      PROVE  creds'[p] \in MetaMap
  <2>1. creds[p] \in MetaMap
    BY InvFacts
  <2>2. [creds[p] EXCEPT ![c.id] = c] \in MetaMap
    BY <1>1, <2>1 DEF MetaMap
  <2>3. [creds[p] EXCEPT ![c.id] = None] \in MetaMap
    BY <1>1, <2>1 DEF MetaMap
  <2> QED
    BY <1>3, <2>1, <2>2, <2>3
<1>5. PlacesOK'
  <2>1. credProviders' = [credProviders EXCEPT ![c.id] = c.provider]
        /\ credProviders \in [Ids -> Providers \cup {None}]
    BY DEF Place, SchedInv, PlacesOK
  <2>2. providers' = providers \cup {c.provider} /\ providers \subseteq Providers
    BY DEF Place, SchedInv, PlacesOK
  <2>3. creds' \in [Providers -> MetaMap]
    <3>1. creds' = [p \in Providers |-> creds'[p]]
      BY DEF Place
    <3> QED
      BY <1>4, <3>1
  <2>4. ASSUME NEW p \in Providers, NEW id \in Ids
        PROVE  /\ creds'[p][id] # None <=> credProviders'[id] = p
               /\ creds'[p][id] # None => /\ creds'[p][id].provider = p
                                          /\ ~IsDisabled(creds'[p][id]) /\ p \in providers'
    <3>1. /\ creds[p][id] # None <=> credProviders[id] = p
          /\ creds[p][id] # None => /\ creds[p][id].provider = p
                                    /\ ~IsDisabled(creds[p][id]) /\ p \in providers
      BY DEF SchedInv, PlacesOK
    <3>2. creds[p] \in [Ids -> Inputs \cup {None}]
      BY InvFacts DEF MetaMap
    <3>3. CASE id # c.id
      <4>1. creds'[p][id] = creds[p][id] /\ credProviders'[id] = credProviders[id]
        BY <1>3, <2>1, <3>2, <3>3
      <4> QED
        BY <2>2, <3>1, <4>1
    <3>4. CASE id = c.id /\ p = c.provider
      BY <1>1, <1>3, <2>1, <2>2, <3>2, <3>4
    <3>5. CASE id = c.id /\ p # c.provider
      BY <1>1, <1>3, <2>1, <2>2, <3>1, <3>2, <3>5
    <3> QED
      BY <3>3, <3>4, <3>5
  <2> QED
    BY <1>1, <2>1, <2>2, <2>3, <2>4 DEF PlacesOK
<1>6. ASSUME NEW p \in Providers, NEW k \in Keys
      PROVE  shards'[p][k] = IF shards[p][k] = None THEN None
               ELSE IF p = c.provider THEN UpsertEntry(shards[p][k], c, k, now)
               ELSE IF p = credProviders[c.id] THEN RemoveEntry(shards[p][k], c.id)
               ELSE shards[p][k]
  BY DEF Place
<1>7. ASSUME NEW p \in Providers, NEW k \in Keys, shards[p][k] # None
      PROVE  /\ ShardOK(shards'[p][k], creds'[p], k, now)
             /\ RotationOK(shards[p][k]) => RotationOK(shards'[p][k])
  <2>1. ShardOK(shards[p][k], creds[p], k, now) /\ creds[p] \in MetaMap /\ now \in Nat \ {0}
    BY <1>7, InvFacts
  <2>2. CASE p = c.provider
    <3>1. /\ shards'[p][k] = UpsertEntry(shards[p][k], c, k, now)
          /\ creds'[p] = [creds[p] EXCEPT ![c.id] = c]
      BY <1>3, <1>6, <1>7, <2>2
    <3>2. /\ ShardOK(UpsertEntry(shards[p][k], c, k, now), [creds[p] EXCEPT ![c.id] = c], k, now)
          /\ RotationOK(shards[p][k]) => RotationOK(UpsertEntry(shards[p][k], c, k, now))
      BY <2>1, UpsertShard
    <3> QED
      BY <3>1, <3>2
  <2>3. CASE p # c.provider /\ p = credProviders[c.id]
    <3>1. /\ shards'[p][k] = RemoveEntry(shards[p][k], c.id)
          /\ creds'[p] = [creds[p] EXCEPT ![c.id] = None]
      BY <1>3, <1>6, <1>7, <2>3
    <3>2. /\ ShardOK(RemoveEntry(shards[p][k], c.id), [creds[p] EXCEPT ![c.id] = None], k, now)
          /\ RotationOK(shards[p][k]) => RotationOK(RemoveEntry(shards[p][k], c.id))
      BY <1>1, <2>1, RemoveShard
    <3> QED
      BY <3>1, <3>2
  <2>4. CASE p # c.provider /\ p # credProviders[c.id]
    BY <1>3, <1>6, <1>7, <2>1, <2>4
  <2> QED
    BY <2>2, <2>3, <2>4
<1>8. now' = now /\ strategy' = strategy /\ last' = NoPick
  BY DEF Place
<1>9. ShardsOK'
  <2>1. \A p \in Providers, k \in Keys : shards'[p][k] \in Shard \cup {None}
    BY <1>6, <1>7 DEF ShardOK
  <2>2. shards' = [p \in Providers |-> [k \in Keys |-> shards'[p][k]]]
    BY DEF Place
  <2>3. shards' \in [Providers -> [Keys -> Shard \cup {None}]]
    BY <2>1, <2>2
  <2>4. \A p \in Providers, k \in Keys : shards'[p][k] # None =>
          ShardOK(shards'[p][k], creds'[p], k, now')
    BY <1>6, <1>7, <1>8
  <2> QED
    BY <2>3, <2>4 DEF ShardsOK
<1>10. LastOK'
  BY <1>8 DEF LastOK, NoPick
<1>11. RotationInv => RotationInv'
  BY <1>6, <1>7 DEF RotationInv
<1> QED
  BY <1>5, <1>8, <1>9, <1>10, <1>11 DEF SchedInv

\* removeLocked (scheduler.go:153-172).
LEMMA RemoveStep ==
  ASSUME SchedInv, NEW id \in Ids, Remove(id)
  PROVE  SchedInv' /\ (RotationInv => RotationInv')
<1>1. None \notin Providers
  BY ConstantsAssumption
<1>2. ASSUME NEW p \in Providers
      PROVE  creds'[p] = IF p = credProviders[id] THEN [creds[p] EXCEPT ![id] = None]
                         ELSE creds[p]
  BY DEF Remove
<1>3. ASSUME NEW p \in Providers
      PROVE  creds'[p] \in MetaMap
  <2>1. creds[p] \in MetaMap
    BY InvFacts
  <2>2. [creds[p] EXCEPT ![id] = None] \in MetaMap
    BY <2>1 DEF MetaMap
  <2> QED
    BY <1>2, <2>1, <2>2
<1>4. PlacesOK'
  <2>1. credProviders' = [credProviders EXCEPT ![id] = None]
        /\ credProviders \in [Ids -> Providers \cup {None}]
    BY DEF Remove, SchedInv, PlacesOK
  <2>2. providers' = providers /\ providers \subseteq Providers
    BY DEF Remove, SchedInv, PlacesOK
  <2>3. creds' \in [Providers -> MetaMap]
    <3>1. creds' = [p \in Providers |-> creds'[p]]
      BY DEF Remove
    <3> QED
      BY <1>3, <3>1
  <2>4. ASSUME NEW p \in Providers, NEW j \in Ids
        PROVE  /\ creds'[p][j] # None <=> credProviders'[j] = p
               /\ creds'[p][j] # None => /\ creds'[p][j].provider = p
                                         /\ ~IsDisabled(creds'[p][j]) /\ p \in providers'
    <3>1. /\ creds[p][j] # None <=> credProviders[j] = p
          /\ creds[p][j] # None => /\ creds[p][j].provider = p
                                   /\ ~IsDisabled(creds[p][j]) /\ p \in providers
      BY DEF SchedInv, PlacesOK
    <3>2. creds[p] \in [Ids -> Inputs \cup {None}]
      BY InvFacts DEF MetaMap
    <3>3. CASE j # id
      <4>1. creds'[p][j] = creds[p][j] /\ credProviders'[j] = credProviders[j]
        BY <1>2, <2>1, <3>2, <3>3
      <4> QED
        BY <2>2, <3>1, <4>1
    <3>4. CASE j = id
      BY <1>1, <1>2, <2>1, <3>1, <3>2, <3>4
    <3> QED
      BY <3>3, <3>4
  <2> QED
    BY <2>1, <2>2, <2>3, <2>4 DEF PlacesOK
<1>5. ASSUME NEW p \in Providers, NEW k \in Keys
      PROVE  shards'[p][k] = IF p = credProviders[id] /\ shards[p][k] # None
                             THEN RemoveEntry(shards[p][k], id) ELSE shards[p][k]
  BY DEF Remove, RemoveFrom
<1>6. ASSUME NEW p \in Providers, NEW k \in Keys, shards[p][k] # None
      PROVE  /\ ShardOK(shards'[p][k], creds'[p], k, now)
             /\ RotationOK(shards[p][k]) => RotationOK(shards'[p][k])
  <2>1. ShardOK(shards[p][k], creds[p], k, now) /\ creds[p] \in MetaMap /\ now \in Nat
    BY <1>6, InvFacts
  <2>2. CASE p = credProviders[id]
    <3>1. /\ shards'[p][k] = RemoveEntry(shards[p][k], id)
          /\ creds'[p] = [creds[p] EXCEPT ![id] = None]
      BY <1>2, <1>5, <1>6, <2>2
    <3>2. /\ ShardOK(RemoveEntry(shards[p][k], id), [creds[p] EXCEPT ![id] = None], k, now)
          /\ RotationOK(shards[p][k]) => RotationOK(RemoveEntry(shards[p][k], id))
      BY <2>1, RemoveShard
    <3> QED
      BY <3>1, <3>2
  <2>3. CASE p # credProviders[id]
    BY <1>2, <1>5, <2>1, <2>3
  <2> QED
    BY <2>2, <2>3
<1>7. now' = now /\ strategy' = strategy /\ last' = NoPick
  BY DEF Remove
<1>8. ShardsOK'
  <2>1. \A p \in Providers, k \in Keys : shards[p][k] = None => shards'[p][k] = None
    BY <1>5
  <2>2. \A p \in Providers, k \in Keys : shards'[p][k] \in Shard \cup {None}
    BY <1>6, <2>1 DEF ShardOK
  <2>3. shards' = [p \in Providers |-> [k \in Keys |-> shards'[p][k]]]
    BY DEF Remove, RemoveFrom
  <2>4. shards' \in [Providers -> [Keys -> Shard \cup {None}]]
    BY <2>2, <2>3
  <2>5. \A p \in Providers, k \in Keys : shards'[p][k] # None =>
          ShardOK(shards'[p][k], creds'[p], k, now')
    BY <1>6, <1>7, <2>1
  <2> QED
    BY <2>4, <2>5 DEF ShardsOK
<1>9. LastOK'
  BY <1>7 DEF LastOK, NoPick
<1>10. RotationInv => RotationInv'
  BY <1>5, <1>6 DEF RotationInv
<1> QED
  BY <1>4, <1>7, <1>8, <1>9, <1>10 DEF SchedInv

\* The snapshot SetStrategy rebuilds from is what the scheduler holds, and
\* the rebuild leaves credProviders and creds as they are.
LEMMA SnapshotFacts ==
  ASSUME SchedInv, NEW f,
         f = [id \in Ids |-> IF credProviders[id] = None THEN None
                             ELSE creds[credProviders[id]][id]],
         Rebuild(f)
  PROVE  credProviders' = credProviders /\ creds' = creds /\ providers' \subseteq providers
         /\ \A p \in Providers, id \in Ids : creds[p][id] # None => p \in providers'
<1> DEFINE kept == {id \in Ids : f[id] # None /\ ~IsDisabled(f[id])}
<1>1. /\ credProviders \in [Ids -> Providers \cup {None}] /\ creds \in [Providers -> MetaMap]
      /\ \A p \in Providers, id \in Ids :
           /\ creds[p][id] # None <=> credProviders[id] = p
           /\ creds[p][id] # None => /\ creds[p][id].provider = p
                                     /\ ~IsDisabled(creds[p][id]) /\ p \in providers
  BY DEF SchedInv, PlacesOK
<1>2. \A p \in Providers : creds[p] \in [Ids -> Inputs \cup {None}]
  BY <1>1 DEF MetaMap
<1>3. ASSUME NEW id \in Ids
      PROVE  /\ id \in kept <=> credProviders[id] # None
             /\ id \in kept => /\ f[id].provider = credProviders[id]
                               /\ f[id] = creds[credProviders[id]][id]
                               /\ credProviders[id] \in providers
  <2>1. CASE credProviders[id] = None
    BY <2>1
  <2>2. CASE credProviders[id] # None
    <3>1. credProviders[id] \in Providers
      BY <1>1, <2>2
    <3>2. f[id] = creds[credProviders[id]][id]
      BY <2>2
    <3> QED
      BY <1>1, <2>2, <3>1, <3>2
  <2> QED
    BY <2>1, <2>2
<1>4. /\ credProviders' = [id \in Ids |-> IF id \in kept THEN f[id].provider ELSE None]
      /\ providers' = {f[id].provider : id \in kept}
      /\ creds' = [p \in Providers |-> [id \in Ids |->
                     IF id \in kept /\ f[id].provider = p THEN f[id] ELSE None]]
  BY DEF Rebuild
<1> HIDE DEF kept
<1>5. credProviders' = credProviders
  BY <1>1, <1>3, <1>4
<1>6. ASSUME NEW p \in Providers
      PROVE  creds'[p] = creds[p]
  <2>1. ASSUME NEW id \in Ids
        PROVE  creds'[p][id] = creds[p][id]
    <3>1. creds'[p][id] = IF id \in kept /\ f[id].provider = p THEN f[id] ELSE None
      BY <1>4
    <3> QED
      BY <1>1, <1>3, <3>1, ConstantsAssumption
  <2>2. creds'[p] = [id \in Ids |-> creds'[p][id]]
    BY <1>4
  <2> QED
    BY <1>2, <2>1, <2>2
<1>7. creds' = creds
  BY <1>1, <1>4, <1>6
<1>8. providers' \subseteq providers
  <2>1. \A id \in kept : id \in Ids
    BY DEF kept
  <2> QED
    BY <1>3, <1>4, <2>1
<1>9. ASSUME NEW p \in Providers, NEW id \in Ids, creds[p][id] # None
      PROVE  p \in providers'
  <2>1. credProviders[id] = p /\ p # None
    BY <1>1, <1>9, ConstantsAssumption
  <2> QED
    BY <1>3, <1>4, <2>1
<1> QED
  BY <1>5, <1>7, <1>8, <1>9

\* rebuild (scheduler.go:84-97) forgets the shards.
LEMMA StrategyStep ==
  ASSUME SchedInv, NEW s \in {"round_robin", "fill_first"}, SetStrategy(s)
  PROVE  SchedInv' /\ (RotationInv => RotationInv')
<1> DEFINE f == [id \in Ids |-> IF credProviders[id] = None THEN None
                                ELSE creds[credProviders[id]][id]]
<1>1. strategy' = s /\ Rebuild(f)
  BY DEF SetStrategy
<1>2. credProviders' = credProviders /\ creds' = creds /\ providers' \subseteq providers
      /\ \A p \in Providers, id \in Ids : creds[p][id] # None => p \in providers'
  <2> HIDE DEF f
  <2> QED
    BY <1>1, SnapshotFacts DEF f
<1>3. shards' = [p \in Providers |-> [k \in Keys |-> None]] /\ last' = NoPick /\ now' = now
  BY <1>1 DEF Rebuild
<1>4. PlacesOK'
  BY <1>2 DEF SchedInv, PlacesOK
<1>5. \A p \in Providers, k \in Keys : shards'[p][k] = None
  BY <1>3
<1>6. ShardsOK'
  BY <1>3, <1>5 DEF ShardsOK
<1>7. LastOK'
  BY <1>3 DEF LastOK, NoPick
<1>8. RotationInv'
  BY <1>5 DEF RotationInv
<1> QED
  BY <1>1, <1>3, <1>4, <1>6, <1>7, <1>8 DEF SchedInv

\* Time passes: an entry stays one that was right when it was taken.
LEMMA TickStep ==
  ASSUME SchedInv, Tick
  PROVE  SchedInv' /\ (RotationInv => RotationInv')
<1>1. /\ now' = now + 1 /\ last' = NoPick /\ strategy' = strategy
      /\ credProviders' = credProviders /\ providers' = providers
      /\ creds' = creds /\ shards' = shards
  BY DEF Tick
<1>2. now \in Nat \ {0}
  BY DEF SchedInv
<1>3. ShardsOK'
  BY <1>1, <1>2, LaterShard DEF ShardsOK, SchedInv
<1>4. LastOK'
  BY <1>1 DEF LastOK, NoPick
<1>5. PlacesOK'
  BY <1>1 DEF PlacesOK, SchedInv
<1>6. RotationInv => RotationInv'
  BY <1>1 DEF RotationInv
<1> QED
  BY <1>1, <1>2, <1>3, <1>4, <1>5, <1>6 DEF SchedInv

\* Remainders below the divisor.
LEMMA SmallMod ==
  ASSUME NEW s \in Nat \ {0}
  PROVE  /\ \A x \in 0..(s - 1) : x % s = x
         /\ s % s = 0
         /\ \A x \in 0..(s - 1), y \in 0..(s - 1) : (x - y) % s >= 0
         /\ \A x \in 0..(s - 1), y \in 0..(s - 1) : (x - y) % s = 0 => x = y
<1>1. \A x \in 0..(s - 1) : x % s = x
  OBVIOUS
<1>2. s % s = 0
  OBVIOUS
<1>3. ASSUME NEW x \in 0..(s - 1), NEW y \in 0..(s - 1)
      PROVE  (x - y) % s >= 0 /\ ((x - y) % s = 0 => x = y)
  <2>1. CASE x >= y
    <3>1. (x - y) % s = x - y
      BY <2>1
    <3> QED
      BY <2>1, <3>1
  <2>2. CASE x < y
    <3>1. (x - y) % s = x - y + s
      BY <2>2
    <3> QED
      BY <2>2, <3>1
  <2> QED
    BY <2>1, <2>2
<1> QED
  BY <1>1, <1>2, <1>3

\* A round robin that passes nobody over takes the one at the cursor, which
\* the current round has not served, and moves on to the next.
LEMMA AdvanceRotation ==
  ASSUME NEW sh \in Shard, RotationOK(sh), NEW n \in Priorities, Bucket(sh, n) # {},
         NEW id, id = RoundRobin(sh, n, {})
  PROVE  id \notin sh.round[n] /\ RotationOK(Advance(sh, n, id))
<1> DEFINE B == Bucket(sh, n)
           size == Cardinality(B)
           start == sh.cursor[n] % size
           new == Advance(sh, n, id)
           served == sh.round[n] \cup {id}
<1>1. size \in Nat \ {0}
  BY BucketIndex, FS_EmptySet
<1>2. sh.cursor[n] \in 0..size /\ sh.round[n] = {j \in B : Index(sh, n, j) < start}
  BY DEF RotationOK
<1>3. \A j \in B : Index(sh, n, j) \in 0..(size - 1)
  BY BucketIndex
<1>4. start \in 0..(size - 1)
  <2> HIDE DEF size
  <2> QED
    BY <1>1, <1>2
<1>5. id \in B /\ \A j \in B : Distance(sh, n, id) <= Distance(sh, n, j)
  <2>1. Matches(sh, n, {}) = B
    BY DEF Matches
  <2> QED
    BY <2>1, RoundRobinMatches
<1>6. Index(sh, n, id) = start
  <2>1. PICK j \in B : Index(sh, n, j) = start
    BY <1>4, IndexOnto
  <2>2. Distance(sh, n, id) = (Index(sh, n, id) - start) % size
        /\ Distance(sh, n, j) = (Index(sh, n, j) - start) % size
    BY DEF Distance
  <2> HIDE DEF B, size, start
  <2>3. (Index(sh, n, j) - start) % size = 0
    <3>1. Index(sh, n, j) - start = 0
      BY <1>4, <2>1
    <3> QED
      BY <1>1, <3>1
  <2>4. (Index(sh, n, id) - start) % size >= 0
    BY <1>1, <1>3, <1>4, <1>5, SmallMod
  <2>5. (Index(sh, n, id) - start) % size = 0
    <3>1. (Index(sh, n, id) - start) % size <= 0
      BY <1>5, <2>1, <2>2, <2>3
    <3>2. (Index(sh, n, id) - start) % size \in Int
      BY <1>1, <1>3, <1>4, <1>5
    <3> QED
      BY <2>4, <3>1, <3>2
  <2> QED
    BY <1>1, <1>3, <1>4, <1>5, <2>5, SmallMod
<1>7. id \notin sh.round[n]
  <2> HIDE DEF B, size, start
  <2> QED
    BY <1>2, <1>4, <1>6
<1>8. \A i, j \in B : Index(sh, n, i) = Index(sh, n, j) => i = j
  <2>1. \A j \in B : j \in Nat /\ Index(sh, n, j) \in Int
    <3>1. \A j \in B : j \in Nat
      BY ConstantsAssumption DEF Bucket
    <3> HIDE DEF B, size
    <3> QED
      BY <1>1, <1>3, <3>1
  <2>2. \A i, j \in B : i < j => Index(sh, n, i) < Index(sh, n, j)
    BY BucketIndex
  <2> HIDE DEF B
  <2> QED
    BY <2>1, <2>2
<1>9. served = {j \in B : Index(sh, n, j) < start + 1}
  <2> HIDE DEF B, size, start
  <2>1. \A j \in B : Index(sh, n, j) < start + 1 <=> Index(sh, n, j) < start \/ j = id
    BY <1>3, <1>4, <1>5, <1>6, <1>8
  <2> QED
    BY <1>2, <1>5, <2>1
<1>10. /\ new.ready = sh.ready
       /\ new.cursor = [sh.cursor EXCEPT ![n] = start + 1]
       /\ new.round = [sh.round EXCEPT ![n] = IF served = B THEN {} ELSE served]
  <2> HIDE DEF served, start
  <2> QED
    BY <1>6 DEF Advance, Shard, served
<1>11. \A m \in Priorities : Bucket(new, m) = Bucket(sh, m)
  <2> HIDE DEF new
  <2> QED
    BY <1>10 DEF Bucket
<1>12. \A m \in Priorities, j \in Ids : Index(new, m, j) = Index(sh, m, j)
  <2> HIDE DEF new
  <2> QED
    BY <1>11 DEF Index
<1>13. new.cursor[n] = start + 1 /\ new.round[n] = IF served = B THEN {} ELSE served
  <2> HIDE DEF new, start, served, B
  <2> QED
    BY <1>10 DEF Shard
<1>14. /\ new.cursor[n] \in 0..size
       /\ new.round[n] = {j \in B : Index(sh, n, j) < new.cursor[n] % size}
  <2>1. CASE start + 1 = size
    <3> HIDE DEF new, start, size, served, B
    <3>1. new.cursor[n] % size = 0
      BY <1>1, <1>13, <2>1, SmallMod
    <3>2. served = B
      BY <1>1, <1>3, <1>9, <2>1
    <3>3. {j \in B : Index(sh, n, j) < 0} = {}
      BY <1>1, <1>3
    <3> QED
      BY <1>1, <1>13, <2>1, <3>1, <3>2, <3>3
  <2>2. CASE start + 1 # size
    <3>1. start + 1 \in 0..(size - 1)
      <4> HIDE DEF start, size
      <4> QED
        BY <1>1, <1>4, <2>2
    <3>2. PICK j \in B : Index(sh, n, j) = start + 1
      BY <3>1, IndexOnto
    <3> HIDE DEF new, start, size, served, B
    <3>3. served # B
      BY <1>4, <1>9, <3>2
    <3>4. (start + 1) % size = start + 1
      BY <1>1, <3>1, SmallMod
    <3> QED
      BY <1>1, <1>9, <1>13, <3>1, <3>3, <3>4
  <2> QED
    BY <2>1, <2>2
<1>15. ASSUME NEW m \in Priorities, Bucket(new, m) # {}
       PROVE  /\ new.cursor[m] \in 0..Cardinality(Bucket(new, m))
              /\ new.round[m] = {j \in Bucket(new, m) :
                      Index(new, m, j) < new.cursor[m] % Cardinality(Bucket(new, m))}
  <2>1. Bucket(new, m) = Bucket(sh, m) /\ Bucket(new, m) \subseteq Ids
    BY <1>11 DEF Bucket
  <2>2. \A j \in Ids : Index(new, m, j) = Index(sh, m, j)
    BY <1>12
  <2>3. CASE m = n
    <3> HIDE DEF new
    <3> QED
      BY <1>14, <2>1, <2>2, <2>3
  <2>4. CASE m # n
    <3> HIDE DEF new
    <3>1. new.cursor[m] = sh.cursor[m] /\ new.round[m] = sh.round[m]
      BY <1>10, <2>4 DEF Shard
    <3> QED
      BY <1>15, <2>1, <2>2, <3>1 DEF RotationOK
  <2> QED
    BY <2>3, <2>4
<1> HIDE DEF new
<1>16. RotationOK(new)
  BY <1>15 DEF RotationOK
<1> QED
  BY <1>7, <1>16 DEF new

\* ensureModelLocked: the shard a pick works on is right, holds nobody past
\* its retry time, and is the shard that was there unless its buckets changed.
LEMMA EnsuredShard ==
  ASSUME SchedInv, NEW p \in Providers, NEW k \in Keys
  PROVE  /\ EnsureModel(p, k) \in Shard
         /\ ShardOK(EnsureModel(p, k), creds[p], k, now)
         /\ Fresh(EnsureModel(p, k), now)
         /\ RotationInv => RotationOK(EnsureModel(p, k))
         /\ shards[p][k] # None =>
              EnsureModel(p, k) = shards[p][k] \/ EnsureModel(p, k).ready # shards[p][k].ready
<1>1. creds[p] \in MetaMap /\ now \in Nat \ {0}
  BY InvFacts
<1>2. CASE shards[p][k] # None
  <2>1. ShardOK(shards[p][k], creds[p], k, now)
    BY <1>2, InvFacts
  <2>2. EnsureModel(p, k) = PromoteExpired(shards[p][k], k, now)
    BY <1>2 DEF EnsureModel
  <2>3. /\ ShardOK(PromoteExpired(shards[p][k], k, now), creds[p], k, now)
        /\ RotationOK(shards[p][k]) => RotationOK(PromoteExpired(shards[p][k], k, now))
        /\ Fresh(PromoteExpired(shards[p][k], k, now), now)
        /\ \/ PromoteExpired(shards[p][k], k, now) = shards[p][k]
           \/ PromoteExpired(shards[p][k], k, now).ready # shards[p][k].ready
    BY <1>1, <2>1, PromoteShard
  <2> QED
    BY <1>2, <2>2, <2>3 DEF RotationInv, ShardOK
<1>3. CASE shards[p][k] = None
  <2>1. EnsureModel(p, k) = BuildShard(creds[p], k, now)
    BY <1>3 DEF EnsureModel
  <2>2. /\ ShardOK(BuildShard(creds[p], k, now), creds[p], k, now)
        /\ RotationOK(BuildShard(creds[p], k, now))
        /\ Fresh(BuildShard(creds[p], k, now), now)
    BY <1>1, BuiltShard
  <2> QED
    BY <1>3, <2>1, <2>2 DEF ShardOK
<1> QED
  BY <1>2, <1>3

\* A pick that finds somebody finds a match of the best bucket.
LEMMA PickedFacts ==
  ASSUME SchedInv, NEW p \in Providers, NEW m \in Models, NEW tried,
         PickFound(p, m, tried),
         NEW sh, sh = EnsureModel(p, ShardKey(m))
  PROVE  \E n \in BestPriorities(sh, tried) : \E id \in Matches(sh, n, tried) :
           /\ strategy = "round_robin" => id = RoundRobin(sh, n, tried)
           /\ shards' = [shards EXCEPT ![p][ShardKey(m)] =
                IF strategy = "round_robin" THEN Advance(sh, n, id) ELSE sh]
           /\ last' = [provider |-> p, model |-> m, tried |-> tried, outcome |-> "picked",
                       cred |-> sh.ready[n][id]]
<1>1. PICK n \in BestPriorities(sh, tried) :
        LET id == IF strategy = "round_robin" THEN RoundRobin(sh, n, tried)
                  ELSE FillFirst(sh, n, tried)
        IN /\ shards' = [shards EXCEPT ![p][ShardKey(m)] =
                IF strategy = "round_robin" THEN Advance(sh, n, id) ELSE sh]
           /\ Answer(p, m, tried, "picked", sh.ready[n][id])
  BY DEF PickFound
<1>2. Matches(sh, n, tried) # {} /\ n \in Priorities
  BY DEF BestPriorities
<1>3. ShardKey(m) \in Keys
  BY DEF Keys
<1>4. sh \in Shard
  BY <1>3, EnsuredShard
<1> DEFINE id == IF strategy = "round_robin" THEN RoundRobin(sh, n, tried)
                 ELSE FillFirst(sh, n, tried)
<1>5. id \in Matches(sh, n, tried)
  BY <1>2, <1>4, RoundRobinMatches, FillFirstMatches
<1>6. /\ shards' = [shards EXCEPT ![p][ShardKey(m)] =
           IF strategy = "round_robin" THEN Advance(sh, n, id) ELSE sh]
      /\ last' = [provider |-> p, model |-> m, tried |-> tried, outcome |-> "picked",
                  cred |-> sh.ready[n][id]]
  BY <1>1 DEF Answer
<1>7. strategy = "round_robin" => id = RoundRobin(sh, n, tried)
  OBVIOUS
<1> HIDE DEF id
<1> QED
  BY <1>5, <1>6, <1>7

\* A pick (scheduler.go:174-237) keeps the invariant, and without a tried set
\* the rounds as well.
LEMMA PickStep ==
  ASSUME SchedInv, NEW p \in Providers, NEW m \in Models, NEW tried \in TriedSets,
         Pick(p, m, tried)
  PROVE  SchedInv' /\ (tried = {} /\ RotationInv => RotationInv')
<1> DEFINE k == ShardKey(m)
           sh == EnsureModel(p, k)
<1>1. k \in Keys
  BY DEF Keys
<1>2. /\ now' = now /\ strategy' = strategy /\ credProviders' = credProviders
      /\ providers' = providers /\ creds' = creds
  BY DEF Pick
<1>3. PlacesOK'
  BY <1>2 DEF SchedInv, PlacesOK
<1>4. tried \in SUBSET Ids
  BY SchedulerAssumption
<1>5. shards \in [Providers -> [Keys -> Shard \cup {None}]]
  BY DEF SchedInv, ShardsOK
<1>6. /\ sh \in Shard /\ ShardOK(sh, creds[p], k, now)
      /\ RotationInv => RotationOK(sh)
  BY <1>1, EnsuredShard
<1> HIDE DEF k, sh
\* It is enough to know what becomes of the one shard.
<1>7. ASSUME NEW new, shards' = [shards EXCEPT ![p][k] = new],
             ShardOK(new, creds[p], k, now)
      PROVE  ShardsOK' /\ (RotationInv /\ RotationOK(new) => RotationInv')
  <2>1. new \in Shard
    BY <1>7 DEF ShardOK
  <2>2. shards' \in [Providers -> [Keys -> Shard \cup {None}]]
    BY <1>1, <1>5, <1>7, <2>1
  <2>3. \A q \in Providers, j \in Keys :
          shards'[q][j] = IF q = p /\ j = k THEN new ELSE shards[q][j]
    BY <1>1, <1>5, <1>7
  <2>4. \A q \in Providers, j \in Keys : shards'[q][j] # None =>
          ShardOK(shards'[q][j], creds'[q], j, now')
    <3>1. \A q \in Providers, j \in Keys : shards[q][j] # None =>
            ShardOK(shards[q][j], creds[q], j, now)
      BY InvFacts
    <3> QED
      BY <1>2, <1>7, <2>3, <3>1
  <2> QED
    BY <2>2, <2>3, <2>4 DEF ShardsOK, RotationInv
<1>8. CASE p \in providers /\ PickFound(p, m, tried)
  <2>0. PICK n \in BestPriorities(sh, tried) : \E id \in Matches(sh, n, tried) :
           /\ strategy = "round_robin" => id = RoundRobin(sh, n, tried)
           /\ shards' = [shards EXCEPT ![p][k] =
                IF strategy = "round_robin" THEN Advance(sh, n, id) ELSE sh]
           /\ last' = [provider |-> p, model |-> m, tried |-> tried, outcome |-> "picked",
                       cred |-> sh.ready[n][id]]
    BY <1>8, PickedFacts DEF sh, k
  <2>1. PICK id \in Matches(sh, n, tried) :
           /\ strategy = "round_robin" => id = RoundRobin(sh, n, tried)
           /\ shards' = [shards EXCEPT ![p][k] =
                IF strategy = "round_robin" THEN Advance(sh, n, id) ELSE sh]
           /\ last' = [provider |-> p, model |-> m, tried |-> tried, outcome |-> "picked",
                       cred |-> sh.ready[n][id]]
    BY <2>0
  <2>2. n \in Priorities /\ id \in Bucket(sh, n) /\ id \in Ids
    BY DEF BestPriorities, Matches, Bucket
  <2> DEFINE new == IF strategy = "round_robin" THEN Advance(sh, n, id) ELSE sh
  <2>3. ShardOK(new, creds[p], k, now)
    BY <1>6, <2>2, AdvanceShard
  <2>4. tried = {} /\ RotationInv => RotationOK(new)
    <3>1. Bucket(sh, n) # {}
      BY <2>2
    <3> QED
      BY <1>6, <2>1, <2>2, <3>1, AdvanceRotation
  <2>5. shards' = [shards EXCEPT ![p][k] = new]
    BY <2>1
  <2> HIDE DEF new
  <2>6. ShardsOK' /\ (RotationInv /\ RotationOK(new) => RotationInv')
    BY <1>7, <2>3, <2>5
  <2>7. LastOK'
    <3>1. sh.ready[n][id] \in Credential \cup {None}
      BY <1>6, <2>2 DEF Shard
    <3> QED
      BY <1>4, <2>1, <3>1 DEF LastOK
  <2> QED
    BY <1>2, <1>3, <2>4, <2>6, <2>7 DEF SchedInv
<1>9. CASE p \in providers /\ PickFails(p, m, tried)
  <2>1. /\ shards' = [shards EXCEPT ![p][k] = sh]
        /\ last' = [provider |-> p, model |-> m, tried |-> tried,
                    outcome |-> Unavailable(sh, tried), cred |-> None]
    BY <1>9 DEF PickFails, Answer, sh, k
  <2>2. ShardsOK' /\ (RotationInv /\ RotationOK(sh) => RotationInv')
    BY <1>6, <1>7, <2>1
  <2>3. Unavailable(sh, tried) \in {"not_found", "cooldown", "unavailable"}
    BY DEF Unavailable
  <2>4. LastOK'
    BY <1>4, <2>1, <2>3 DEF LastOK
  <2> QED
    BY <1>2, <1>3, <1>6, <2>2, <2>4 DEF SchedInv
<1>10. CASE p \notin providers /\ PickUnknownProvider(p, m, tried)
  <2>1. /\ shards' = shards
        /\ last' = [provider |-> p, model |-> m, tried |-> tried, outcome |-> "not_found",
                    cred |-> None]
    BY <1>10 DEF PickUnknownProvider, Answer
  <2>2. ShardsOK' /\ (RotationInv => RotationInv')
    BY <1>2, <2>1 DEF SchedInv, ShardsOK, RotationInv
  <2>3. LastOK'
    BY <1>4, <2>1 DEF LastOK
  <2> QED
    BY <1>2, <1>3, <2>2, <2>3 DEF SchedInv
<1> QED
  BY <1>8, <1>9, <1>10 DEF Pick

\* Every step keeps the invariant.
LEMMA InvStep == SchedInv /\ [Next]_vars => SchedInv'
<1> SUFFICES ASSUME SchedInv, [Next]_vars
             PROVE  SchedInv'
  OBVIOUS
<1>1. ASSUME NEW c \in Inputs, Upsert(c)
      PROVE  SchedInv'
  <2>1. CASE IsDisabled(c)
    <3>1. Remove(c.id) /\ c.id \in Ids
      BY <1>1, <2>1, SchedulerAssumption DEF Upsert, Credential
    <3> QED
      BY <3>1, RemoveStep
  <2>2. CASE ~IsDisabled(c)
    BY <1>1, <2>2, PlaceStep DEF Upsert
  <2> QED
    BY <2>1, <2>2
<1>2. ASSUME NEW id \in Ids, Remove(id)
      PROVE  SchedInv'
  BY <1>2, RemoveStep
<1>3. ASSUME NEW s \in {"round_robin", "fill_first"}, SetStrategy(s)
      PROVE  SchedInv'
  BY <1>3, StrategyStep
<1>4. ASSUME NEW p \in Providers, NEW m \in Models, NEW tried \in TriedSets, Pick(p, m, tried)
      PROVE  SchedInv'
  BY <1>4, PickStep
<1>5. CASE Tick
  BY <1>5, TickStep
<1>6. CASE UNCHANGED vars
  BY <1>6 DEF vars, SchedInv, PlacesOK, ShardsOK, LastOK
<1> QED
  BY <1>1, <1>2, <1>3, <1>4, <1>5, <1>6 DEF Next

\* The invariant holds in every behaviour.
LEMMA SchedulerInvariant == Spec => []SchedInv
<1>1. Init => SchedInv
  BY InitInv
<1> QED
  BY <1>1, InvStep, PTL DEF Spec

\* The scheduler's maps hold what they are declared to hold
\* (scheduler.go:26-58).
THEOREM SchedulerTypeCorrect == Spec => []TypeOK
<1>1. SchedInv => TypeOK
  <2> SUFFICES ASSUME SchedInv PROVE TypeOK
    OBVIOUS
  <2>1. MetaMap \subseteq [Ids -> Credential \cup {None}]
    BY SchedulerAssumption DEF MetaMap
  <2>2. creds \in [Providers -> [Ids -> Credential \cup {None}]]
    BY <2>1 DEF SchedInv, PlacesOK
  <2> QED
    BY <2>2 DEF SchedInv, PlacesOK, ShardsOK, LastOK, TypeOK
<1> QED
  BY <1>1, SchedulerInvariant, PTL

\* Whatever is upserted, removed, rebuilt and picked, credProviders, the
\* providers' credentials and the shards' entries name the same credentials
\* (upsertLocked, removeLocked: scheduler.go:116-172).
THEOREM PlacesAlwaysAgree == Spec => []PlacementAgrees
<1>1. SchedInv => PlacementAgrees
  <2> SUFFICES ASSUME SchedInv, NEW p \in Providers, NEW id \in Ids
               PROVE  /\ (creds[p][id] # None) <=> (credProviders[id] = p)
                      /\ creds[p][id] # None =>
                           /\ creds[p][id].id = id /\ creds[p][id].provider = p
                           /\ ~IsDisabled(creds[p][id]) /\ p \in providers
                      /\ \A k \in Keys : shards[p][k] # None =>
                           IF creds[p][id] = None THEN shards[p][k].entries[id] = None
                           ELSE /\ shards[p][k].entries[id] # None
                                /\ shards[p][k].entries[id].cred = creds[p][id]
    BY DEF PlacementAgrees
  <2>1. ASSUME NEW k \in Keys, shards[p][k] # None
        PROVE  /\ creds[p][id] = None => shards[p][k].entries[id] = None
               /\ creds[p][id] # None => /\ shards[p][k].entries[id] # None
                                         /\ shards[p][k].entries[id].cred = creds[p][id]
    <3>1. /\ EntriesOK(shards[p][k].entries, creds[p], k, now)
          /\ creds[p] \in MetaMap /\ now \in Nat
      BY <2>1, InvFacts DEF ShardOK
    <3> QED
      BY <3>1, EntriesFacts
  <2>2. creds[p][id] # None => creds[p][id].id = id
    BY InvFacts
  <2> QED
    BY <2>1, <2>2 DEF SchedInv, PlacesOK
<1> QED
  BY <1>1, SchedulerInvariant, PTL

\* The buckets and the blocked lists index the entries exactly, although
\* upsertEntryLocked skips rebuilding them (scheduler.go:290-294).
THEOREM IndexesAlwaysAgree == Spec => []IndexesAgree
<1>1. SchedInv => IndexesAgree
  <2> SUFFICES ASSUME SchedInv, NEW p \in Providers, NEW k \in Keys, shards[p][k] # None,
                      NEW sh, sh = shards[p][k]
               PROVE  /\ \A n \in Priorities : Bucket(sh, n) =
                           {id \in Listed(sh) : sh.entries[id].state = "ready"
                                                /\ sh.entries[id].cred.priority = n}
                      /\ sh.blocked = {id \in Listed(sh) :
                                         sh.entries[id].state \in {"cooldown", "blocked"}}
    BY DEF IndexesAgree
  <2>1. IndexedOK(sh)
    BY InvFacts DEF ShardOK
  <2> QED
    BY <2>1 DEF IndexedOK, Bucket, Listed
<1> QED
  BY <1>1, SchedulerInvariant, PTL

\* No entry is lost in a shard: a ready one is not blocked, and a held one
\* will be looked at again at a time its credential names (entryFor and
\* promoteExpiredLocked, scheduler.go:283-328).
THEOREM NobodyHeldForGood == Spec => []HeldUntilRetryOnly
<1>1. SchedInv => HeldUntilRetryOnly
  <2> SUFFICES ASSUME SchedInv, NEW p \in Providers, NEW k \in Keys, shards[p][k] # None,
                      NEW id \in Listed(shards[p][k]),
                      NEW e, e = shards[p][k].entries[id]
               PROVE  /\ e.state = "ready" => BlockedForModel(e.cred, k, now).reason = "none"
                      /\ e.state \in {"cooldown", "blocked"} =>
                           \E s \in {e.cred} \cup StateFor(e.cred, k) :
                             /\ s.unavailable
                             /\ e.nextRetryAt \in {s.nextRetryAfter, s.quota.nextRecoverAt} \ {0}
    BY DEF HeldUntilRetryOnly
  <2>1. /\ EntriesOK(shards[p][k].entries, creds[p], k, now)
        /\ creds[p] \in MetaMap /\ now \in Nat /\ id \in Ids /\ e # None
    BY InvFacts DEF ShardOK, Listed
  <2>2. e.cred = creds[p][id] /\ creds[p][id] # None /\ creds[p][id] \in Credential
    BY <2>1, EntriesFacts
  <2>3. PICK u \in 1..now : e = EntryFor(creds[p][id], k, u)
    BY <2>1, <2>2 DEF EntriesOK
  <2> QED
    BY <2>1, <2>2, <2>3, EntryFacts
<1> QED
  BY <1>1, SchedulerInvariant, PTL

\* Where callers pass no tried set, as authmanaged.go:71 does, the cursors
\* and the rounds agree in every shard.
LEMMA RotationInvariant ==
  ASSUME TriedSets \subseteq {{}}
  PROVE  Spec => []RotationInv
<1>1. SchedInv /\ RotationInv /\ [Next]_vars => RotationInv'
  <2> SUFFICES ASSUME SchedInv, RotationInv, [Next]_vars
               PROVE  RotationInv'
    OBVIOUS
  <2>1. ASSUME NEW c \in Inputs, Upsert(c)
        PROVE  RotationInv'
    <3>1. CASE IsDisabled(c)
      <4>1. Remove(c.id) /\ c.id \in Ids
        BY <2>1, <3>1, SchedulerAssumption DEF Upsert, Credential
      <4> QED
        BY <4>1, RemoveStep
    <3>2. CASE ~IsDisabled(c)
      BY <2>1, <3>2, PlaceStep DEF Upsert
    <3> QED
      BY <3>1, <3>2
  <2>2. ASSUME NEW id \in Ids, Remove(id)
        PROVE  RotationInv'
    BY <2>2, RemoveStep
  <2>3. ASSUME NEW s \in {"round_robin", "fill_first"}, SetStrategy(s)
        PROVE  RotationInv'
    BY <2>3, StrategyStep
  <2>4. ASSUME NEW p \in Providers, NEW m \in Models, NEW tried \in TriedSets, Pick(p, m, tried)
        PROVE  RotationInv'
    BY <2>4, PickStep
  <2>5. CASE Tick
    BY <2>5, TickStep
  <2>6. CASE UNCHANGED vars
    BY <2>6 DEF vars, RotationInv
  <2> QED
    BY <2>1, <2>2, <2>3, <2>4, <2>5, <2>6 DEF Next
<1>2. Init => RotationInv
  BY InitInv
<1> QED
  BY <1>1, <1>2, SchedulerInvariant, PTL DEF Spec

\* Round robin serves everybody in a bucket once before it serves anybody
\* twice (RoundRobinSelector.PickFromBucket, selector.go:50-62), whatever
\* the size of the bucket, as long as the bucket is not rebuilt.
THEOREM RotationIsEven ==
  ASSUME TriedSets \subseteq {{}}
  PROVE  Spec => EvenRotation
<1> DEFINE Even ==
      \A p \in Providers, k \in Keys, n \in Priorities :
       /\ shards[p][k] # None /\ shards'[p][k] # None
       /\ strategy = "round_robin" /\ last'.outcome = "picked"
       /\ last'.provider = p /\ ShardKey(last'.model) = k /\ last'.cred.priority = n
       /\ shards'[p][k].ready = shards[p][k].ready
       => last'.cred.id \notin shards[p][k].round[n]
<1>1. SchedInv /\ RotationInv /\ [Next]_vars => [Even]_vars
  <2> SUFFICES ASSUME SchedInv, RotationInv, Next,
                      NEW p \in Providers, NEW k \in Keys, NEW n \in Priorities,
                      shards[p][k] # None, shards'[p][k] # None,
                      strategy = "round_robin", last'.outcome = "picked",
                      last'.provider = p, ShardKey(last'.model) = k,
                      last'.cred.priority = n,
                      shards'[p][k].ready = shards[p][k].ready
               PROVE  last'.cred.id \notin shards[p][k].round[n]
    OBVIOUS
  <2>1. last' # NoPick
    BY DEF NoPick
  <2>2. PICK q \in Providers, m \in Models, tried \in TriedSets : Pick(q, m, tried)
    BY <2>1 DEF Next, Upsert, Place, Remove, SetStrategy, Rebuild, Tick
  <2> DEFINE sh == EnsureModel(q, ShardKey(m))
  <2>3. PickFound(q, m, tried)
    <3>1. ~PickUnknownProvider(q, m, tried)
      BY DEF PickUnknownProvider, Answer
    <3>2. ~PickFails(q, m, tried)
      <4>1. Unavailable(sh, tried) # "picked"
        BY DEF Unavailable
      <4> HIDE DEF sh
      <4> QED
        BY <4>1 DEF PickFails, Answer, sh
    <3> QED
      BY <2>2, <3>1, <3>2 DEF Pick
  <2>4. PICK h \in BestPriorities(sh, tried) : \E id \in Matches(sh, h, tried) :
           /\ strategy = "round_robin" => id = RoundRobin(sh, h, tried)
           /\ shards' = [shards EXCEPT ![q][ShardKey(m)] =
                IF strategy = "round_robin" THEN Advance(sh, h, id) ELSE sh]
           /\ last' = [provider |-> q, model |-> m, tried |-> tried, outcome |-> "picked",
                       cred |-> sh.ready[h][id]]
    BY <2>3, PickedFacts
  <2>5. PICK id \in Matches(sh, h, tried) :
           /\ strategy = "round_robin" => id = RoundRobin(sh, h, tried)
           /\ shards' = [shards EXCEPT ![q][ShardKey(m)] =
                IF strategy = "round_robin" THEN Advance(sh, h, id) ELSE sh]
           /\ last' = [provider |-> q, model |-> m, tried |-> tried, outcome |-> "picked",
                       cred |-> sh.ready[h][id]]
    BY <2>4
  <2> HIDE DEF sh
  <2>6. p = q /\ k = ShardKey(m) /\ tried = {} /\ id = RoundRobin(sh, h, tried)
    BY <2>5
  <2>7. /\ sh \in Shard /\ ShardOK(sh, creds[p], k, now) /\ RotationOK(sh)
        /\ sh = shards[p][k] \/ sh.ready # shards[p][k].ready
    BY <2>6, EnsuredShard DEF sh
  <2>8. h \in Priorities /\ id \in Bucket(sh, h) /\ id \in Ids
    BY DEF BestPriorities, Matches, Bucket
  <2>9. shards'[p][k] = Advance(sh, h, id)
    BY <2>5, <2>6 DEF SchedInv, ShardsOK
  <2>10. sh = shards[p][k]
    BY <2>7, <2>8, <2>9, AdvanceShard
  <2>11. last'.cred.id = id /\ last'.cred.priority = h
    BY <2>5, <2>7, <2>8 DEF ShardOK, IndexedOK, Bucket
  <2>12. id \notin sh.round[h]
    BY <2>6, <2>7, <2>8, AdvanceRotation
  <2> QED
    BY <2>10, <2>11, <2>12
<1>2. Spec => [][Even]_vars
  <2> HIDE DEF Even
  <2> QED
    BY <1>1, SchedulerInvariant, RotationInvariant, PTL DEF Spec
<1> QED
  BY <1>2 DEF EvenRotation

-----------------------------------------------------------------------------
(* The scheduler implements the pool *)

\* The pool and the answer the scheduler's state stands for.
PoolNow == [id \in Ids |-> IF credProviders[id] = None THEN None
                           ELSE creds[credProviders[id]][id]]
AnswerNow == [provider |-> last.provider, model |-> last.model, tried |-> last.tried,
              outcome |-> last.outcome,
              id |-> IF last.cred = None THEN None ELSE last.cred.id]

\* The rules of the pool are the rules of the scheduler.
LEMMA SameRules ==
  /\ \A c, k, t : Pool!BlockedForModel(c, k, t) = BlockedForModel(c, k, t)
  /\ \A c, k : Pool!StateFor(c, k) = StateFor(c, k)
  /\ \A m : Pool!ShardKey(m) = ShardKey(m)
  /\ \A c : Pool!Scheduled(c) = IF IsDisabled(c) THEN None ELSE c
<1>1. \A c : Pool!IsDisabled(c) <=> IsDisabled(c)
  BY DEF Pool!IsDisabled, IsDisabled
<1>2. \A c : Pool!KnownModels(c) = KnownModels(c)
  BY DEF Pool!KnownModels, KnownModels
<1>3. \A m : Pool!CanonicalModelKey(m) = CanonicalModelKey(m)
  BY DEF Pool!CanonicalModelKey, CanonicalModelKey
<1>4. \A c, k : Pool!StateFor(c, k) = StateFor(c, k)
  BY <1>2, <1>3 DEF Pool!StateFor, StateFor
<1>5. Pool!NotBlocked = NotBlocked
  BY DEF Pool!NotBlocked, NotBlocked
<1>6. \A s, t : Pool!Hold(s, t) = Hold(s, t)
  BY <1>5 DEF Pool!Hold, Hold
<1>7. \A c, k, t : Pool!BlockedForModel(c, k, t) = BlockedForModel(c, k, t)
  <2> SUFFICES ASSUME NEW c, NEW k, NEW t
               PROVE  Pool!BlockedForModel(c, k, t) = BlockedForModel(c, k, t)
    OBVIOUS
  <2> DEFINE s == CHOOSE x \in StateFor(c, k) : TRUE
             z == CHOOSE x \in Pool!StateFor(c, k) : TRUE
  <2>1. Pool!StateFor(c, k) = StateFor(c, k)
    BY <1>4
  <2>2. z = s
    BY <2>1
  <2>3. Pool!BlockedForModel(c, k, t) =
          IF Pool!IsDisabled(c) THEN [reason |-> "disabled", next |-> 0]
          ELSE IF k # <<>> /\ Pool!KnownModels(c) # {}
          THEN IF Pool!StateFor(c, k) = {} THEN Pool!NotBlocked
               ELSE IF z.status = "disabled" THEN [reason |-> "disabled", next |-> 0]
                    ELSE Pool!Hold(z, t)
          ELSE Pool!Hold(c, t)
    BY DEF Pool!BlockedForModel
  <2>4. BlockedForModel(c, k, t) =
          IF IsDisabled(c) THEN [reason |-> "disabled", next |-> 0]
          ELSE IF k # <<>> /\ KnownModels(c) # {}
          THEN IF StateFor(c, k) = {} THEN NotBlocked
               ELSE IF s.status = "disabled" THEN [reason |-> "disabled", next |-> 0]
                    ELSE Hold(s, t)
          ELSE Hold(c, t)
    BY DEF BlockedForModel
  <2> HIDE DEF s, z
  <2> QED
    BY <1>1, <1>2, <1>5, <1>6, <2>1, <2>2, <2>3, <2>4
<1>8. \A m : Pool!ShardKey(m) = ShardKey(m)
  BY <1>3 DEF Pool!ShardKey, ShardKey
<1>9. \A c : Pool!Scheduled(c) = IF IsDisabled(c) THEN None ELSE c
  BY <1>1 DEF Pool!Scheduled
<1> QED
  BY <1>4, <1>7, <1>8, <1>9

\* Who is in the pool, and with which credential.
LEMMA PoolFacts ==
  ASSUME SchedInv, NEW id \in Ids, NEW p \in Providers
  PROVE  /\ creds[p][id] # None => /\ PoolNow[id] = creds[p][id] /\ PoolNow[id] # None
                                   /\ PoolNow[id].provider = p /\ PoolNow[id] \in Credential
                                   /\ PoolNow[id].priority \in Priorities
         /\ PoolNow[id] # None /\ PoolNow[id].provider = p => creds[p][id] # None
<1>1. /\ credProviders[id] \in Providers \cup {None}
      /\ \A q \in Providers : /\ creds[q][id] # None <=> credProviders[id] = q
                              /\ creds[q][id] # None => creds[q][id].provider = q
  BY DEF SchedInv, PlacesOK
<1>2. PoolNow[id] = IF credProviders[id] = None THEN None ELSE creds[credProviders[id]][id]
  BY DEF PoolNow
<1>3. creds[p][id] # None => creds[p][id] \in Inputs /\ creds[p][id] \in Credential
  BY InvFacts
<1> QED
  BY <1>1, <1>2, <1>3, ConstantsAssumption DEF Priorities

\* An index that fits the provider's credentials serves only credentials
\* that nothing blocks, and offers every one that is free.
LEMMA ShardServes ==
  ASSUME SchedInv, NEW p \in Providers, NEW k, NEW tried, NEW sh,
         ShardOK(sh, creds[p], k, now), Fresh(sh, now)
  PROVE  /\ \A n \in Priorities, id \in Ids : id \in Matches(sh, n, tried) =>
              /\ id \in Pool!Servable(p, k, tried)
              /\ PoolNow[id].priority = n
         /\ \A id \in Pool!Free(p, k, tried) :
              /\ id \in Ids /\ PoolNow[id].priority \in Priorities
              /\ id \in Matches(sh, PoolNow[id].priority, tried)
         /\ Pool!Candidates(p, tried) = Listed(sh) \ tried
<1>1. /\ now \in Nat /\ creds[p] \in MetaMap /\ sh \in Shard
      /\ EntriesOK(sh.entries, creds[p], k, now) /\ IndexedOK(sh)
  BY InvFacts DEF ShardOK
<1>2. ASSUME NEW id \in Ids
      PROVE  /\ sh.entries[id] # None <=> creds[p][id] # None
             /\ sh.entries[id] # None =>
                  /\ sh.entries[id] \in Entry /\ sh.entries[id].cred = PoolNow[id]
                  /\ PoolNow[id] # None /\ PoolNow[id].provider = p
                  /\ PoolNow[id] \in Credential /\ PoolNow[id].priority \in Priorities
                  /\ \E u \in 1..now : sh.entries[id] = EntryFor(PoolNow[id], k, u)
             /\ PoolNow[id] # None /\ PoolNow[id].provider = p => sh.entries[id] # None
  <2>1. /\ sh.entries[id] # None <=> creds[p][id] # None
        /\ sh.entries[id] # None => sh.entries[id] \in Entry /\ sh.entries[id].cred = creds[p][id]
    BY <1>1, EntriesFacts
  <2>2. creds[p][id] # None => \E u \in 1..now : sh.entries[id] = EntryFor(creds[p][id], k, u)
    BY <1>1 DEF EntriesOK
  <2> QED
    BY <2>1, <2>2, PoolFacts
<1>3. Pool!Candidates(p, tried) =
        {id \in Ids \ tried : PoolNow[id] # None /\ PoolNow[id].provider = p}
  BY DEF Pool!Candidates, PoolNow
<1>4. Pool!Candidates(p, tried) = Listed(sh) \ tried
  BY <1>2, <1>3 DEF Listed
<1>5. Pool!Servable(p, k, tried) =
        {id \in Pool!Candidates(p, tried) : BlockedForModel(PoolNow[id], k, now).reason = "none"}
  BY SameRules DEF Pool!Servable, PoolNow
<1>6. Pool!Free(p, k, tried) =
        {id \in Pool!Servable(p, k, tried) :
           \A s \in {PoolNow[id]} \cup StateFor(PoolNow[id], k) : s.quota.nextRecoverAt <= now}
  BY SameRules DEF Pool!Free, PoolNow
<1>7. ASSUME NEW n \in Priorities, NEW id \in Ids, id \in Matches(sh, n, tried)
      PROVE  id \in Pool!Servable(p, k, tried) /\ PoolNow[id].priority = n
  <2>1. /\ sh.entries[id] # None /\ sh.entries[id].state = "ready"
        /\ sh.entries[id].cred.priority = n /\ id \notin tried
    BY <1>1, <1>7 DEF Matches, Bucket, IndexedOK
  <2>2. PICK u \in 1..now : sh.entries[id] = EntryFor(PoolNow[id], k, u)
    BY <1>2, <2>1
  <2>3. BlockedForModel(PoolNow[id], k, now).reason = "none"
    BY <1>1, <1>2, <2>1, <2>2, EntryFacts
  <2>4. id \in Pool!Candidates(p, tried)
    BY <1>4, <2>1 DEF Listed
  <2> QED
    BY <1>2, <1>5, <2>1, <2>3, <2>4
<1>8. ASSUME NEW id \in Pool!Free(p, k, tried)
      PROVE  /\ id \in Ids /\ PoolNow[id].priority \in Priorities
             /\ id \in Matches(sh, PoolNow[id].priority, tried)
  <2>1. /\ id \in Ids /\ id \notin tried /\ sh.entries[id] # None
        /\ BlockedForModel(PoolNow[id], k, now).reason = "none"
        /\ \A s \in {PoolNow[id]} \cup StateFor(PoolNow[id], k) : s.quota.nextRecoverAt <= now
    BY <1>4, <1>5, <1>6 DEF Listed
  <2>2. PICK u \in 1..now : sh.entries[id] = EntryFor(PoolNow[id], k, u)
    BY <1>2, <2>1
  <2>3. sh.entries[id].state # "disabled"
    BY <1>1, <1>2, <2>1, <2>2, EntryFacts
  <2>4. sh.entries[id].state \notin {"cooldown", "blocked"}
    <3>1. SUFFICES ASSUME sh.entries[id].state \in {"cooldown", "blocked"} PROVE FALSE
      OBVIOUS
    <3>2. sh.entries[id].nextRetryAt > now
      BY <2>1, <3>1 DEF Fresh
    <3>3. PICK s \in {PoolNow[id]} \cup StateFor(PoolNow[id], k) : s.quota.nextRecoverAt > now
      BY <1>1, <1>2, <2>1, <2>2, <3>1, <3>2, EntryFacts
    <3>4. s.quota.nextRecoverAt \in Nat
      <4>1. PoolNow[id] \in Credential /\ StateFor(PoolNow[id], k) \subseteq ModelState
        BY <1>2, <2>1, StateForType
      <4> QED
        BY <4>1 DEF Credential, ModelState, Quota
    <3> QED
      BY <1>1, <2>1, <3>3, <3>4
  <2>5. sh.entries[id].state = "ready"
    BY <1>2, <2>1, <2>3, <2>4 DEF Entry, EntryStates
  <2>6. sh.ready[PoolNow[id].priority][id] # None /\ PoolNow[id].priority \in Priorities
    BY <1>1, <1>2, <2>1, <2>5 DEF IndexedOK
  <2> QED
    BY <2>1, <2>6 DEF Matches, Bucket
<1> QED
  BY <1>4, <1>7, <1>8

\* What a scheduler's step does to the pool and the answer, seen by ID.
LEMMA PlaceSim ==
  ASSUME SchedInv, NEW c \in Inputs, ~IsDisabled(c), Place(c)
  PROVE  Pool!Upsert(c)
<1>1. c \in Credential /\ c.id \in Ids /\ c.provider \in Providers
  BY SchedulerAssumption DEF Credential
<1>2. \A id \in Ids : credProviders[id] \in Providers \cup {None}
  BY DEF SchedInv, PlacesOK
<1>3. credProviders' = [credProviders EXCEPT ![c.id] = c.provider]
      /\ credProviders \in [Ids -> Providers \cup {None}]
  BY DEF Place, SchedInv, PlacesOK
<1>4. \A p \in Providers : creds[p] \in [Ids -> Inputs \cup {None}]
  BY InvFacts DEF MetaMap
<1>5. \A p \in Providers, id \in Ids : creds'[p][id] =
        IF id = c.id THEN IF p = c.provider THEN c
                          ELSE IF p = credProviders[c.id] THEN None ELSE creds[p][id]
        ELSE creds[p][id]
  BY <1>1, <1>4 DEF Place
<1>6. ASSUME NEW id \in Ids
      PROVE  PoolNow'[id] = IF id = c.id THEN c ELSE PoolNow[id]
  <2>1. PoolNow'[id] = IF credProviders'[id] = None THEN None
                       ELSE creds'[credProviders'[id]][id]
    BY DEF PoolNow
  <2>2. PoolNow[id] = IF credProviders[id] = None THEN None ELSE creds[credProviders[id]][id]
    BY DEF PoolNow
  <2> QED
    BY <1>1, <1>2, <1>3, <1>5, <2>1, <2>2, ConstantsAssumption
<1>7. PoolNow' = [PoolNow EXCEPT ![c.id] = c]
  <2>1. PoolNow' = [id \in Ids |-> PoolNow'[id]] /\ PoolNow = [id \in Ids |-> PoolNow[id]]
    BY DEF PoolNow
  <2> QED
    BY <1>6, <2>1
<1>8. Pool!Scheduled(c) = c
  BY SameRules
<1>9. AnswerNow' = Pool!NoPick /\ now' = now
  BY DEF Place, AnswerNow, NoPick, Pool!NoPick
<1> QED
  BY <1>7, <1>8, <1>9 DEF Pool!Upsert, PoolNow, AnswerNow

\* A removal takes the credential out of the pool.
LEMMA RemoveSim ==
  ASSUME SchedInv, NEW id \in Ids, Remove(id)
  PROVE  Pool!Remove(id)
<1>1. credProviders' = [credProviders EXCEPT ![id] = None]
      /\ credProviders \in [Ids -> Providers \cup {None}]
  BY DEF Remove, SchedInv, PlacesOK
<1>2. \A p \in Providers : creds[p] \in [Ids -> Inputs \cup {None}]
  BY InvFacts DEF MetaMap
<1>3. \A p \in Providers, j \in Ids : j # id => creds'[p][j] = creds[p][j]
  BY <1>2 DEF Remove
<1>4. ASSUME NEW j \in Ids
      PROVE  PoolNow'[j] = IF j = id THEN None ELSE PoolNow[j]
  <2>1. PoolNow'[j] = IF credProviders'[j] = None THEN None ELSE creds'[credProviders'[j]][j]
    BY DEF PoolNow
  <2>2. PoolNow[j] = IF credProviders[j] = None THEN None ELSE creds[credProviders[j]][j]
    BY DEF PoolNow
  <2> QED
    BY <1>1, <1>3, <2>1, <2>2
<1>5. PoolNow' = [PoolNow EXCEPT ![id] = None]
  <2>1. PoolNow' = [j \in Ids |-> PoolNow'[j]] /\ PoolNow = [j \in Ids |-> PoolNow[j]]
    BY DEF PoolNow
  <2> QED
    BY <1>4, <2>1
<1>6. AnswerNow' = Pool!NoPick /\ now' = now
  BY DEF Remove, AnswerNow, NoPick, Pool!NoPick
<1> QED
  BY <1>5, <1>6 DEF Pool!Remove, PoolNow, AnswerNow

\* A disabled credential leaves the pool (upsertLocked, scheduler.go:124-128).
LEMMA UpsertSim ==
  ASSUME SchedInv, NEW c \in Inputs, Upsert(c)
  PROVE  Pool!Upsert(c)
<1>1. CASE ~IsDisabled(c)
  BY <1>1, PlaceSim DEF Upsert
<1>2. CASE IsDisabled(c)
  <2>1. Remove(c.id) /\ c.id \in Ids
    BY <1>2, SchedulerAssumption DEF Upsert, Credential
  <2>2. Pool!Remove(c.id)
    BY <2>1, RemoveSim
  <2>3. Pool!Scheduled(c) = None
    BY <1>2, SameRules
  <2> QED
    BY <2>2, <2>3 DEF Pool!Remove, Pool!Upsert
<1> QED
  BY <1>1, <1>2

\* A rebuild changes nothing in the pool.
LEMMA StrategySim ==
  ASSUME SchedInv, NEW s, SetStrategy(s)
  PROVE  Pool!Rebuild
<1> DEFINE f == [id \in Ids |-> IF credProviders[id] = None THEN None
                                ELSE creds[credProviders[id]][id]]
<1>1. Rebuild(f)
  BY DEF SetStrategy
<1>2. now' = now /\ last' = NoPick
  BY <1>1 DEF Rebuild
<1> HIDE DEF f
<1>3. credProviders' = credProviders /\ creds' = creds
  BY <1>1, SnapshotFacts DEF f
<1>4. AnswerNow' = Pool!NoPick
  BY <1>2 DEF AnswerNow, NoPick, Pool!NoPick
<1> QED
  BY <1>2, <1>3, <1>4 DEF Pool!Rebuild, AnswerNow

\* A pick is a pick of the pool: it serves nobody blocked and passes over
\* nobody free of a higher priority, and says why it serves nobody.
LEMMA PickSim ==
  ASSUME SchedInv, NEW p \in Providers, NEW m \in Models, NEW tried \in TriedSets,
         Pick(p, m, tried)
  PROVE  \E id \in Ids \cup {None},
            outcome \in {"picked", "not_found", "cooldown", "unavailable"} :
           Pool!Pick(p, m, tried, outcome, id)
<1> DEFINE k == ShardKey(m)
           sh == EnsureModel(p, k)
<1>1. k \in Keys /\ Pool!ShardKey(m) = k
  BY SameRules DEF Keys
<1>2. now' = now /\ credProviders' = credProviders /\ creds' = creds
  BY DEF Pick
<1>3. sh \in Shard /\ ShardOK(sh, creds[p], k, now) /\ Fresh(sh, now)
  BY <1>1, EnsuredShard
<1>4. /\ \A n \in Priorities, id \in Ids : id \in Matches(sh, n, tried) =>
           id \in Pool!Servable(p, k, tried) /\ PoolNow[id].priority = n
      /\ \A id \in Pool!Free(p, k, tried) :
           /\ id \in Ids /\ PoolNow[id].priority \in Priorities
           /\ id \in Matches(sh, PoolNow[id].priority, tried)
      /\ Pool!Candidates(p, tried) = Listed(sh) \ tried
  BY <1>3, ShardServes
\* What the pool asks of an answer.
<1>5. ASSUME NEW outcome \in {"picked", "not_found", "cooldown", "unavailable"},
             NEW id \in Ids \cup {None},
             CASE outcome = "picked" ->
                    /\ id \in Pool!Servable(p, k, tried)
                    /\ \A j \in Pool!Free(p, k, tried) :
                         PoolNow[j].priority <= PoolNow[id].priority
               [] outcome = "not_found" -> Pool!Candidates(p, tried) = {} /\ id = None
               [] OTHER -> /\ Pool!Candidates(p, tried) # {} /\ Pool!Free(p, k, tried) = {}
                           /\ id = None,
             AnswerNow' = [provider |-> p, model |-> m, tried |-> tried,
                           outcome |-> outcome, id |-> id]
      PROVE  Pool!Pick(p, m, tried, outcome, id)
  <2>1. PoolNow' = PoolNow
    BY <1>2 DEF PoolNow
  <2> HIDE DEF k
  <2> QED
    BY <1>1, <1>2, <1>5, <2>1 DEF Pool!Pick, PoolNow, AnswerNow
<1> HIDE DEF k, sh
<1>6. CASE p \in providers /\ PickFound(p, m, tried)
  <2>1. PICK n \in BestPriorities(sh, tried) : \E id \in Matches(sh, n, tried) :
           last' = [provider |-> p, model |-> m, tried |-> tried, outcome |-> "picked",
                    cred |-> sh.ready[n][id]]
    BY <1>6, PickedFacts DEF sh, k
  <2>2. PICK id \in Matches(sh, n, tried) :
           last' = [provider |-> p, model |-> m, tried |-> tried, outcome |-> "picked",
                    cred |-> sh.ready[n][id]]
    BY <2>1
  <2>3. n \in Priorities /\ id \in Ids /\ sh.ready[n][id] # None
    BY DEF BestPriorities, Matches, Bucket
  <2>4. sh.ready[n][id].id = id
    BY <1>3, <2>3 DEF ShardOK, IndexedOK
  <2>5. AnswerNow' = [provider |-> p, model |-> m, tried |-> tried, outcome |-> "picked",
                      id |-> id]
    BY <2>2, <2>3, <2>4 DEF AnswerNow
  <2>6. id \in Pool!Servable(p, k, tried) /\ PoolNow[id].priority = n
    BY <1>4, <2>3
  <2>7. \A j \in Pool!Free(p, k, tried) : PoolNow[j].priority <= n
    BY <1>4 DEF BestPriorities
  <2> QED
    BY <1>5, <2>3, <2>5, <2>6, <2>7
<1>7. CASE p \in providers /\ PickFails(p, m, tried)
  <2>1. /\ BestPriorities(sh, tried) = {}
        /\ last' = [provider |-> p, model |-> m, tried |-> tried,
                    outcome |-> Unavailable(sh, tried), cred |-> None]
    BY <1>7 DEF PickFails, Answer, sh, k
  <2>2. AnswerNow' = [provider |-> p, model |-> m, tried |-> tried,
                      outcome |-> Unavailable(sh, tried), id |-> None]
    BY <2>1 DEF AnswerNow
  <2>3. Pool!Free(p, k, tried) = {}
    <3>1. creds[p] \in MetaMap /\ now \in Nat
      BY InvFacts
    <3>2. \A n \in Priorities : Matches(sh, n, tried) = {}
      BY <1>3, <2>1, <3>1, BestExists
    <3> QED
      BY <1>4, <3>2
  <2>4. Unavailable(sh, tried) \in {"not_found", "cooldown", "unavailable"}
        /\ (Unavailable(sh, tried) = "not_found" <=> Listed(sh) \ tried = {})
    BY DEF Unavailable
  <2> QED
    BY <1>4, <1>5, <2>2, <2>3, <2>4
<1>8. CASE p \notin providers /\ PickUnknownProvider(p, m, tried)
  <2>1. AnswerNow' = [provider |-> p, model |-> m, tried |-> tried, outcome |-> "not_found",
                      id |-> None]
    BY <1>8 DEF PickUnknownProvider, Answer, AnswerNow
  <2>2. \A id \in Ids : creds[p][id] = None
    BY <1>8 DEF SchedInv, PlacesOK
  <2>3. Pool!Candidates(p, tried) = {}
    <3>1. \A id \in Ids : ~(PoolNow[id] # None /\ PoolNow[id].provider = p)
      BY <2>2, PoolFacts
    <3> QED
      BY <3>1 DEF Pool!Candidates, PoolNow
  <2> QED
    BY <1>5, <2>1, <2>3
<1> QED
  BY <1>6, <1>7, <1>8 DEF Pick

\* Every step of the scheduler is a step of the pool, or none.
LEMMA StepSim == SchedInv /\ [Next]_vars => [Pool!Next]_(Pool!vars)
<1> SUFFICES ASSUME SchedInv, [Next]_vars
             PROVE  Pool!Next \/ UNCHANGED Pool!vars
  OBVIOUS
<1>1. ASSUME NEW c \in Inputs, Upsert(c)
      PROVE  Pool!Next
  BY <1>1, UpsertSim DEF Pool!Next
<1>2. ASSUME NEW id \in Ids, Remove(id)
      PROVE  Pool!Next
  BY <1>2, RemoveSim DEF Pool!Next
<1>3. ASSUME NEW s \in {"round_robin", "fill_first"}, SetStrategy(s)
      PROVE  Pool!Next
  BY <1>3, StrategySim DEF Pool!Next
<1>4. ASSUME NEW p \in Providers, NEW m \in Models, NEW tried \in TriedSets, Pick(p, m, tried)
      PROVE  Pool!Next
  BY <1>4, PickSim DEF Pool!Next
<1>5. CASE Tick
  <2>1. Pool!Tick
    BY <1>5 DEF Tick, Pool!Tick, NoPick, Pool!NoPick
  <2> QED
    BY <2>1 DEF Pool!Next
<1>6. CASE UNCHANGED vars
  BY <1>6 DEF vars, Pool!vars
<1> QED
  BY <1>1, <1>2, <1>3, <1>4, <1>5, <1>6 DEF Next

\* The scheduler, with its shards kept up to date incrementally, their
\* buckets and cursors, implements the pool: a pick always answers from the
\* credentials handed over last, serves nobody blocked, and passes over
\* nobody free of a higher priority (authScheduler, scheduler.go).
THEOREM SchedulerImplementsPool == Spec => ImplementsPool
<1>1. Init => Pool!Init
  BY DEF Init, Pool!Init, NoPick, Pool!NoPick
<1> QED
  BY <1>1, StepSim, SchedulerInvariant, PTL DEF Spec, ImplementsPool, Pool!Spec
=============================================================================
