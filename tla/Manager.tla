------------------------------- MODULE Manager -------------------------------
(***************************************************************************)
(* Manager (llm/cliauth/manager/manager.go) under concurrency.  A          *)
(* credential lives in three places: the row of the config store, the      *)
(* creds map and the scheduler.  Register, Update (called by MarkResult    *)
(* and by refreshOne) and Deregister write them one after the other, each  *)
(* under a lock of its own, so operations interleave between the writes.   *)
(* The refresh loop takes a snapshot of the expiring credentials and lets  *)
(* goroutines, bounded by a semaphore, refresh them.                       *)
(*                                                                         *)
(* The scheduler appears as the pool of CredentialPool, which Scheduler    *)
(* implements: its latest upserted enabled credential per ID.              *)
(***************************************************************************)
EXTENDS Credential, FiniteSets

CONSTANTS
  Clients,      \* request goroutines: admin handlers and proxied requests
  Workers,      \* refresh goroutines that may exist at one time
  Loops,        \* the refresh loops a process may start, one after the other
  SemaphoreCap, \* defaultRefreshMaxConcurrent
  Logins,       \* Logins[id]: the credential a login yields for the ID
  Results,      \* the request outcomes MarkResult is called with
  Refreshable,  \* the providers with an authenticator or a fallback refresher
  Lifetime,     \* how long a new access token lives
  MaxTime,      \* bound on the clock
  MaxLevel,     \* bound on the backoff level
  MaxToken,     \* bound on the tokens the provider issues for an ID
  Faults,       \* whether store calls and provider answers may fail or be lost
  Crashes       \* whether the process may crash and start again

ASSUME ManagerAssumption ==
  /\ IsFiniteSet(Workers)
  /\ Clients \cap Workers = {}
  /\ None \notin Loops
  /\ SemaphoreCap \in Nat \ {0}
  /\ Logins \in [Ids -> Credential]
  /\ \A id \in Ids : Logins[id].id = id /\ Logins[id].status = "active"
  /\ Results \subseteq Result
  /\ Refreshable \subseteq Providers
  /\ Lifetime \in Nat /\ MaxTime \in Nat /\ MaxLevel \in Nat /\ MaxToken \in Nat
  /\ Faults \in BOOLEAN /\ Crashes \in BOOLEAN

VARIABLES
  now,           \* the clock
  store,         \* store[id]: the row of the credential store
  creds,         \* creds[id]: the manager's map
  pool,          \* pool[id]: what the scheduler may pick
  ops,           \* ops[t]: the operation thread t is in
  sem,           \* the number of semaphore slots taken
  loops,         \* the refresh loops of this process
  refreshCancel, \* the loop that StopRefreshLoop would cancel
  issued,        \* issued[id]: the provider's latest token for the ID
  overlapped,    \* ghost: IDs on which two operations overlapped
  faulted        \* ghost: IDs on which an operation was cut short

vars == <<now, store, creds, pool, ops, sem, loops, refreshCancel, issued,
          overlapped, faulted>>

Threads == Clients \cup Workers

Kinds == {"none", "register", "mark", "deregister", "refreshing", "refreshed"}

\* persist, memory and schedule are the three writes of Register and Update,
\* unschedule and delete what is left of a Deregister that has emptied the
\* map; call is Refresher.Refresh and release the deferred semaphore release.
PCs == {"idle", "persist", "memory", "schedule", "unschedule", "delete", "call", "release"}

Op == [kind: Kinds, pc: PCs, id: Ids \cup {None}, cred: Credential \cup {None},
       snap: Credential \cup {None}, loop: Loops \cup {None}]

Idle == [kind |-> "none", pc |-> "idle", id |-> None, cred |-> None, snap |-> None,
         loop |-> None]

Call(kind, pc, id, cred) ==
  [kind |-> kind, pc |-> pc, id |-> id, cred |-> cred, snap |-> None, loop |-> None]

NewLoop == [status |-> "new", cancelled |-> FALSE, cands |-> {}]

Scheduled(c) == IF c = None \/ c.status = "disabled" THEN None ELSE c

\* Some thread is in an operation on the credential, or some cycle holds a
\* snapshot of it.
Busy(id) == \/ \E t \in Threads : ops[t].id = id
            \/ \E l \in Loops : \E c \in loops[l].cands : c.id = id

\* An operation's context is cancelled with the loop that started it.
Cancelled(t) == ops[t].loop # None /\ loops[ops[t].loop].cancelled

Init ==
  /\ now = 1
  /\ store = [id \in Ids |-> None]
  /\ creds = [id \in Ids |-> None]
  /\ pool = [id \in Ids |-> None]
  /\ ops = [t \in Threads |-> Idle]
  /\ sem = 0
  /\ loops = [l \in Loops |-> NewLoop]
  /\ refreshCancel = None
  /\ issued = [id \in Ids |-> Logins[id].token]
  /\ overlapped = {}
  /\ faulted = {}

-----------------------------------------------------------------------------
(* Operations called by request handlers *)

Begin(t, op) ==
  /\ ops[t].pc = "idle"
  /\ ops' = [ops EXCEPT ![t] = op]
  /\ overlapped' = overlapped \cup (IF Busy(op.id) THEN {op.id} ELSE {})

\* A login registers its credential, with the provider's latest token.
Register(t, id) ==
  /\ Begin(t, Call("register", "persist", id, [Logins[id] EXCEPT !.token = issued[id]]))
  /\ UNCHANGED <<now, store, creds, pool, sem, loops, refreshCancel, issued, faulted>>

\* MarkResult computes the new state from a copy and calls Update with it.
MarkResult(t, id, r) ==
  /\ creds[id] # None
  /\ Changes(creds[id], r)
  /\ creds[id].quota.backoffLevel < MaxLevel \/ r.outcome # "quota"
  /\ Begin(t, Call("mark", "persist", id, ApplyResult(creds[id], r, now)))
  /\ UNCHANGED <<now, store, creds, pool, sem, loops, refreshCancel, issued, faulted>>

\* Deregister empties the map first; an unknown ID is not looked for further.
Deregister(t, id) ==
  /\ creds[id] # None
  /\ creds' = [creds EXCEPT ![id] = None]
  /\ Begin(t, Call("deregister", "unschedule", id, None))
  /\ UNCHANGED <<now, store, pool, sem, loops, refreshCancel, issued, faulted>>

Unschedule(t) ==
  /\ ops[t].pc = "unschedule"
  /\ pool' = [pool EXCEPT ![ops[t].id] = None]
  /\ ops' = [ops EXCEPT ![t].pc = "delete"]
  /\ UNCHANGED <<now, store, creds, sem, loops, refreshCancel, issued, overlapped, faulted>>

DeleteRow(t) ==
  /\ ops[t].pc = "delete"
  /\ store' = [store EXCEPT ![ops[t].id] = None]
  /\ ops' = [ops EXCEPT ![t] = Idle]
  /\ UNCHANGED <<now, creds, pool, sem, loops, refreshCancel, issued, overlapped, faulted>>

DeleteFails(t) ==
  /\ Faults
  /\ ops[t].pc = "delete"
  /\ ops' = [ops EXCEPT ![t] = Idle]
  /\ faulted' = faulted \cup {ops[t].id}
  /\ UNCHANGED <<now, store, creds, pool, sem, loops, refreshCancel, issued, overlapped>>

-----------------------------------------------------------------------------
(* The three writes of Register and Update *)

\* Mutant: refreshOne ends without returning its slot.
ContinueLeaksSlot(t) ==
  ops' = [ops EXCEPT ![t] =
    IF @.kind = "refreshing" THEN [@ EXCEPT !.pc = "call"] ELSE Idle]

\* What a thread does once its Register or Update has returned: refreshOne
\* ignores the error and goes on, the other callers are done.
Continue(t) ==
  ops' = [ops EXCEPT ![t] =
    CASE @.kind = "refreshing" -> [@ EXCEPT !.pc = "call"]
      [] @.kind = "refreshed" -> [@ EXCEPT !.pc = "release"]
      [] OTHER -> Idle]

\* Mutant: Update is an upsert.
RowAcceptsUpsert(o) == o.kind = "register" => store[o.id] = None

\* Create needs a free ID, Update an existing row.
RowAccepts(o) == (o.kind = "register") <=> (store[o.id] = None)

Persist(t) ==
  /\ ops[t].pc = "persist"
  /\ RowAccepts(ops[t])
  /\ ~Cancelled(t)
  /\ store' = [store EXCEPT ![ops[t].id] = ops[t].cred]
  /\ ops' = [ops EXCEPT ![t].pc = "memory"]
  /\ UNCHANGED <<now, creds, pool, sem, loops, refreshCancel, issued, overlapped, faulted>>

\* Mutant: an error of the store is ignored.
PersistFailsIgnored(t) ==
  /\ ops[t].pc = "persist"
  /\ ~RowAccepts(ops[t]) \/ Cancelled(t) \/ Faults
  /\ ops' = [ops EXCEPT ![t].pc = "memory"]
  /\ UNCHANGED <<now, store, creds, pool, sem, loops, refreshCancel, issued, overlapped,
                 faulted>>

\* Mutant: a write that failed is tried again until it succeeds.
PersistFailsRetried(t) ==
  /\ ops[t].pc = "persist"
  /\ ~RowAccepts(ops[t]) \/ Cancelled(t) \/ Faults
  /\ UNCHANGED vars

\* Any error of the store returns before the map is touched.
PersistFails(t) ==
  /\ ops[t].pc = "persist"
  /\ ~RowAccepts(ops[t]) \/ Cancelled(t) \/ Faults
  /\ Continue(t)
  /\ faulted' = faulted \cup (IF RowAccepts(ops[t]) THEN {ops[t].id} ELSE {})
  /\ UNCHANGED <<now, store, creds, pool, sem, loops, refreshCancel, issued, overlapped>>

WriteMemory(t) ==
  /\ ops[t].pc = "memory"
  /\ creds' = [creds EXCEPT ![ops[t].id] = ops[t].cred]
  /\ ops' = [ops EXCEPT ![t].pc = "schedule"]
  /\ UNCHANGED <<now, store, pool, sem, loops, refreshCancel, issued, overlapped, faulted>>

WriteSchedule(t) ==
  /\ ops[t].pc = "schedule"
  /\ pool' = [pool EXCEPT ![ops[t].id] = Scheduled(ops[t].cred)]
  /\ Continue(t)
  /\ UNCHANGED <<now, store, creds, sem, loops, refreshCancel, issued, overlapped, faulted>>

-----------------------------------------------------------------------------
(* The refresh loop *)

StartRefreshLoop(l) ==
  /\ refreshCancel = None
  /\ loops[l].status = "new"
  /\ loops' = [loops EXCEPT ![l].status = "on"]
  /\ refreshCancel' = l
  /\ UNCHANGED <<now, store, creds, pool, ops, sem, issued, overlapped, faulted>>

StopRefreshLoop ==
  /\ refreshCancel # None
  /\ loops' = [loops EXCEPT ![refreshCancel].cancelled = TRUE]
  /\ refreshCancel' = None
  /\ UNCHANGED <<now, store, creds, pool, ops, sem, issued, overlapped, faulted>>

LoopExits(l) ==
  /\ loops[l].status = "on" /\ loops[l].cancelled /\ loops[l].cands = {}
  /\ loops' = [loops EXCEPT ![l].status = "off"]
  /\ UNCHANGED <<now, store, creds, pool, ops, sem, refreshCancel, issued, overlapped, faulted>>

\* Mutant: only active credentials are considered.
CandidatesActive == {creds[id] : id \in {i \in Ids : /\ creds[i] # None
                                                     /\ creds[i].status = "active"
                                                     /\ NeedsRefresh(creds[i], now)
                                                     /\ creds[i].provider \in Refreshable}}

\* snapshotForRefresh.  A candidate whose provider has no refresher is passed
\* over without effect, before the semaphore is looked at: it is left out.
Candidates == {creds[id] : id \in {i \in Ids : /\ creds[i] # None
                                               /\ ~IsDisabled(creds[i])
                                               /\ NeedsRefresh(creds[i], now)
                                               /\ creds[i].provider \in Refreshable}}

\* A tick of the loop.  When the loop is cancelled and the ticker has fired,
\* select may still choose the tick.
RunRefreshCycle(l) ==
  /\ loops[l].status = "on" /\ loops[l].cands = {}
  /\ Candidates # {}
  /\ loops' = [loops EXCEPT ![l].cands = Candidates]
  /\ overlapped' = overlapped \cup {id \in {c.id : c \in Candidates} : Busy(id)}
  /\ UNCHANGED <<now, store, creds, pool, ops, sem, refreshCancel, issued, faulted>>

\* A free slot: a goroutine starts refreshOne on its snapshot.
SpawnRefresh(l, c, w) ==
  /\ c \in loops[l].cands
  /\ sem < SemaphoreCap
  /\ ops[w].pc = "idle"
  /\ sem' = sem + 1
  /\ ops' = [ops EXCEPT ![w] =
       [kind |-> "refreshing", pc |-> "persist", id |-> c.id,
        cred |-> [c EXCEPT !.status = "refreshing"], snap |-> c, loop |-> l]]
  /\ loops' = [loops EXCEPT ![l].cands = @ \ {c}]
  /\ UNCHANGED <<now, store, creds, pool, refreshCancel, issued, overlapped, faulted>>

\* No free slot: the rest of the cycle is given up.
CycleFull(l, c) ==
  /\ c \in loops[l].cands
  /\ sem >= SemaphoreCap
  /\ loops' = [loops EXCEPT ![l].cands = {}]
  /\ UNCHANGED <<now, store, creds, pool, ops, sem, refreshCancel, issued, overlapped, faulted>>

-----------------------------------------------------------------------------
(* refreshOne, after its first Update *)

Outcome(w, cred) ==
  ops' = [ops EXCEPT ![w].kind = "refreshed", ![w].pc = "persist", ![w].cred = cred]

\* Mutant: the refreshed token is dropped.
RefreshSucceedsKeepsToken(w) ==
  LET o == ops[w] IN
  /\ o.pc = "call"
  /\ ~Cancelled(w)
  /\ o.snap.token = issued[o.id] /\ o.snap.token \in 1..(MaxToken - 1)
  /\ issued' = [issued EXCEPT ![o.id] = @ + 1]
  /\ Outcome(w, [Loaded(o.snap) EXCEPT !.expires = now + Lifetime])
  /\ UNCHANGED <<now, store, creds, pool, sem, loops, refreshCancel, overlapped, faulted>>

\* The provider rotates the token: the one presented is spent.
RefreshSucceeds(w) ==
  LET o == ops[w] IN
  /\ o.pc = "call"
  /\ ~Cancelled(w)
  /\ o.snap.token = issued[o.id] /\ o.snap.token \in 1..(MaxToken - 1)
  /\ issued' = [issued EXCEPT ![o.id] = @ + 1]
  /\ Outcome(w, [Loaded(o.snap) EXCEPT !.token = issued[o.id] + 1,
                                       !.expires = now + Lifetime])
  /\ UNCHANGED <<now, store, creds, pool, sem, loops, refreshCancel, overlapped, faulted>>

FailedRefresh(c) ==
  [c EXCEPT !.status = "error", !.nextRefreshAfter = now + RefreshDelay]

\* Mutant: a failed refresh returns without writing the credential.
RefreshFailsSilently(w) ==
  /\ ops[w].pc = "call"
  /\ ops[w].snap.token # 0
  /\ ops' = [ops EXCEPT ![w].pc = "release"]
  /\ UNCHANGED <<now, store, creds, pool, sem, loops, refreshCancel, issued, overlapped, faulted>>

RefreshFails(w) ==
  LET o == ops[w] IN
  /\ o.pc = "call"
  /\ o.snap.token # 0
  /\ Outcome(w, FailedRefresh(o.snap))
  /\ UNCHANGED <<now, store, creds, pool, sem, loops, refreshCancel, issued, overlapped, faulted>>

\* The provider rotated the token but its answer is lost.
RefreshAnswerLost(w) ==
  LET o == ops[w] IN
  /\ Faults
  /\ o.pc = "call"
  /\ o.snap.token = issued[o.id] /\ o.snap.token \in 1..(MaxToken - 1)
  /\ issued' = [issued EXCEPT ![o.id] = @ + 1]
  /\ Outcome(w, FailedRefresh(o.snap))
  /\ faulted' = faulted \cup {o.id}
  /\ UNCHANGED <<now, store, creds, pool, sem, loops, refreshCancel, overlapped>>

\* Without a refresh token the authenticator returns nil.
RefreshNothing(w) ==
  LET o == ops[w] IN
  /\ o.pc = "call"
  /\ o.snap.token = 0
  /\ Outcome(w, [o.snap EXCEPT !.status = "active"])
  /\ UNCHANGED <<now, store, creds, pool, sem, loops, refreshCancel, issued, overlapped, faulted>>

\* Mutant: the slot is returned twice.
ReleaseTwice(w) ==
  /\ ops[w].pc = "release"
  /\ sem' = sem - 2
  /\ ops' = [ops EXCEPT ![w] = Idle]
  /\ UNCHANGED <<now, store, creds, pool, loops, refreshCancel, issued, overlapped, faulted>>

Release(w) ==
  /\ ops[w].pc = "release"
  /\ sem' = sem - 1
  /\ ops' = [ops EXCEPT ![w] = Idle]
  /\ UNCHANGED <<now, store, creds, pool, loops, refreshCancel, issued, overlapped, faulted>>

-----------------------------------------------------------------------------
(* The process *)

\* A crash, and the next process up to the end of Load.
Restart ==
  /\ Crashes
  /\ creds' = [id \in Ids |-> IF store[id] = None THEN None ELSE Loaded(store[id])]
  /\ pool' = [id \in Ids |-> IF store[id] = None THEN None ELSE Scheduled(Loaded(store[id]))]
  /\ ops' = [t \in Threads |-> Idle]
  /\ sem' = 0
  /\ loops' = [l \in Loops |-> NewLoop]
  /\ refreshCancel' = None
  /\ faulted' = faulted \cup overlapped \cup {id \in Ids : \E t \in Threads : ops[t].id = id}
  /\ overlapped' = {}
  /\ UNCHANGED <<now, store, issued>>

Tick ==
  /\ now < MaxTime
  /\ now' = now + 1
  /\ UNCHANGED <<store, creds, pool, ops, sem, loops, refreshCancel, issued, overlapped, faulted>>

ClientStarts(t) ==
  \E id \in Ids : \/ Register(t, id)
                  \/ \E r \in Results : MarkResult(t, id, r)
                  \/ Deregister(t, id)

ThreadStep(t) ==
  \/ Persist(t) \/ PersistFails(t) \/ WriteMemory(t) \/ WriteSchedule(t)
  \/ Unschedule(t) \/ DeleteRow(t) \/ DeleteFails(t)

WorkerStep(w) ==
  \/ RefreshSucceeds(w) \/ RefreshFails(w) \/ RefreshAnswerLost(w) \/ RefreshNothing(w)
  \/ Release(w)

CandidateStep(l) ==
  \E c \in loops[l].cands : \/ CycleFull(l, c)
                            \/ \E w \in Workers : SpawnRefresh(l, c, w)

LoopStep(l) == StartRefreshLoop(l) \/ LoopExits(l) \/ RunRefreshCycle(l) \/ CandidateStep(l)

Next ==
  \/ \E t \in Clients : ClientStarts(t)
  \/ \E t \in Threads : ThreadStep(t)
  \/ \E w \in Workers : WorkerStep(w)
  \/ \E l \in Loops : LoopStep(l)
  \/ StopRefreshLoop
  \/ Restart
  \/ Tick

Spec == Init /\ [][Next]_vars

-----------------------------------------------------------------------------
(* Properties *)

\* Type invariant of the manager's state.
TypeOK ==
  /\ now \in Nat
  /\ store \in [Ids -> Credential \cup {None}]
  /\ creds \in [Ids -> Credential \cup {None}]
  /\ pool \in [Ids -> Credential \cup {None}]
  /\ ops \in [Threads -> Op]
  /\ sem \in Nat
  /\ loops \in [Loops -> [status: {"new", "on", "off"}, cancelled: BOOLEAN,
                          cands: SUBSET Credential]]
  /\ refreshCancel \in Loops \cup {None}
  /\ issued \in [Ids -> Nat]
  /\ overlapped \subseteq Ids
  /\ faulted \subseteq Ids

\* The semaphore counts the live refresh goroutines and never exceeds its
\* capacity: no path through refreshOne loses or returns a slot twice
\* (manager.go:519-528), and a restart starts from a clean count.
SemaphoreCountsWorkers ==
  /\ sem = Cardinality({w \in Workers : ops[w].pc # "idle"})
  /\ sem <= SemaphoreCap

\* The store, the map and the scheduler hold the same thing for an ID.
Agree(id) ==
  /\ pool[id] = Scheduled(creds[id])
  /\ creds[id] # None => /\ store[id] # None
                         /\ creds[id] \in {store[id], Loaded(store[id])}
  /\ creds[id] = None /\ id \notin faulted => store[id] = None

Settled(id) == ~Busy(id) /\ id \notin overlapped

\* Whatever fails and whenever the process crashes, the three copies of a
\* credential agree once its operations have ended, unless two of them
\* overlapped (manager.go:216-299); only a failed delete leaves a row behind.
SettledAgree == \A id \in Ids : Settled(id) => Agree(id)

\* A token the provider has rotated is not lost: without overlap and without
\* a fault the manager ends every operation holding the latest token
\* (manager.go:576-606).
TokenIsCurrent ==
  \A id \in Ids : Settled(id) /\ id \notin faulted /\ creds[id] # None =>
    creds[id].token = issued[id]

\* Without overlap and fault, "refreshing" ends with the refresh: every way
\* out of refreshOne writes another status.
RefreshingEnds ==
  \A id \in Ids : Settled(id) /\ id \notin faulted /\ creds[id] # None =>
    creds[id].status # "refreshing"

\* A row only appears through Register: an Update that lost the race against
\* Deregister's delete fails on the missing row (jsonstore.go:137-142) and
\* cannot bring the credential back to the store.
NoRowResurrected ==
  [][\A id \in Ids : store[id] = None /\ store'[id] # None =>
       \E t \in Threads : ops[t].id = id /\ ops[t].kind = "register"
                          /\ ops'[t].pc = "memory"]_vars

-----------------------------------------------------------------------------
(* Liveness *)

\* A refresh goroutine waits for the provider.  Nothing but a cancelled loop
\* ends such a call from this side: the authenticators use HTTP clients without
\* a time limit, and the loop's context has no deadline.
AtVendor(w) ==
  ops[w].pc = "call" /\ ops[w].snap.token # 0 /\ ~Cancelled(w)

\* What the goroutine of a refresh does by itself; a cancelled context makes a
\* call to the provider fail.
OwnStep(w) ==
  \/ RefreshNothing(w) \/ Release(w)
  \/ Cancelled(w) /\ RefreshFails(w)

SpawnFor(id) ==
  \E l \in Loops, w \in Workers : \E c \in loops[l].cands :
    c.id = id /\ SpawnRefresh(l, c, w)

\* Goroutines run, SQLite calls return, the ticker fires, and a running loop
\* works through its candidates.  Of the provider nothing is assumed: its
\* answers have no fairness.  The order of the candidates is that of a Go map
\* iteration, which is random, so a credential that is a candidate again and
\* again while a slot is free is at some time the one that gets it: strong
\* fairness per credential.
Fairness ==
  /\ \A t \in Threads : WF_vars(ThreadStep(t))
  /\ \A w \in Workers : WF_vars(OwnStep(w))
  /\ \A l \in Loops : WF_vars(RunRefreshCycle(l)) /\ WF_vars(CandidateStep(l))
  /\ \A id \in Ids : SF_vars(SpawnFor(id))

FairSpec == Spec /\ Fairness

\* Every refresh goroutine ends and returns its slot, unless the provider keeps
\* its call, which StopRefreshLoop ends (manager.go:519-528, 576-606).
SlotsReturn ==
  \A w \in Workers : (ops[w].pc # "idle") ~> (ops[w].pc = "idle" \/ AtVendor(w))

Due(id) == /\ creds[id] # None /\ ~IsDisabled(creds[id])
           /\ NeedsRefresh(creds[id], now) /\ creds[id].provider \in Refreshable

AllAtVendor == Cardinality({w \in Workers : AtVendor(w)}) = SemaphoreCap

\* While a loop is running, an expiring credential does not wait for ever,
\* even when the semaphore is full in some cycles: it is refreshed, backed
\* off, disabled or removed, unless from some time on every slot is kept by a
\* call that the provider does not answer, which ends all refreshing.  A map
\* entry without a row is excepted too, which an Update that outlives a
\* Deregister can leave: no refresh of it can be persisted.
DueIsServed ==
  \A id \in Ids :
    (Due(id) /\ refreshCancel # None)
      ~> (~Due(id) \/ refreshCancel = None \/ store[id] = None \/ []AllAtVendor)

-----------------------------------------------------------------------------
(* Statements of the code's comments that the code does not keep *)

\* "StatusRefreshing is a transient in-process state": in memory it means
\* that a refresh is under way.
RefreshingIsTransient ==
  \A id \in Ids : creds[id] # None /\ creds[id].status = "refreshing" => Busy(id)

\* "Auth errors disable the credential": what an authentication error
\* disabled is not enabled again behind the administrator's back.
DisabledStays ==
  [][\A id \in Ids : creds[id] # None /\ creds[id].status = "disabled" /\ creds'[id] # None
       => creds'[id].status = "disabled"]_vars
=============================================================================
