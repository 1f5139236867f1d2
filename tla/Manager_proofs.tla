---------------------------- MODULE Manager_proofs ----------------------------
(***************************************************************************)
(* Theorems about Manager for every set of credentials, threads and loops, *)
(* every semaphore capacity and every pattern of faults and crashes.       *)
(***************************************************************************)
EXTENDS Manager, Credential_proofs, FiniteSetTheorems

(***************************************************************************)
(* TypeInv, the inductive invariant behind TypeOK.                         *)
(***************************************************************************)

\* What the operation record o of thread t holds at each of its steps.
ShapeOf(t, o) ==
  /\ o.pc = "idle" => o = Idle
  /\ o.pc # "idle" => o.id \in Ids
  /\ o.pc \in {"persist", "memory", "schedule"} =>
       /\ o.cred \in Credential /\ o.cred.id = o.id
       /\ o.kind \in {"register", "mark", "refreshing", "refreshed"}
  /\ o.pc \in {"unschedule", "delete"} => o.kind = "deregister"
  /\ o.pc \in {"call", "release"} => o.kind \in {"refreshing", "refreshed"}
  /\ (o.kind \in {"refreshing", "refreshed"}) <=> (t \in Workers /\ o.pc # "idle")
  /\ o.kind \in {"refreshing", "refreshed"} => o.snap \in Credential /\ o.snap.id = o.id

Shapes == \A t \in Threads : ShapeOf(t, ops[t])

\* Every copy of a credential is kept under its own ID, and a cycle holds at
\* most one snapshot of it.
OwnIds ==
  /\ \A id \in Ids : /\ creds[id] # None => creds[id].id = id
                     /\ store[id] # None => store[id].id = id
  /\ \A l \in Loops : \A c, d \in loops[l].cands : c.id = d.id => c = d

Active == {w \in Workers : ops[w].pc # "idle"}

\* Everything TypeOK needs to be inductive.
TypeInv == TypeOK /\ Shapes /\ OwnIds /\ SemaphoreCountsWorkers

-----------------------------------------------------------------------------
(* Lemmas about one operation record *)

\* Nothing is in an operation at first (manager.go:101-119), and the record
\* of a thread that ends its operation is the same.
LEMMA IdleShape ==
  ASSUME NEW t \in Threads
  PROVE  Idle \in Op /\ ShapeOf(t, Idle)
BY ConstantsAssumption, ManagerAssumption
   DEF Idle, Op, Kinds, PCs, ShapeOf

\* A step that gives one thread a well-formed record keeps all of them
\* well-formed.
LEMMA OneRecord ==
  ASSUME TypeOK, Shapes, NEW t \in Threads, NEW o \in Op, ShapeOf(t, o),
         ops' = [ops EXCEPT ![t] = o]
  PROVE  ops' \in [Threads -> Op] /\ Shapes'
<1>1. ops \in [Threads -> Op]
  BY DEF TypeOK
<1>2. ops' \in [Threads -> Op]
  BY <1>1
<1>3. \A u \in Threads : ops'[u] = IF u = t THEN o ELSE ops[u]
  BY <1>1
<1>4. \A u \in Threads : ShapeOf(u, ops'[u])
  BY <1>3 DEF Shapes
<1> QED
  BY <1>2, <1>4 DEF Shapes

\* The semaphore's count is right when the set of live goroutines and the
\* count stay as they are.
LEMMA SameActive ==
  ASSUME TypeOK, SemaphoreCountsWorkers, NEW t \in Threads, NEW o,
         ops' = [ops EXCEPT ![t] = o], sem' = sem,
         t \in Workers => ((o.pc = "idle") <=> (ops[t].pc = "idle"))
  PROVE  SemaphoreCountsWorkers'
<1>1. \A u \in Workers : (ops'[u].pc = "idle") <=> (ops[u].pc = "idle")
  BY DEF TypeOK, Threads
<1>2. {w \in Workers : ops'[w].pc # "idle"} = {w \in Workers : ops[w].pc # "idle"}
  BY <1>1
<1> QED
  BY <1>2 DEF SemaphoreCountsWorkers

\* The record with which a call starts (Register, MarkResult, Deregister).
LEMMA CallShape ==
  ASSUME NEW t \in Clients, NEW id \in Ids, NEW kind, NEW pc, NEW cred,
         \/ /\ kind \in {"register", "mark"} /\ pc = "persist"
            /\ cred \in Credential /\ cred.id = id
         \/ kind = "deregister" /\ pc = "unschedule" /\ cred = None
  PROVE  /\ Call(kind, pc, id, cred) \in Op
         /\ ShapeOf(t, Call(kind, pc, id, cred))
         /\ Call(kind, pc, id, cred).id = id
         /\ Call(kind, pc, id, cred).pc = pc
         /\ Call(kind, pc, id, cred).cred = cred
         /\ t \notin Workers /\ t \in Threads
<1>1. t \notin Workers /\ t \in Threads
  BY ManagerAssumption DEF Threads
<1>2. Call(kind, pc, id, cred) \in Op
  BY DEF Call, Op, Kinds, PCs
<1>3. ShapeOf(t, Call(kind, pc, id, cred))
  BY <1>1 DEF Call, ShapeOf
<1> QED
  BY <1>1, <1>2, <1>3 DEF Call

\* A record that moves to another step of the same operation.
LEMMA MoveShape ==
  ASSUME TypeOK, Shapes, NEW t \in Threads, NEW pc,
         \/ ops[t].pc = "persist" /\ pc = "memory"
         \/ ops[t].pc = "memory" /\ pc = "schedule"
         \/ ops[t].pc = "unschedule" /\ pc = "delete"
         \/ ops[t].pc \in {"persist", "schedule"} /\ ops[t].kind = "refreshing" /\ pc = "call"
         \/ ops[t].pc \in {"persist", "schedule"} /\ ops[t].kind = "refreshed" /\ pc = "release"
  PROVE  /\ [ops[t] EXCEPT !.pc = pc] \in Op
         /\ ShapeOf(t, [ops[t] EXCEPT !.pc = pc])
         /\ [ops[t] EXCEPT !.pc = pc].pc = pc
         /\ [ops[t] EXCEPT !.pc = pc].id = ops[t].id
         /\ [ops[t] EXCEPT !.pc = pc].cred = ops[t].cred
<1> DEFINE o == ops[t]
<1>1. o \in Op /\ ShapeOf(t, o)
  BY DEF TypeOK, Shapes
<1> HIDE DEF o
<1>2. [o EXCEPT !.pc = pc] \in Op
  BY <1>1 DEF Op, PCs, o
<1>3. ShapeOf(t, [o EXCEPT !.pc = pc])
  BY <1>1 DEF Op, ShapeOf, o
<1>4. /\ [o EXCEPT !.pc = pc].pc = pc
      /\ [o EXCEPT !.pc = pc].id = o.id
      /\ [o EXCEPT !.pc = pc].cred = o.cred
  BY <1>1 DEF Op
<1> QED
  BY <1>2, <1>3, <1>4 DEF o

\* What a thread's record becomes after its Register or Update: the next
\* step of a refresh, the idle record for the others.
LEMMA ContinueShape ==
  ASSUME TypeOK, Shapes, NEW t \in Threads, ops[t].pc \in {"persist", "schedule"}, Continue(t)
  PROVE  \E o \in Op :
           /\ ops' = [ops EXCEPT ![t] = o]
           /\ ShapeOf(t, o)
           /\ o.pc = "idle" => t \notin Workers
           /\ o.pc \in {"idle", "call", "release"}
           /\ o.pc # "idle" => o.id = ops[t].id
<1>1. ops[t] \in Op /\ ShapeOf(t, ops[t])
  BY DEF TypeOK, Shapes
<1>2. CASE ops[t].kind = "refreshing"
  <2>1. ops' = [ops EXCEPT ![t] = [ops[t] EXCEPT !.pc = "call"]]
    BY <1>2 DEF Continue
  <2> QED
    BY <2>1, <1>2, MoveShape
<1>3. CASE ops[t].kind = "refreshed"
  <2>1. ops' = [ops EXCEPT ![t] = [ops[t] EXCEPT !.pc = "release"]]
    BY <1>3 DEF Continue
  <2> QED
    BY <2>1, <1>3, MoveShape
<1>4. CASE ops[t].kind \notin {"refreshing", "refreshed"}
  <2>1. ops' = [ops EXCEPT ![t] = Idle]
    BY <1>4 DEF Continue
  <2>2. t \notin Workers
    BY <1>1, <1>4 DEF ShapeOf
  <2> QED
    BY <2>1, <2>2, IdleShape DEF Idle
<1> QED
  BY <1>2, <1>3, <1>4

-----------------------------------------------------------------------------
(* Type correctness and the semaphore *)

\* A call that a request handler starts (manager.go:216, 339, 276).
LEMMA StartsType ==
  ASSUME TypeInv, NEW t \in Clients, ClientStarts(t)
  PROVE  TypeInv'
<1> USE DEF TypeInv
<1>1. PICK id \in Ids : \/ Register(t, id)
                        \/ \E r \in Results : MarkResult(t, id, r)
                        \/ Deregister(t, id)
  BY DEF ClientStarts
<1>2. ASSUME NEW kind, NEW pc, NEW cred,
             \/ /\ kind \in {"register", "mark"} /\ pc = "persist"
                /\ cred \in Credential /\ cred.id = id
             \/ kind = "deregister" /\ pc = "unschedule" /\ cred = None,
             Begin(t, Call(kind, pc, id, cred)), sem' = sem
      PROVE  /\ ops' \in [Threads -> Op] /\ Shapes' /\ SemaphoreCountsWorkers'
             /\ overlapped' \subseteq Ids
  <2>1. /\ Call(kind, pc, id, cred) \in Op
        /\ ShapeOf(t, Call(kind, pc, id, cred))
        /\ Call(kind, pc, id, cred).id = id
        /\ t \notin Workers /\ t \in Threads
    BY <1>2, CallShape
  <2>2. /\ ops' = [ops EXCEPT ![t] = Call(kind, pc, id, cred)]
        /\ overlapped' = overlapped \cup (IF Busy(id) THEN {id} ELSE {})
    BY <1>2, <2>1 DEF Begin
  <2>3. ops' \in [Threads -> Op] /\ Shapes'
    BY <2>1, <2>2, OneRecord
  <2>4. SemaphoreCountsWorkers'
    BY <2>1, <2>2, <1>2, SameActive
  <2>5. overlapped' \subseteq Ids
    BY <2>2 DEF TypeOK
  <2> QED
    BY <2>3, <2>4, <2>5
<1>3. CASE Register(t, id)
  <2> DEFINE c == [Logins[id] EXCEPT !.token = issued[id]]
  <2>1. c \in Credential /\ c.id = id
    <3>1. Logins[id] \in Credential /\ Logins[id].id = id /\ issued[id] \in Nat
      BY ManagerAssumption DEF TypeOK
    <3> QED
      BY <3>1, TokenType
  <2> HIDE DEF c
  <2>2. Begin(t, Call("register", "persist", id, c)) /\ sem' = sem
    BY <1>3 DEF Register, c
  <2>3. /\ ops' \in [Threads -> Op] /\ Shapes' /\ SemaphoreCountsWorkers'
        /\ overlapped' \subseteq Ids
    BY <1>2, <2>1, <2>2
  <2>4. UNCHANGED <<now, store, creds, pool, sem, loops, refreshCancel, issued, faulted>>
    BY <1>3 DEF Register
  <2> QED
    BY <2>3, <2>4 DEF TypeOK, OwnIds
<1>4. ASSUME NEW r \in Results, MarkResult(t, id, r)
      PROVE  TypeInv'
  <2> DEFINE c == ApplyResult(creds[id], r, now)
  <2>1. creds[id] \in Credential /\ creds[id].id = id /\ now \in Nat
    BY <1>4 DEF MarkResult, TypeOK, OwnIds
  <2>2. c \in Credential /\ c.id = id
    BY <2>1, ApplyResultType, ManagerAssumption
  <2> HIDE DEF c
  <2>3. Begin(t, Call("mark", "persist", id, c)) /\ sem' = sem
    BY <1>4 DEF MarkResult, c
  <2>4. /\ ops' \in [Threads -> Op] /\ Shapes' /\ SemaphoreCountsWorkers'
        /\ overlapped' \subseteq Ids
    BY <1>2, <2>2, <2>3
  <2>5. UNCHANGED <<now, store, creds, pool, sem, loops, refreshCancel, issued, faulted>>
    BY <1>4 DEF MarkResult
  <2> QED
    BY <2>4, <2>5 DEF TypeOK, OwnIds
<1>5. CASE Deregister(t, id)
  <2>1. Begin(t, Call("deregister", "unschedule", id, None)) /\ sem' = sem
    BY <1>5 DEF Deregister
  <2>2. /\ ops' \in [Threads -> Op] /\ Shapes' /\ SemaphoreCountsWorkers'
        /\ overlapped' \subseteq Ids
    BY <1>2, <2>1
  <2>3. /\ creds' = [creds EXCEPT ![id] = None]
        /\ UNCHANGED <<now, store, pool, sem, loops, refreshCancel, issued, faulted>>
    BY <1>5 DEF Deregister
  <2> QED
    BY <2>2, <2>3 DEF TypeOK, OwnIds
<1> QED
  BY <1>1, <1>3, <1>4, <1>5

\* A step of Register, Update or Deregister after its start
\* (manager.go:216-299).
LEMMA ThreadType ==
  ASSUME TypeInv, NEW t \in Threads, ThreadStep(t)
  PROVE  TypeInv'
<1> USE DEF TypeInv
<1> DEFINE o == ops[t]
<1>1. o \in Op /\ ShapeOf(t, o)
  BY DEF TypeOK, Shapes
<1>2. o.pc # "idle" => o.id \in Ids
  BY <1>1 DEF ShapeOf
<1>3. o.pc \in {"persist", "memory", "schedule"} => o.cred \in Credential /\ o.cred.id = o.id
  BY <1>1 DEF ShapeOf
<1>4. ASSUME o.pc \in {"persist", "schedule"}, Continue(t), sem' = sem
      PROVE  ops' \in [Threads -> Op] /\ Shapes' /\ SemaphoreCountsWorkers'
  <2>1. PICK n \in Op : /\ ops' = [ops EXCEPT ![t] = n]
                        /\ ShapeOf(t, n)
                        /\ n.pc = "idle" => t \notin Workers
    BY <1>4, ContinueShape
  <2> QED
    BY <2>1, <1>4, OneRecord, SameActive
<1>5. ASSUME NEW pc, pc # "idle", ops' = [ops EXCEPT ![t].pc = pc], sem' = sem,
             \/ o.pc = "persist" /\ pc = "memory"
             \/ o.pc = "memory" /\ pc = "schedule"
             \/ o.pc = "unschedule" /\ pc = "delete"
      PROVE  ops' \in [Threads -> Op] /\ Shapes' /\ SemaphoreCountsWorkers'
  <2>1. ops' = [ops EXCEPT ![t] = [o EXCEPT !.pc = pc]]
    BY <1>5
  <2>2. /\ [o EXCEPT !.pc = pc] \in Op
        /\ ShapeOf(t, [o EXCEPT !.pc = pc])
        /\ [o EXCEPT !.pc = pc].pc = pc
    BY <1>5, MoveShape
  <2> DEFINE n == [o EXCEPT !.pc = pc]
  <2> HIDE DEF n
  <2>3. /\ n \in Op /\ ShapeOf(t, n) /\ n.pc # "idle" /\ o.pc # "idle"
        /\ ops' = [ops EXCEPT ![t] = n]
    BY <2>1, <2>2, <1>5 DEF n
  <2> QED
    BY <2>3, <1>5, OneRecord, SameActive
<1>6. ASSUME o.pc = "delete", ops' = [ops EXCEPT ![t] = Idle], sem' = sem
      PROVE  ops' \in [Threads -> Op] /\ Shapes' /\ SemaphoreCountsWorkers'
  <2>1. t \notin Workers
    BY <1>1, <1>6 DEF ShapeOf
  <2> QED
    BY <2>1, <1>6, IdleShape, OneRecord, SameActive
<1>7. CASE Persist(t)
  <2>1. /\ o.pc = "persist"
        /\ ops' \in [Threads -> Op] /\ Shapes' /\ SemaphoreCountsWorkers'
    BY <1>5, <1>7 DEF Persist
  <2>2. /\ store' = [store EXCEPT ![o.id] = o.cred]
        /\ UNCHANGED <<now, creds, pool, sem, loops, refreshCancel, issued, overlapped, faulted>>
    BY <1>7 DEF Persist
  <2> HIDE DEF o
  <2> QED
    BY <1>2, <1>3, <2>1, <2>2 DEF TypeOK, OwnIds
<1>8. CASE PersistFails(t)
  <2>1. /\ o.pc = "persist"
        /\ ops' \in [Threads -> Op] /\ Shapes' /\ SemaphoreCountsWorkers'
    BY <1>4, <1>8 DEF PersistFails
  <2>2. /\ faulted' = faulted \cup (IF RowAccepts(o) THEN {o.id} ELSE {})
        /\ UNCHANGED <<now, store, creds, pool, sem, loops, refreshCancel, issued, overlapped>>
    BY <1>8 DEF PersistFails
  <2> HIDE DEF o
  <2> QED
    BY <1>2, <2>1, <2>2 DEF TypeOK, OwnIds
<1>9. CASE WriteMemory(t)
  <2>1. /\ o.pc = "memory"
        /\ ops' \in [Threads -> Op] /\ Shapes' /\ SemaphoreCountsWorkers'
    BY <1>5, <1>9 DEF WriteMemory
  <2>2. /\ creds' = [creds EXCEPT ![o.id] = o.cred]
        /\ UNCHANGED <<now, store, pool, sem, loops, refreshCancel, issued, overlapped, faulted>>
    BY <1>9 DEF WriteMemory
  <2> HIDE DEF o
  <2> QED
    BY <1>2, <1>3, <2>1, <2>2 DEF TypeOK, OwnIds
<1>10. CASE WriteSchedule(t)
  <2>1. /\ o.pc = "schedule"
        /\ ops' \in [Threads -> Op] /\ Shapes' /\ SemaphoreCountsWorkers'
    BY <1>4, <1>10 DEF WriteSchedule
  <2>2. /\ pool' = [pool EXCEPT ![o.id] = Scheduled(o.cred)]
        /\ UNCHANGED <<now, store, creds, sem, loops, refreshCancel, issued, overlapped, faulted>>
    BY <1>10 DEF WriteSchedule
  <2> HIDE DEF o
  <2> QED
    BY <1>2, <1>3, <2>1, <2>2 DEF TypeOK, OwnIds, Scheduled
<1>11. CASE Unschedule(t)
  <2>1. /\ o.pc = "unschedule"
        /\ ops' \in [Threads -> Op] /\ Shapes' /\ SemaphoreCountsWorkers'
    BY <1>5, <1>11 DEF Unschedule
  <2>2. /\ pool' = [pool EXCEPT ![o.id] = None]
        /\ UNCHANGED <<now, store, creds, sem, loops, refreshCancel, issued, overlapped, faulted>>
    BY <1>11 DEF Unschedule
  <2> HIDE DEF o
  <2> QED
    BY <1>2, <2>1, <2>2 DEF TypeOK, OwnIds
<1>12. CASE DeleteRow(t)
  <2>1. /\ o.pc = "delete"
        /\ ops' \in [Threads -> Op] /\ Shapes' /\ SemaphoreCountsWorkers'
    BY <1>6, <1>12 DEF DeleteRow
  <2>2. /\ store' = [store EXCEPT ![o.id] = None]
        /\ UNCHANGED <<now, creds, pool, sem, loops, refreshCancel, issued, overlapped, faulted>>
    BY <1>12 DEF DeleteRow
  <2> HIDE DEF o
  <2> QED
    BY <1>2, <2>1, <2>2 DEF TypeOK, OwnIds
<1>13. CASE DeleteFails(t)
  <2>1. /\ o.pc = "delete"
        /\ ops' \in [Threads -> Op] /\ Shapes' /\ SemaphoreCountsWorkers'
    BY <1>6, <1>13 DEF DeleteFails
  <2>2. /\ faulted' = faulted \cup {o.id}
        /\ UNCHANGED <<now, store, creds, pool, sem, loops, refreshCancel, issued, overlapped>>
    BY <1>13 DEF DeleteFails
  <2> HIDE DEF o
  <2> QED
    BY <1>2, <2>1, <2>2 DEF TypeOK, OwnIds
<1> QED
  BY <1>7, <1>8, <1>9, <1>10, <1>11, <1>12, <1>13 DEF ThreadStep

\* A step of refreshOne between its two Updates, and its end
\* (manager.go:584-606).
LEMMA WorkerType ==
  ASSUME TypeInv, NEW w \in Workers, WorkerStep(w)
  PROVE  TypeInv'
<1> USE DEF TypeInv
<1> DEFINE o == ops[w]
<1>1. w \in Threads /\ o \in Op /\ ShapeOf(w, o)
  BY DEF TypeOK, Shapes, Threads
<1>2. o.pc # "idle" => /\ o.id \in Ids /\ issued[o.id] \in Nat
                       /\ o.snap \in Credential /\ o.snap.id = o.id
  BY <1>1 DEF ShapeOf, TypeOK
<1>3. now \in Nat /\ RefreshDelay \in Nat /\ Lifetime \in Nat
  BY ConstantsAssumption, ManagerAssumption DEF TypeOK
<1>4. ASSUME o.pc = "call", NEW c \in Credential, c.id = o.id, Outcome(w, c), sem' = sem
      PROVE  ops' \in [Threads -> Op] /\ Shapes' /\ SemaphoreCountsWorkers'
  <2> DEFINE n == [o EXCEPT !.kind = "refreshed", !.pc = "persist", !.cred = c]
  <2>1. ops' = [ops EXCEPT ![w] = n]
    BY <1>4 DEF Outcome
  <2>2. n \in Op /\ n.pc = "persist"
    BY <1>1 DEF Op, Kinds, PCs
  <2>3. ShapeOf(w, n)
    BY <1>1, <1>2, <1>4 DEF Op, ShapeOf
  <2> HIDE DEF n
  <2> QED
    BY <1>1, <1>4, <2>1, <2>2, <2>3, OneRecord, SameActive
<1>5. CASE RefreshSucceeds(w)
  <2> DEFINE c == [Loaded(o.snap) EXCEPT !.token = issued[o.id] + 1, !.expires = now + Lifetime]
  <2>1. /\ o.pc = "call" /\ Outcome(w, c)
        /\ issued' = [issued EXCEPT ![o.id] = @ + 1]
        /\ UNCHANGED <<now, store, creds, pool, sem, loops, refreshCancel, overlapped, faulted>>
    BY <1>5 DEF RefreshSucceeds
  <2>2. c \in Credential /\ c.id = o.id
    <3>1. Loaded(o.snap) \in Credential /\ Loaded(o.snap).id = o.id
      BY <1>2, <2>1, LoadedType
    <3>2. issued[o.id] + 1 \in Nat /\ now + Lifetime \in Nat
      BY <1>2, <1>3, <2>1
    <3> QED
      BY <3>1, <3>2, RefreshedType
  <2> HIDE DEF c
  <2>3. ops' \in [Threads -> Op] /\ Shapes' /\ SemaphoreCountsWorkers'
    BY <1>4, <2>1, <2>2
  <2>4. issued' \in [Ids -> Nat]
    BY <1>2, <2>1 DEF TypeOK
  <2> QED
    BY <2>1, <2>3, <2>4 DEF TypeOK, OwnIds
<1>6. o.pc = "call" => FailedRefresh(o.snap) \in Credential /\ FailedRefresh(o.snap).id = o.id
  <2>1. now + RefreshDelay \in Nat /\ "error" \in Status
    BY <1>3 DEF Status
  <2> QED
    BY <1>2, <2>1, DelayedType DEF FailedRefresh
<1>7. CASE RefreshFails(w)
  <2>1. /\ o.pc = "call" /\ Outcome(w, FailedRefresh(o.snap))
        /\ UNCHANGED <<now, store, creds, pool, sem, loops, refreshCancel, issued, overlapped,
                       faulted>>
    BY <1>7 DEF RefreshFails
  <2>2. ops' \in [Threads -> Op] /\ Shapes' /\ SemaphoreCountsWorkers'
    BY <1>4, <1>6, <2>1
  <2> QED
    BY <2>1, <2>2 DEF TypeOK, OwnIds
<1>8. CASE RefreshAnswerLost(w)
  <2>1. /\ o.pc = "call" /\ Outcome(w, FailedRefresh(o.snap))
        /\ issued' = [issued EXCEPT ![o.id] = @ + 1]
        /\ faulted' = faulted \cup {o.id}
        /\ UNCHANGED <<now, store, creds, pool, sem, loops, refreshCancel, overlapped>>
    BY <1>8 DEF RefreshAnswerLost
  <2>2. ops' \in [Threads -> Op] /\ Shapes' /\ SemaphoreCountsWorkers'
    BY <1>4, <1>6, <2>1
  <2>3. issued' \in [Ids -> Nat]
    BY <1>2, <2>1 DEF TypeOK
  <2>4. faulted' \subseteq Ids
    BY <1>2, <2>1 DEF TypeOK
  <2> QED
    BY <2>1, <2>2, <2>3, <2>4 DEF TypeOK, OwnIds
<1>9. CASE RefreshNothing(w)
  <2> DEFINE c == [o.snap EXCEPT !.status = "active"]
  <2>1. /\ o.pc = "call" /\ Outcome(w, c)
        /\ UNCHANGED <<now, store, creds, pool, sem, loops, refreshCancel, issued, overlapped,
                       faulted>>
    BY <1>9 DEF RefreshNothing
  <2>2. "active" \in Status
    BY DEF Status
  <2>3. c \in Credential /\ c.id = o.id
    BY <1>2, <2>1, <2>2, StatusType
  <2> HIDE DEF c
  <2>4. ops' \in [Threads -> Op] /\ Shapes' /\ SemaphoreCountsWorkers'
    BY <1>4, <2>1, <2>3
  <2> QED
    BY <2>1, <2>4 DEF TypeOK, OwnIds
<1>10. CASE Release(w)
  <2>1. /\ o.pc = "release" /\ sem' = sem - 1
        /\ ops' = [ops EXCEPT ![w] = Idle]
        /\ UNCHANGED <<now, store, creds, pool, loops, refreshCancel, issued, overlapped, faulted>>
    BY <1>10 DEF Release
  <2>2. ops' \in [Threads -> Op] /\ Shapes'
    BY <1>1, <2>1, IdleShape, OneRecord
  <2>3. /\ IsFiniteSet(Active) /\ w \in Active
        /\ Active' = Active \ {w}
    <3>1. IsFiniteSet(Active)
      BY ManagerAssumption, FS_Subset DEF Active
    <3>2. \A u \in Workers : ops'[u] = IF u = w THEN Idle ELSE ops[u]
      BY <2>1 DEF TypeOK, Threads
    <3>3. Active' = Active \ {w}
      BY <3>2 DEF Active, Idle
    <3> QED
      BY <2>1, <3>1, <3>3 DEF Active
  <2>4. Cardinality(Active') = Cardinality(Active) - 1 /\ Cardinality(Active) \in Nat
        /\ Cardinality(Active') \in Nat
    BY <2>3, FS_RemoveElement, FS_CardinalityType
  <2>5. sem' \in Nat /\ SemaphoreCountsWorkers'
    BY <2>1, <2>4, ManagerAssumption DEF SemaphoreCountsWorkers, Active
  <2> QED
    BY <2>1, <2>2, <2>5 DEF TypeOK, OwnIds
<1> QED
  BY <1>5, <1>7, <1>8, <1>9, <1>10 DEF WorkerStep

\* The loops before the records of their candidates are looked into.
Loop == [status: {"new", "on", "off"}, cancelled: BOOLEAN, cands: SUBSET Credential]

\* snapshotForRefresh (manager.go:546-560) yields credentials of the map, one
\* per ID.
LEMMA CandidatesType ==
  ASSUME TypeInv
  PROVE  /\ Candidates \subseteq Credential
         /\ \A c \in Candidates : c.id \in Ids /\ creds[c.id] = c
         /\ \A c, d \in Candidates : c.id = d.id => c = d
<1>1. \A c \in Candidates : c \in Credential /\ c.id \in Ids /\ creds[c.id] = c
  BY DEF TypeInv, TypeOK, OwnIds, Candidates
<1> QED
  BY <1>1

\* A loop that only loses candidates or changes its flags keeps its type.
LEMMA LoopShrinks ==
  ASSUME TypeOK, OwnIds, NEW l \in Loops, NEW new \in Loop,
         new.cands \subseteq loops[l].cands,
         loops' = [loops EXCEPT ![l] = new], UNCHANGED <<creds, store>>
  PROVE  loops' \in [Loops -> Loop] /\ OwnIds'
<1>1. loops \in [Loops -> Loop]
  BY DEF TypeOK, Loop
<1>2. loops' \in [Loops -> Loop]
  BY <1>1
<1>3. \A k \in Loops : loops'[k].cands \subseteq loops[k].cands
  BY <1>1
<1>4. \A k \in Loops : \A c, d \in loops'[k].cands : c.id = d.id => c = d
  BY <1>3 DEF OwnIds
<1> QED
  BY <1>2, <1>4 DEF OwnIds

\* A step of the refresh loop (manager.go:472-530).
LEMMA LoopType ==
  ASSUME TypeInv, NEW l \in Loops, LoopStep(l)
  PROVE  TypeInv'
<1> USE DEF TypeInv
<1>1. loops \in [Loops -> Loop] /\ loops[l] \in Loop
  BY DEF TypeOK, Loop
<1>2. CASE StartRefreshLoop(l)
  <2>1. [loops[l] EXCEPT !.status = "on"] \in Loop
        /\ [loops[l] EXCEPT !.status = "on"].cands = loops[l].cands
    BY <1>1 DEF Loop
  <2>2. loops' = [loops EXCEPT ![l] = [loops[l] EXCEPT !.status = "on"]]
    BY <1>2 DEF StartRefreshLoop
  <2>3. loops' \in [Loops -> Loop] /\ OwnIds'
    BY <2>1, <2>2, <1>2, LoopShrinks DEF StartRefreshLoop
  <2>4. /\ refreshCancel' = l
        /\ UNCHANGED <<now, store, creds, pool, ops, sem, issued, overlapped, faulted>>
    BY <1>2 DEF StartRefreshLoop
  <2> QED
    BY <2>3, <2>4 DEF TypeOK, Loop, Shapes, SemaphoreCountsWorkers
<1>3. CASE LoopExits(l)
  <2>1. [loops[l] EXCEPT !.status = "off"] \in Loop
        /\ [loops[l] EXCEPT !.status = "off"].cands = loops[l].cands
    BY <1>1 DEF Loop
  <2>2. loops' = [loops EXCEPT ![l] = [loops[l] EXCEPT !.status = "off"]]
    BY <1>3 DEF LoopExits
  <2>3. loops' \in [Loops -> Loop] /\ OwnIds'
    BY <2>1, <2>2, <1>3, LoopShrinks DEF LoopExits
  <2>4. UNCHANGED <<now, store, creds, pool, ops, sem, refreshCancel, issued, overlapped, faulted>>
    BY <1>3 DEF LoopExits
  <2> QED
    BY <2>3, <2>4 DEF TypeOK, Loop, Shapes, SemaphoreCountsWorkers
<1>4. CASE RunRefreshCycle(l)
  <2>1. [loops[l] EXCEPT !.cands = Candidates] \in Loop
        /\ [loops[l] EXCEPT !.cands = Candidates].cands = Candidates
    BY <1>1, CandidatesType DEF Loop
  <2>2. loops' = [loops EXCEPT ![l] = [loops[l] EXCEPT !.cands = Candidates]]
    BY <1>4 DEF RunRefreshCycle
  <2>3. loops' \in [Loops -> Loop]
    BY <1>1, <2>1, <2>2
  <2>4. \A k \in Loops : loops'[k].cands = IF k = l THEN Candidates ELSE loops[k].cands
    BY <1>1, <2>1, <2>2
  <2>5. /\ overlapped' = overlapped \cup {id \in {c.id : c \in Candidates} : Busy(id)}
        /\ UNCHANGED <<now, store, creds, pool, ops, sem, refreshCancel, issued, faulted>>
    BY <1>4 DEF RunRefreshCycle
  <2>6. overlapped' \subseteq Ids
    BY <2>5, CandidatesType DEF TypeOK
  <2>7. OwnIds'
    BY <2>4, <2>5, CandidatesType DEF OwnIds
  <2> QED
    BY <2>3, <2>5, <2>6, <2>7 DEF TypeOK, Loop, Shapes, SemaphoreCountsWorkers
<1>6. ASSUME NEW c \in loops[l].cands, CycleFull(l, c)
      PROVE  TypeInv'
  <2>1. [loops[l] EXCEPT !.cands = {}] \in Loop
        /\ [loops[l] EXCEPT !.cands = {}].cands \subseteq loops[l].cands
    BY <1>1 DEF Loop
  <2>2. loops' = [loops EXCEPT ![l] = [loops[l] EXCEPT !.cands = {}]]
    BY <1>6 DEF CycleFull
  <2>3. loops' \in [Loops -> Loop] /\ OwnIds'
    BY <2>1, <2>2, <1>6, LoopShrinks DEF CycleFull
  <2>4. UNCHANGED <<now, store, creds, pool, ops, sem, refreshCancel, issued, overlapped, faulted>>
    BY <1>6 DEF CycleFull
  <2> QED
    BY <2>3, <2>4 DEF TypeOK, Loop, Shapes, SemaphoreCountsWorkers
<1>7. ASSUME NEW c \in loops[l].cands, NEW w \in Workers, SpawnRefresh(l, c, w)
      PROVE  TypeInv'
  <2> DEFINE n == [kind |-> "refreshing", pc |-> "persist", id |-> c.id,
                   cred |-> [c EXCEPT !.status = "refreshing"], snap |-> c, loop |-> l]
  <2>1. [loops[l] EXCEPT !.cands = @ \ {c}] \in Loop
        /\ [loops[l] EXCEPT !.cands = @ \ {c}].cands \subseteq loops[l].cands
        /\ c \in Credential
    BY <1>1 DEF Loop
  <2>2. loops' = [loops EXCEPT ![l] = [loops[l] EXCEPT !.cands = @ \ {c}]]
    BY <1>7 DEF SpawnRefresh
  <2>3. loops' \in [Loops -> Loop] /\ OwnIds'
    BY <2>1, <2>2, <1>7, LoopShrinks DEF SpawnRefresh
  <2>4. /\ ops' = [ops EXCEPT ![w] = n] /\ ops[w].pc = "idle"
        /\ sem' = sem + 1 /\ sem < SemaphoreCap
        /\ UNCHANGED <<now, store, creds, pool, refreshCancel, issued, overlapped, faulted>>
    BY <1>7 DEF SpawnRefresh
  <2>5. /\ [c EXCEPT !.status = "refreshing"] \in Credential
        /\ [c EXCEPT !.status = "refreshing"].id = c.id
        /\ c.id \in Ids
    BY <2>1, StatusType DEF Status, Credential
  <2>6. n \in Op /\ ShapeOf(w, n) /\ n.pc = "persist"
    BY <2>1, <2>5 DEF Op, Kinds, PCs, ShapeOf
  <2> HIDE DEF n
  <2>7. ops' \in [Threads -> Op] /\ Shapes' /\ w \in Threads
    BY <2>4, <2>6, OneRecord DEF Threads
  <2>8. IsFiniteSet(Active) /\ w \notin Active /\ Active' = Active \cup {w}
    <3>1. IsFiniteSet(Active)
      BY ManagerAssumption, FS_Subset DEF Active
    <3>2. \A u \in Workers : ops'[u] = IF u = w THEN n ELSE ops[u]
      BY <2>4 DEF TypeOK, Threads
    <3> QED
      BY <2>4, <2>6, <3>1, <3>2 DEF Active
  <2>9. Cardinality(Active') = Cardinality(Active) + 1
    BY <2>8, FS_AddElement
  <2>10. sem' \in Nat /\ SemaphoreCountsWorkers'
    BY <2>4, <2>9, ManagerAssumption DEF SemaphoreCountsWorkers, Active, TypeOK
  <2> QED
    BY <2>3, <2>4, <2>7, <2>10 DEF TypeOK, Loop
<1> QED
  BY <1>2, <1>3, <1>4, <1>6, <1>7 DEF LoopStep, CandidateStep

\* StopRefreshLoop, a crash with the Load that follows it, and the clock
\* (manager.go:486-494, 187-211).
LEMMA ProcessType ==
  ASSUME TypeInv, StopRefreshLoop \/ Restart \/ Tick \/ UNCHANGED vars
  PROVE  TypeInv'
<1> USE DEF TypeInv
<1>1. loops \in [Loops -> Loop]
  BY DEF TypeOK, Loop
<1>2. CASE StopRefreshLoop
  <2> DEFINE l == refreshCancel
  <2>1. l \in Loops
    BY <1>2 DEF StopRefreshLoop, TypeOK
  <2>2. [loops[l] EXCEPT !.cancelled = TRUE] \in Loop
        /\ [loops[l] EXCEPT !.cancelled = TRUE].cands = loops[l].cands
    BY <1>1, <2>1 DEF Loop
  <2>3. loops' = [loops EXCEPT ![l] = [loops[l] EXCEPT !.cancelled = TRUE]]
    BY <1>2 DEF StopRefreshLoop
  <2>4. /\ refreshCancel' = None
        /\ UNCHANGED <<now, store, creds, pool, ops, sem, issued, overlapped, faulted>>
    BY <1>2 DEF StopRefreshLoop
  <2> HIDE DEF l
  <2>5. loops' \in [Loops -> Loop] /\ OwnIds'
    BY <2>1, <2>2, <2>3, <2>4, LoopShrinks
  <2> QED
    BY <2>4, <2>5 DEF TypeOK, Loop, Shapes, SemaphoreCountsWorkers
<1>3. CASE Restart
  <2>1. /\ creds' = [id \in Ids |-> IF store[id] = None THEN None ELSE Loaded(store[id])]
        /\ pool' = [id \in Ids |-> IF store[id] = None THEN None
                                   ELSE Scheduled(Loaded(store[id]))]
        /\ ops' = [t \in Threads |-> Idle]
        /\ sem' = 0
        /\ loops' = [l \in Loops |-> NewLoop]
        /\ refreshCancel' = None
        /\ faulted' = faulted \cup overlapped \cup
                        {id \in Ids : \E t \in Threads : ops[t].id = id}
        /\ overlapped' = {}
        /\ UNCHANGED <<now, store, issued>>
    BY <1>3 DEF Restart
  <2>2. \A id \in Ids : store[id] # None =>
          /\ Loaded(store[id]) \in Credential /\ Loaded(store[id]).id = id
          /\ Scheduled(Loaded(store[id])) \in Credential \cup {None}
    BY LoadedType DEF TypeOK, OwnIds, Scheduled
  <2>3. creds' \in [Ids -> Credential \cup {None}] /\ pool' \in [Ids -> Credential \cup {None}]
    BY <2>1, <2>2
  <2>4. ops' \in [Threads -> Op] /\ Shapes'
    BY <2>1, IdleShape DEF Shapes
  <2>5. loops' \in [Loops -> Loop] /\ \A l \in Loops : loops'[l].cands = {}
    BY <2>1 DEF NewLoop, Loop
  <2>6. OwnIds'
    BY <2>1, <2>2, <2>5 DEF OwnIds, TypeOK
  <2>7. SemaphoreCountsWorkers'
    <3>1. Active' = {}
      BY <2>1 DEF Active, Idle, Threads
    <3>2. Cardinality(Active') = 0
      BY <3>1, FS_EmptySet, Zenon
    <3> QED
      BY <2>1, <3>2, ManagerAssumption DEF SemaphoreCountsWorkers, Active
  <2>8. overlapped' \subseteq Ids /\ faulted' \subseteq Ids
    BY <2>1 DEF TypeOK
  <2> QED
    BY <2>1, <2>3, <2>4, <2>5, <2>6, <2>7, <2>8 DEF TypeOK, Loop
<1>4. CASE Tick
  BY <1>4 DEF Tick, TypeOK, Shapes, OwnIds, SemaphoreCountsWorkers
<1>5. CASE UNCHANGED vars
  BY <1>5 DEF vars, TypeOK, Shapes, OwnIds, SemaphoreCountsWorkers
<1> QED
  BY <1>2, <1>3, <1>4, <1>5

\* The state NewManager leaves (manager.go:101-119) satisfies TypeInv.
LEMMA InitType == Init => TypeInv
<1> SUFFICES ASSUME Init PROVE TypeInv
  OBVIOUS
<1>1. ops \in [Threads -> Op] /\ Shapes
  BY IdleShape DEF Init, Shapes
<1>2. loops \in [Loops -> Loop] /\ \A l \in Loops : loops[l].cands = {}
  BY DEF Init, NewLoop, Loop
<1>3. issued \in [Ids -> Nat]
  BY ManagerAssumption DEF Init, Credential
<1>4. TypeOK
  BY <1>1, <1>2, <1>3 DEF Init, TypeOK, Loop
<1>5. OwnIds
  BY <1>2 DEF Init, OwnIds
<1>6. Active = {}
  BY DEF Init, Active, Idle, Threads
<1>7. Cardinality(Active) = 0
  BY <1>6, FS_EmptySet, Zenon
<1>8. SemaphoreCountsWorkers
  BY <1>7, ManagerAssumption DEF Init, SemaphoreCountsWorkers, Active
<1> QED
  BY <1>1, <1>4, <1>5, <1>8 DEF TypeInv

\* Every step of the manager keeps TypeInv.
LEMMA NextType == TypeInv /\ [Next]_vars => TypeInv'
BY StartsType, ThreadType, WorkerType, LoopType, ProcessType DEF Next

\* The manager's state is well-typed whatever its threads, loops, faults and
\* crashes do.
THEOREM TypeCorrect == Spec => []TypeOK
<1>1. Spec => []TypeInv
  BY InitType, NextType, PTL DEF Spec
<1>2. TypeInv => TypeOK
  BY DEF TypeInv
<1> QED
  BY <1>1, <1>2, PTL

\* The semaphore always counts the live refresh goroutines: no path through
\* runRefreshCycle and refreshOne (manager.go:509-606) loses a slot, returns
\* one twice, or lets more than the capacity run.
THEOREM SemaphoreSafe == Spec => []SemaphoreCountsWorkers
<1>1. Spec => []TypeInv
  BY InitType, NextType, PTL DEF Spec
<1>2. TypeInv => SemaphoreCountsWorkers
  BY DEF TypeInv
<1> QED
  BY <1>1, <1>2, PTL

\* Only Create makes a row (manager.go:216-249, 252-273; jsonstore.go:119-143):
\* whatever interleaves with a Deregister, an Update does not bring the row it
\* deleted back.
THEOREM RowsComeFromRegister == Spec => NoRowResurrected
<1> DEFINE A == \A id \in Ids : store[id] = None /\ store'[id] # None =>
                  \E t \in Threads : ops[t].id = id /\ ops[t].kind = "register"
                                     /\ ops'[t].pc = "memory"
<1>1. Spec => []TypeInv
  BY InitType, NextType, PTL DEF Spec
<1>2. TypeInv /\ Next => A
  <2> SUFFICES ASSUME TypeInv, Next PROVE A
    OBVIOUS
  <2>1. CASE store' = store
    BY <2>1
  <2>2. ASSUME NEW t \in Threads, Persist(t) PROVE A
    <3>1. /\ store' = [store EXCEPT ![ops[t].id] = ops[t].cred]
          /\ RowAccepts(ops[t])
          /\ ops' = [ops EXCEPT ![t].pc = "memory"]
      BY <2>2 DEF Persist
    <3>2. ops'[t].pc = "memory"
      BY <3>1 DEF TypeInv, TypeOK, Op
    <3>3. \A id \in Ids : store'[id] # store[id] => id = ops[t].id
      BY <3>1 DEF TypeInv, TypeOK
    <3> QED
      BY <3>1, <3>2, <3>3 DEF RowAccepts
  <2>3. ASSUME NEW t \in Threads, DeleteRow(t) PROVE A
    BY <2>3 DEF DeleteRow, TypeInv, TypeOK
  <2>4. ASSUME NEW t \in Clients, ClientStarts(t) PROVE store' = store
    BY <2>4 DEF ClientStarts, Register, MarkResult, Deregister
  <2>5. ASSUME NEW t \in Threads,
               \/ PersistFails(t) \/ WriteMemory(t) \/ WriteSchedule(t)
               \/ Unschedule(t) \/ DeleteFails(t)
        PROVE  store' = store
    BY <2>5 DEF PersistFails, WriteMemory, WriteSchedule, Unschedule, DeleteFails
  <2>6. ASSUME NEW w \in Workers, WorkerStep(w) PROVE store' = store
    BY <2>6 DEF WorkerStep, RefreshSucceeds, RefreshFails, RefreshAnswerLost, RefreshNothing,
                Release
  <2>7. ASSUME NEW l \in Loops, LoopStep(l) PROVE store' = store
    BY <2>7 DEF LoopStep, CandidateStep, StartRefreshLoop, LoopExits, RunRefreshCycle,
                CycleFull, SpawnRefresh
  <2>8. StopRefreshLoop \/ Restart \/ Tick => store' = store
    BY DEF StopRefreshLoop, Restart, Tick
  <2> HIDE DEF A
  <2> QED
    BY <2>1, <2>2, <2>3, <2>4, <2>5, <2>6, <2>7, <2>8 DEF Next, ThreadStep
<1>3. TypeInv /\ [Next]_vars => [A]_vars
  BY <1>2
<1> QED
  BY <1>1, <1>3, PTL DEF Spec, NoRowResurrected
=============================================================================
