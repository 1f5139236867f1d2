------------------------- MODULE ManagerAgree_proofs -------------------------
(***************************************************************************)
(* The three copies of a credential agree once its operations have ended:  *)
(* SettledAgree for every set of credentials, threads and loops and every  *)
(* pattern of faults and crashes.                                          *)
(*                                                                         *)
(* SettledAgree speaks about credentials at rest only.  The invariant that *)
(* carries it says in addition that a credential without overlap is in one *)
(* hand at a time (Exclusive) and how far that hand has come with its      *)
(* three writes (Stages).                                                  *)
(*                                                                         *)
(* The second half is about the tokens: TokenIsCurrent and RefreshingEnds, *)
(* carried by TokenInv on top of the first invariant.                      *)
(***************************************************************************)
EXTENDS Manager_proofs

\* An ID that never saw two operations overlap is in the hands of one thread
\* or of one cycle at most.
Exclusive ==
  \A id \in Ids \ overlapped :
    /\ \A t, u \in Threads : ops[t].id = id /\ ops[u].id = id => t = u
    /\ \A t \in Threads, l \in Loops : \A c \in loops[l].cands :
         c.id = id => ops[t].id # id
    /\ \A k, l \in Loops : \A c \in loops[k].cands, d \in loops[l].cands :
         c.id = id /\ d.id = id => k = l

\* How far the three copies have come when a thread is at one of its steps.
Stage(t) ==
  LET o == ops[t]
      id == o.id IN
  o.pc # "idle" /\ id \notin overlapped =>
    /\ o.pc \in {"persist", "call", "release"} => Agree(id)
    /\ o.pc = "memory" => store[id] = o.cred /\ pool[id] = Scheduled(creds[id])
    /\ o.pc = "schedule" => store[id] = o.cred /\ creds[id] = o.cred
    /\ o.pc = "unschedule" => creds[id] = None
    /\ o.pc = "delete" => creds[id] = None /\ pool[id] = None

Stages == \A t \in Threads : Stage(t)

\* Where no thread is at work the copies agree.
AtRest ==
  \A id \in Ids \ overlapped : (\A t \in Threads : ops[t].id # id) => Agree(id)

AgreeInv == Exclusive /\ Stages /\ AtRest

IInv == TypeInv /\ AgreeInv

-----------------------------------------------------------------------------
(* Lemmas about one credential *)

\* Agreement on a credential that a step does not touch is kept.
LEMMA AgreeKept ==
  ASSUME NEW j, Agree(j), store'[j] = store[j], creds'[j] = creds[j], pool'[j] = pool[j],
         faulted \subseteq faulted'
  PROVE  Agree(j)'
BY DEF Agree

\* So is the stage of a thread that works on it.
LEMMA StageKept ==
  ASSUME NEW u, Stage(u), ops'[u] = ops[u], overlapped \subseteq overlapped',
         LET j == ops[u].id IN
         /\ store'[j] = store[j] /\ creds'[j] = creds[j] /\ pool'[j] = pool[j],
         faulted \subseteq faulted'
  PROVE  Stage(u)'
<1> DEFINE o == ops[u]
           j == ops[u].id
<1>1. Agree(j) => Agree(j)'
  BY AgreeKept
<1> QED
  BY <1>1 DEF Stage, Agree

\* A step of the only thread at work on a credential.
LEMMA LocalStep ==
  ASSUME IInv, TypeInv', NEW t \in Threads, NEW id \in Ids, ops[t].id = id, NEW o,
         ops' = [ops EXCEPT ![t] = o], o.id = id \/ o = Idle,
         loops' = loops, overlapped' = overlapped, faulted \subseteq faulted',
         \A j \in Ids \ {id} : /\ store'[j] = store[j] /\ creds'[j] = creds[j]
                               /\ pool'[j] = pool[j],
         id \notin overlapped => IF o = Idle THEN Agree(id)' ELSE Stage(t)'
  PROVE  AgreeInv'
<1> USE DEF IInv, AgreeInv
<1>1. \A u \in Threads : ops'[u] = IF u = t THEN o ELSE ops[u]
  BY DEF TypeInv, TypeOK
<1>2. Idle.id \notin Ids /\ Idle.pc = "idle" /\ Idle.id = None
  BY ConstantsAssumption DEF Idle
<1>3. Exclusive'
  BY <1>1, <1>2 DEF Exclusive
<1>4. \A u \in Threads : ops[u].id \in Ids \/ ops[u].pc = "idle"
  BY DEF TypeInv, Shapes, ShapeOf
<1>5. ASSUME NEW u \in Threads PROVE Stage(u)'
  <2>1. CASE ops'[u].pc = "idle" \/ ops'[u].id \in overlapped'
    BY <2>1 DEF Stage
  <2>2. CASE ops'[u].pc # "idle" /\ ops'[u].id \notin overlapped' /\ u = t
    BY <1>1, <1>2, <2>2
  <2>3. CASE ops'[u].pc # "idle" /\ ops'[u].id \notin overlapped' /\ u # t
    <3>1. ops'[u] = ops[u] /\ ops[u].id \in Ids \ {id}
      BY <1>1, <1>4, <2>3 DEF Exclusive
    <3> QED
      BY <3>1, StageKept DEF Stages
  <2> QED
    BY <2>1, <2>2, <2>3
<1>6. ASSUME NEW j \in Ids \ overlapped', \A u \in Threads : ops'[u].id # j
      PROVE  Agree(j)'
  <2>1. CASE j = id
    BY <1>1, <1>6, <2>1
  <2>2. CASE j # id
    <3>1. \A u \in Threads : ops[u].id # j
      BY <1>1, <1>6, <2>2
    <3>2. Agree(j)
      BY <3>1, <1>6 DEF AtRest
    <3> QED
      BY <3>2, <2>2, <1>6, AgreeKept
  <2> QED
    BY <2>1, <2>2
<1> QED
  BY <1>3, <1>5, <1>6 DEF Stages, AtRest

\* The start of a call: either nobody else is at work on the credential, or
\* it counts as overlapped from now on.
LEMMA StartStep ==
  ASSUME IInv, TypeInv', NEW t \in Threads, NEW id \in Ids, ops[t].pc = "idle",
         NEW o, o.id = id, Begin(t, o),
         loops' = loops, faulted \subseteq faulted',
         \A j \in Ids \ {id} : /\ store'[j] = store[j] /\ creds'[j] = creds[j]
                               /\ pool'[j] = pool[j],
         id \notin overlapped' /\ Agree(id) => Stage(t)'
  PROVE  AgreeInv'
<1> USE DEF IInv, AgreeInv
<1>1. /\ ops' = [ops EXCEPT ![t] = o]
      /\ overlapped' = overlapped \cup (IF Busy(id) THEN {id} ELSE {})
  BY DEF Begin
<1>2. \A u \in Threads : ops'[u] = IF u = t THEN o ELSE ops[u]
  BY <1>1 DEF TypeInv, TypeOK
<1>3. ops[t].id \notin Ids
  BY ConstantsAssumption DEF TypeInv, Shapes, ShapeOf, Idle
<1>4. id \notin overlapped' =>
        /\ id \notin overlapped
        /\ \A u \in Threads : ops[u].id # id
        /\ \A l \in Loops : \A c \in loops[l].cands : c.id # id
  BY <1>1 DEF Busy
<1>5. overlapped \subseteq overlapped'
  BY <1>1
<1>6. Exclusive'
  BY <1>2, <1>4, <1>5 DEF Exclusive
<1>7. \A u \in Threads : ops[u].id \in Ids \/ ops[u].pc = "idle"
  BY DEF TypeInv, Shapes, ShapeOf
<1>8. ASSUME NEW u \in Threads PROVE Stage(u)'
  <2>1. CASE ops'[u].pc = "idle" \/ ops'[u].id \in overlapped'
    BY <2>1 DEF Stage
  <2>2. CASE ops'[u].pc # "idle" /\ ops'[u].id \notin overlapped' /\ u = t
    <3>1. Agree(id)
      BY <1>2, <1>4, <2>2 DEF AtRest
    <3> QED
      BY <1>2, <2>2, <3>1
  <2>3. CASE ops'[u].pc # "idle" /\ ops'[u].id \notin overlapped' /\ u # t
    <3>1. ops'[u] = ops[u] /\ ops[u].id \in Ids \ {id}
      BY <1>2, <1>4, <1>7, <2>3
    <3> QED
      BY <1>5, <3>1, StageKept DEF Stages
  <2> QED
    BY <2>1, <2>2, <2>3
<1>9. ASSUME NEW j \in Ids \ overlapped', \A u \in Threads : ops'[u].id # j
      PROVE  Agree(j)'
  <2>1. j # id
    BY <1>2, <1>9
  <2>2. \A u \in Threads : ops[u].id # j
    BY <1>2, <1>3, <1>9
  <2>3. Agree(j)
    BY <1>5, <1>9, <2>2 DEF AtRest
  <2> QED
    BY <2>1, <2>3, <1>9, AgreeKept
<1> QED
  BY <1>6, <1>8, <1>9 DEF Stages, AtRest

-----------------------------------------------------------------------------
(* The steps *)

\* A call that a request handler starts.
LEMMA StartsAgree ==
  ASSUME IInv, TypeInv', NEW t \in Clients, ClientStarts(t)
  PROVE  AgreeInv'
<1>1. PICK id \in Ids : \/ Register(t, id)
                        \/ \E r \in Results : MarkResult(t, id, r)
                        \/ Deregister(t, id)
  BY DEF ClientStarts
<1>2. t \in Threads /\ ops \in [Threads -> Op]
  BY DEF Threads, IInv, TypeInv, TypeOK
<1>3. ASSUME NEW kind, NEW c, Begin(t, Call(kind, "persist", id, c)),
             UNCHANGED <<store, creds, pool, loops, faulted>>
      PROVE  AgreeInv'
  <2> DEFINE o == Call(kind, "persist", id, c)
  <2>1. o.id = id /\ o.pc = "persist"
    BY DEF Call
  <2>2. ops[t].pc = "idle" /\ ops'[t] = o
    BY <1>2, <1>3 DEF Begin
  <2> HIDE DEF o
  <2>3. Agree(id) => Agree(id)'
    BY <1>3, AgreeKept
  <2>4. Agree(id) => Stage(t)'
    BY <2>1, <2>2, <2>3 DEF Stage
  <2> QED
    BY <1>2, <1>3, <2>1, <2>2, <2>4, StartStep DEF o
<1>4. CASE Register(t, id)
  BY <1>3, <1>4 DEF Register
<1>5. ASSUME NEW r \in Results, MarkResult(t, id, r) PROVE AgreeInv'
  BY <1>3, <1>5 DEF MarkResult
<1>6. CASE Deregister(t, id)
  <2> DEFINE o == Call("deregister", "unschedule", id, None)
  <2>1. o.id = id /\ o.pc = "unschedule"
    BY DEF Call
  <2>2. /\ Begin(t, o) /\ creds' = [creds EXCEPT ![id] = None]
        /\ UNCHANGED <<store, pool, loops, faulted>>
    BY <1>6 DEF Deregister
  <2>3. ops[t].pc = "idle" /\ ops'[t] = o
    BY <1>2, <2>2 DEF Begin
  <2> HIDE DEF o
  <2>4. creds'[id] = None /\ \A j \in Ids \ {id} : creds'[j] = creds[j]
    BY <2>2 DEF IInv, TypeInv, TypeOK
  <2>5. Stage(t)'
    BY <2>1, <2>3, <2>4 DEF Stage
  <2> QED
    BY <1>2, <2>1, <2>2, <2>3, <2>4, <2>5, StartStep
<1> QED
  BY <1>1, <1>4, <1>5, <1>6

\* A step of Register, Update or Deregister after its start: the stage of
\* the thread moves on with the copy it writes, and an error of the store
\* leaves the copies as they were.
LEMMA ThreadAgree ==
  ASSUME IInv, TypeInv', NEW t \in Threads, ThreadStep(t)
  PROVE  AgreeInv'
<1> DEFINE o == ops[t]
<1>1. ops \in [Threads -> Op] /\ o \in Op /\ ShapeOf(t, o) /\ Stage(t)
  BY DEF IInv, TypeInv, TypeOK, Shapes, AgreeInv, Stages
<1>2. o.pc # "idle"
  BY DEF ThreadStep, Persist, PersistFails, WriteMemory, WriteSchedule, Unschedule, DeleteRow,
         DeleteFails
<1>3. PICK id \in Ids : o.id = id
  BY <1>1, <1>2 DEF ShapeOf
<1>4. /\ store \in [Ids -> Credential \cup {None}]
      /\ creds \in [Ids -> Credential \cup {None}]
      /\ pool \in [Ids -> Credential \cup {None}]
  BY DEF IInv, TypeInv, TypeOK
<1>5. o.pc = "schedule" => o.cred # None
  BY <1>1, ConstantsAssumption DEF ShapeOf
<1>6. ASSUME NEW pc, ops' = [ops EXCEPT ![t].pc = pc], pc # "idle"
      PROVE  \E n : /\ ops' = [ops EXCEPT ![t] = n] /\ ops'[t] = n /\ n # Idle
                    /\ n.id = id /\ n.pc = pc /\ n.cred = o.cred
  <2> DEFINE n == [o EXCEPT !.pc = pc]
  <2>1. ops' = [ops EXCEPT ![t] = n]
    BY <1>6
  <2>2. n.id = id /\ n.pc = pc /\ n.cred = o.cred
    BY <1>1, <1>3 DEF Op
  <2> HIDE DEF n
  <2>3. n # Idle
    BY <1>6, <2>2 DEF Idle
  <2> QED
    BY <1>1, <2>1, <2>2, <2>3
<1>7. CASE Persist(t)
  <2>a. o.pc = "persist" /\ ops' = [ops EXCEPT ![t].pc = "memory"]
    BY <1>3, <1>7 DEF Persist
  <2>1. /\ store' = [store EXCEPT ![id] = o.cred]
        /\ UNCHANGED <<creds, pool, loops, overlapped, faulted>>
    BY <1>3, <1>7 DEF Persist
  <2>2. PICK n : /\ ops' = [ops EXCEPT ![t] = n] /\ ops'[t] = n /\ n # Idle
                 /\ n.id = id /\ n.pc = "memory" /\ n.cred = o.cred
    BY <1>6, <2>a
  <2>3. store'[id] = o.cred /\ \A j \in Ids \ {id} : store'[j] = store[j]
    BY <1>3, <1>4, <2>1
  <2>4. id \notin overlapped => Stage(t)'
    BY <1>1, <1>2, <1>3, <2>a, <2>1, <2>2, <2>3 DEF Stage, Agree
  <2> QED
    BY <1>3, <2>1, <2>2, <2>3, <2>4, LocalStep
<1>8. CASE WriteMemory(t)
  <2>a. o.pc = "memory" /\ ops' = [ops EXCEPT ![t].pc = "schedule"]
    BY <1>3, <1>8 DEF WriteMemory
  <2>1. /\ creds' = [creds EXCEPT ![id] = o.cred]
        /\ UNCHANGED <<store, pool, loops, overlapped, faulted>>
    BY <1>3, <1>8 DEF WriteMemory
  <2>2. PICK n : /\ ops' = [ops EXCEPT ![t] = n] /\ ops'[t] = n /\ n # Idle
                 /\ n.id = id /\ n.pc = "schedule" /\ n.cred = o.cred
    BY <1>6, <2>a
  <2>3. creds'[id] = o.cred /\ \A j \in Ids \ {id} : creds'[j] = creds[j]
    BY <1>3, <1>4, <2>1
  <2>4. id \notin overlapped => Stage(t)'
    BY <1>1, <1>2, <1>3, <2>a, <2>1, <2>2, <2>3 DEF Stage
  <2> QED
    BY <1>3, <2>1, <2>2, <2>3, <2>4, LocalStep
<1>9. CASE Unschedule(t)
  <2>a. o.pc = "unschedule" /\ ops' = [ops EXCEPT ![t].pc = "delete"]
    BY <1>3, <1>9 DEF Unschedule
  <2>1. /\ pool' = [pool EXCEPT ![id] = None]
        /\ UNCHANGED <<store, creds, loops, overlapped, faulted>>
    BY <1>3, <1>9 DEF Unschedule
  <2>2. PICK n : /\ ops' = [ops EXCEPT ![t] = n] /\ ops'[t] = n /\ n # Idle
                 /\ n.id = id /\ n.pc = "delete" /\ n.cred = o.cred
    BY <1>6, <2>a
  <2>3. pool'[id] = None /\ \A j \in Ids \ {id} : pool'[j] = pool[j]
    BY <1>3, <1>4, <2>1
  <2>4. id \notin overlapped => Stage(t)'
    BY <1>1, <1>2, <1>3, <2>a, <2>1, <2>2, <2>3 DEF Stage
  <2> QED
    BY <1>3, <2>1, <2>2, <2>3, <2>4, LocalStep
<1>10. ASSUME Continue(t), o.pc \in {"persist", "schedule"},
              loops' = loops, overlapped' = overlapped, faulted \subseteq faulted',
              \A j \in Ids \ {id} : /\ store'[j] = store[j] /\ creds'[j] = creds[j]
                                    /\ pool'[j] = pool[j],
              id \notin overlapped => Agree(id)'
       PROVE  AgreeInv'
  <2>1. PICK n \in Op : /\ ops' = [ops EXCEPT ![t] = n]
                        /\ ShapeOf(t, n)
                        /\ n.pc \in {"idle", "call", "release"}
                        /\ n.pc # "idle" => n.id = ops[t].id
    BY <1>10, ContinueShape DEF IInv, TypeInv
  <2>2. ops'[t] = n /\ (n.id = id \/ n = Idle)
    BY <1>1, <1>3, <2>1 DEF ShapeOf
  <2>3. id \notin overlapped => IF n = Idle THEN Agree(id)' ELSE Stage(t)'
    BY <1>3, <1>10, <2>1, <2>2 DEF Stage
  <2> QED
    BY <1>3, <1>10, <2>1, <2>2, <2>3, LocalStep
<1>11. CASE PersistFails(t)
  <2>1. /\ o.pc = "persist" /\ Continue(t) /\ faulted \subseteq faulted'
        /\ UNCHANGED <<store, creds, pool, loops, overlapped>>
    BY <1>3, <1>11 DEF PersistFails
  <2>2. id \notin overlapped => Agree(id)'
    BY <1>1, <1>3, <2>1, AgreeKept DEF Stage
  <2> QED
    BY <1>10, <2>1, <2>2
<1>12. CASE WriteSchedule(t)
  <2>1. /\ o.pc = "schedule" /\ Continue(t)
        /\ pool' = [pool EXCEPT ![id] = Scheduled(o.cred)]
        /\ UNCHANGED <<store, creds, loops, overlapped, faulted>>
    BY <1>3, <1>12 DEF WriteSchedule
  <2>2. pool'[id] = Scheduled(o.cred) /\ \A j \in Ids \ {id} : pool'[j] = pool[j]
    BY <1>3, <1>4, <2>1
  <2>3. id \notin overlapped => Agree(id)'
    BY <1>1, <1>3, <1>5, <2>1, <2>2 DEF Stage, Agree
  <2> QED
    BY <1>10, <2>1, <2>2, <2>3
<1>13. ASSUME ops' = [ops EXCEPT ![t] = Idle],
              loops' = loops, overlapped' = overlapped, faulted \subseteq faulted',
              \A j \in Ids \ {id} : /\ store'[j] = store[j] /\ creds'[j] = creds[j]
                                    /\ pool'[j] = pool[j],
              id \notin overlapped => Agree(id)'
       PROVE  AgreeInv'
  BY <1>3, <1>13, LocalStep
<1>14. CASE DeleteRow(t)
  <2>1. /\ o.pc = "delete" /\ ops' = [ops EXCEPT ![t] = Idle]
        /\ store' = [store EXCEPT ![id] = None]
        /\ UNCHANGED <<creds, pool, loops, overlapped, faulted>>
    BY <1>3, <1>14 DEF DeleteRow
  <2>2. store'[id] = None /\ \A j \in Ids \ {id} : store'[j] = store[j]
    BY <1>3, <1>4, <2>1
  <2>3. id \notin overlapped => Agree(id)'
    BY <1>1, <1>3, <2>1, <2>2 DEF Stage, Agree, Scheduled
  <2> QED
    BY <1>13, <2>1, <2>2, <2>3
<1>15. CASE DeleteFails(t)
  <2>1. /\ o.pc = "delete" /\ ops' = [ops EXCEPT ![t] = Idle]
        /\ faulted' = faulted \cup {id}
        /\ UNCHANGED <<store, creds, pool, loops, overlapped>>
    BY <1>3, <1>15 DEF DeleteFails
  <2>2. id \notin overlapped => Agree(id)'
    BY <1>1, <1>3, <2>1 DEF Stage, Agree, Scheduled
  <2> QED
    BY <1>13, <2>1, <2>2
<1> QED
  BY <1>7, <1>8, <1>9, <1>11, <1>12, <1>14, <1>15 DEF ThreadStep

\* The provider's answer and the end of a refresh touch none of the copies.
LEMMA WorkerAgree ==
  ASSUME IInv, TypeInv', NEW w \in Workers, WorkerStep(w)
  PROVE  AgreeInv'
<1>1. /\ w \in Threads /\ ops \in [Threads -> Op] /\ ops[w] \in Op
      /\ ShapeOf(w, ops[w]) /\ Stage(w)
  BY DEF IInv, TypeInv, TypeOK, Shapes, AgreeInv, Stages, Threads
<1>2. ops[w].pc \in {"call", "release"}
  BY DEF WorkerStep, RefreshSucceeds, RefreshFails, RefreshAnswerLost, RefreshNothing, Release
<1>3. PICK id \in Ids : ops[w].id = id
  BY <1>1, <1>2 DEF ShapeOf
<1>4. /\ faulted \subseteq faulted'
      /\ UNCHANGED <<store, creds, pool, loops, overlapped>>
  BY DEF WorkerStep, RefreshSucceeds, RefreshFails, RefreshAnswerLost, RefreshNothing, Release
<1>5. id \notin overlapped => Agree(id)'
  BY <1>1, <1>2, <1>3, <1>4, AgreeKept DEF Stage
<1>6. ASSUME NEW c, Outcome(w, c) PROVE AgreeInv'
  <2> DEFINE n == [ops[w] EXCEPT !.kind = "refreshed", !.pc = "persist", !.cred = c]
  <2>1. ops' = [ops EXCEPT ![w] = n]
    BY <1>6 DEF Outcome
  <2>2. n.id = id /\ n.pc = "persist"
    BY <1>1, <1>3 DEF Op
  <2> HIDE DEF n
  <2>3. ops'[w] = n /\ n # Idle
    BY <1>1, <2>1, <2>2 DEF Idle
  <2>4. id \notin overlapped => Stage(w)'
    BY <1>4, <1>5, <2>2, <2>3 DEF Stage
  <2> QED
    BY <1>1, <1>3, <1>4, <2>1, <2>2, <2>3, <2>4, LocalStep
<1>7. CASE Release(w)
  <2>1. ops' = [ops EXCEPT ![w] = Idle]
    BY <1>7 DEF Release
  <2> QED
    BY <1>1, <1>3, <1>4, <1>5, <2>1, LocalStep
<1> QED
  BY <1>6, <1>7 DEF WorkerStep, RefreshSucceeds, RefreshFails, RefreshAnswerLost, RefreshNothing

\* A step of a loop that starts no refresh and takes no snapshot.
LEMMA QuietStep ==
  ASSUME IInv, TypeInv', \A l \in Loops : loops'[l].cands \subseteq loops[l].cands,
         UNCHANGED <<store, creds, pool, ops, overlapped, faulted>>
  PROVE  AgreeInv'
<1> USE DEF IInv, AgreeInv
<1>1. Exclusive'
  BY DEF Exclusive
<1>2. \A u \in Threads : Stage(u)'
  BY StageKept DEF Stages
<1>3. AtRest'
  BY AgreeKept DEF AtRest
<1> QED
  BY <1>1, <1>2, <1>3 DEF Stages

\* A cycle's snapshot of a credential makes the cycle its only holder, or
\* counts as overlap; a goroutine that is started takes over from the cycle.
LEMMA LoopAgree ==
  ASSUME IInv, TypeInv', NEW l \in Loops, LoopStep(l)
  PROVE  AgreeInv'
<1>1. loops \in [Loops -> Loop] /\ loops[l] \in Loop
  BY DEF IInv, TypeInv, TypeOK, Loop
<1>2. ASSUME NEW new \in Loop, new.cands \subseteq loops[l].cands,
             loops' = [loops EXCEPT ![l] = new]
      PROVE  \A k \in Loops : loops'[k].cands \subseteq loops[k].cands
  BY <1>1, <1>2
<1>3. CASE StartRefreshLoop(l)
  <2>1. [loops[l] EXCEPT !.status = "on"] \in Loop
        /\ [loops[l] EXCEPT !.status = "on"].cands \subseteq loops[l].cands
    BY <1>1 DEF Loop
  <2>2. loops' = [loops EXCEPT ![l] = [loops[l] EXCEPT !.status = "on"]]
    BY <1>3 DEF StartRefreshLoop
  <2>3. UNCHANGED <<store, creds, pool, ops, overlapped, faulted>>
    BY <1>3 DEF StartRefreshLoop
  <2> QED
    BY <1>2, <2>1, <2>2, <2>3, QuietStep
<1>4. CASE LoopExits(l)
  <2>1. [loops[l] EXCEPT !.status = "off"] \in Loop
        /\ [loops[l] EXCEPT !.status = "off"].cands \subseteq loops[l].cands
    BY <1>1 DEF Loop
  <2>2. loops' = [loops EXCEPT ![l] = [loops[l] EXCEPT !.status = "off"]]
    BY <1>4 DEF LoopExits
  <2>3. UNCHANGED <<store, creds, pool, ops, overlapped, faulted>>
    BY <1>4 DEF LoopExits
  <2> QED
    BY <1>2, <2>1, <2>2, <2>3, QuietStep
<1>6. ASSUME NEW c, CycleFull(l, c) PROVE AgreeInv'
  <2>1. [loops[l] EXCEPT !.cands = {}] \in Loop
        /\ [loops[l] EXCEPT !.cands = {}].cands \subseteq loops[l].cands
    BY <1>1 DEF Loop
  <2>2. loops' = [loops EXCEPT ![l] = [loops[l] EXCEPT !.cands = {}]]
    BY <1>6 DEF CycleFull
  <2>3. UNCHANGED <<store, creds, pool, ops, overlapped, faulted>>
    BY <1>6 DEF CycleFull
  <2> QED
    BY <1>2, <2>1, <2>2, <2>3, QuietStep
<1>7. CASE RunRefreshCycle(l)
  <2>1. \A k \in Loops : loops'[k].cands = IF k = l THEN Candidates ELSE loops[k].cands
    <3>1. [loops[l] EXCEPT !.cands = Candidates].cands = Candidates
      BY <1>1 DEF Loop
    <3>2. loops' = [loops EXCEPT ![l] = [loops[l] EXCEPT !.cands = Candidates]]
      BY <1>7 DEF RunRefreshCycle
    <3> QED
      BY <1>1, <3>1, <3>2
  <2>2. /\ overlapped' = overlapped \cup {id \in {c.id : c \in Candidates} : Busy(id)}
        /\ UNCHANGED <<store, creds, pool, ops, faulted>>
    BY <1>7 DEF RunRefreshCycle
  <2>3. overlapped \subseteq overlapped'
    BY <2>2
  <2>4. ASSUME NEW c \in Candidates, c.id \notin overlapped'
        PROVE  /\ \A t \in Threads : ops[t].id # c.id
               /\ \A k \in Loops : \A d \in loops[k].cands : d.id # c.id
    BY <2>2, <2>4 DEF Busy
  <2>5. Exclusive'
    <3> SUFFICES ASSUME NEW id \in Ids \ overlapped'
                 PROVE  /\ \A t, u \in Threads : ops'[t].id = id /\ ops'[u].id = id => t = u
                        /\ \A t \in Threads, k \in Loops : \A c \in loops'[k].cands :
                             c.id = id => ops'[t].id # id
                        /\ \A j, k \in Loops : \A c \in loops'[j].cands, d \in loops'[k].cands :
                             c.id = id /\ d.id = id => j = k
      BY DEF Exclusive
    <3>1. id \notin overlapped
      BY <2>3
    <3>2. \A t, u \in Threads : ops'[t].id = id /\ ops'[u].id = id => t = u
      BY <2>2, <3>1 DEF IInv, AgreeInv, Exclusive
    <3>3. ASSUME NEW t \in Threads, NEW k \in Loops, NEW c \in loops'[k].cands, c.id = id
          PROVE  ops'[t].id # id
      <4>1. CASE k = l
        BY <2>1, <2>2, <2>4, <3>3, <4>1
      <4>2. CASE k # l
        BY <2>1, <2>2, <3>1, <3>3, <4>2 DEF IInv, AgreeInv, Exclusive
      <4> QED
        BY <4>1, <4>2
    <3>4. ASSUME NEW j \in Loops, NEW k \in Loops, NEW c \in loops'[j].cands,
                 NEW d \in loops'[k].cands, c.id = id, d.id = id
          PROVE  j = k
      <4>1. CASE j # l /\ k # l
        BY <2>1, <3>1, <3>4, <4>1 DEF IInv, AgreeInv, Exclusive
      <4>2. CASE j = l /\ k # l
        BY <2>1, <2>4, <3>4, <4>2
      <4>3. CASE j # l /\ k = l
        BY <2>1, <2>4, <3>4, <4>3
      <4> QED
        BY <4>1, <4>2, <4>3
    <3> QED
      BY <3>2, <3>3, <3>4
  <2>6. \A u \in Threads : Stage(u)'
    BY <2>2, <2>3, StageKept DEF IInv, AgreeInv, Stages
  <2>7. AtRest'
    BY <2>2, <2>3, AgreeKept DEF IInv, AgreeInv, AtRest
  <2> QED
    BY <2>5, <2>6, <2>7 DEF AgreeInv, Stages
<1>8. ASSUME NEW c \in loops[l].cands, NEW w \in Workers, SpawnRefresh(l, c, w)
      PROVE  AgreeInv'
  <2> DEFINE n == [kind |-> "refreshing", pc |-> "persist", id |-> c.id,
                   cred |-> [c EXCEPT !.status = "refreshing"], snap |-> c, loop |-> l]
  <2>1. \A k \in Loops : loops'[k].cands = IF k = l THEN loops[k].cands \ {c}
                                            ELSE loops[k].cands
    <3>1. [loops[l] EXCEPT !.cands = @ \ {c}].cands = loops[l].cands \ {c}
      BY <1>1 DEF Loop
    <3>2. loops' = [loops EXCEPT ![l] = [loops[l] EXCEPT !.cands = @ \ {c}]]
      BY <1>8 DEF SpawnRefresh
    <3> QED
      BY <1>1, <3>1, <3>2
  <2>2. n.id = c.id /\ n.pc = "persist" /\ w \in Threads
    BY DEF Threads
  <2>3. /\ ops' = [ops EXCEPT ![w] = n] /\ ops[w].pc = "idle"
        /\ UNCHANGED <<store, creds, pool, overlapped, faulted>>
    BY <1>8 DEF SpawnRefresh
  <2> HIDE DEF n
  <2>4. \A u \in Threads : ops'[u] = IF u = w THEN n ELSE ops[u]
    BY <2>3 DEF IInv, TypeInv, TypeOK
  <2>5. ops[w].id \notin Ids
    BY <2>2, <2>3, ConstantsAssumption DEF IInv, TypeInv, Shapes, ShapeOf, Idle
  <2>6. c.id \in Ids
    BY <1>1 DEF Loop, Credential
  <2>7. c.id \notin overlapped =>
          /\ \A t \in Threads : ops[t].id # c.id
          /\ \A k \in Loops : \A d \in loops'[k].cands : d.id # c.id
    <3> SUFFICES ASSUME c.id \notin overlapped
                 PROVE  /\ \A t \in Threads : ops[t].id # c.id
                        /\ \A k \in Loops : \A d \in loops'[k].cands : d.id # c.id
      OBVIOUS
    <3>1. \A t \in Threads : ops[t].id # c.id
      BY <2>6 DEF IInv, AgreeInv, Exclusive
    <3>2. ASSUME NEW k \in Loops, NEW d \in loops'[k].cands PROVE d.id # c.id
      <4>1. CASE k = l
        <5>1. d \in loops[l].cands /\ d # c
          BY <2>1, <3>2, <4>1
        <5> QED
          BY <5>1 DEF IInv, TypeInv, OwnIds
      <4>2. CASE k # l
        <5>1. d \in loops[k].cands
          BY <2>1, <3>2, <4>2
        <5> QED
          BY <2>6, <4>2, <5>1 DEF IInv, AgreeInv, Exclusive
      <4> QED
        BY <4>1, <4>2
    <3> QED
      BY <3>1, <3>2
  <2>8. Exclusive'
    <3> SUFFICES ASSUME NEW id \in Ids \ overlapped'
                 PROVE  /\ \A t, u \in Threads : ops'[t].id = id /\ ops'[u].id = id => t = u
                        /\ \A t \in Threads, k \in Loops : \A d \in loops'[k].cands :
                             d.id = id => ops'[t].id # id
                        /\ \A j, k \in Loops : \A d \in loops'[j].cands, e \in loops'[k].cands :
                             d.id = id /\ e.id = id => j = k
      BY DEF Exclusive
    <3>1. id \notin overlapped
      BY <2>3
    <3>2. \A k \in Loops : \A d \in loops'[k].cands : d \in loops[k].cands
      BY <2>1
    <3>3. \A t, u \in Threads : ops'[t].id = id /\ ops'[u].id = id => t = u
      BY <2>2, <2>4, <2>7, <3>1 DEF IInv, AgreeInv, Exclusive
    <3>4. \A t \in Threads, k \in Loops : \A d \in loops'[k].cands :
            d.id = id => ops'[t].id # id
      BY <2>2, <2>4, <2>7, <3>1, <3>2 DEF IInv, AgreeInv, Exclusive
    <3>5. \A j, k \in Loops : \A d \in loops'[j].cands, e \in loops'[k].cands :
            d.id = id /\ e.id = id => j = k
      BY <3>1, <3>2 DEF IInv, AgreeInv, Exclusive
    <3> QED
      BY <3>3, <3>4, <3>5
  <2>9. ASSUME NEW u \in Threads PROVE Stage(u)'
    <3>1. CASE u # w
      BY <2>3, <2>4, <3>1, StageKept DEF IInv, AgreeInv, Stages
    <3>2. CASE u = w
      <4>1. c.id \notin overlapped => Agree(c.id)
        BY <2>6, <2>7 DEF IInv, AgreeInv, AtRest
      <4>2. Agree(c.id) => Agree(c.id)'
        BY <2>3, AgreeKept
      <4> QED
        BY <2>2, <2>3, <2>4, <3>2, <4>1, <4>2 DEF Stage
    <3> QED
      BY <3>1, <3>2
  <2>10. AtRest'
    <3> SUFFICES ASSUME NEW j \in Ids \ overlapped', \A u \in Threads : ops'[u].id # j
                 PROVE  Agree(j)'
      BY DEF AtRest
    <3>1. \A u \in Threads : ops[u].id # j
      BY <2>4, <2>5
    <3>2. Agree(j)
      BY <2>3, <3>1 DEF IInv, AgreeInv, AtRest
    <3> QED
      BY <2>3, <3>2, AgreeKept
  <2> QED
    BY <2>8, <2>9, <2>10 DEF AgreeInv, Stages
<1> QED
  BY <1>3, <1>4, <1>6, <1>7, <1>8 DEF LoopStep, CandidateStep

\* A crash ends every operation, and Load makes the map and the scheduler
\* from the rows; StopRefreshLoop and the clock touch no copy.
LEMMA ProcessAgree ==
  ASSUME IInv, TypeInv', StopRefreshLoop \/ Restart \/ Tick \/ UNCHANGED vars
  PROVE  AgreeInv'
<1>1. loops \in [Loops -> Loop]
  BY DEF IInv, TypeInv, TypeOK, Loop
<1>2. CASE StopRefreshLoop
  <2>1. PICK l \in Loops : l = refreshCancel
    BY <1>2 DEF StopRefreshLoop, IInv, TypeInv, TypeOK
  <2>2. /\ loops' = [loops EXCEPT ![l].cancelled = TRUE]
        /\ UNCHANGED <<store, creds, pool, ops, overlapped, faulted>>
    BY <1>2, <2>1 DEF StopRefreshLoop
  <2>3. \A k \in Loops : loops'[k].cands = loops[k].cands
    BY <1>1, <2>2 DEF Loop
  <2> QED
    BY <2>2, <2>3, QuietStep
<1>3. CASE Restart
  <2>1. /\ creds' = [id \in Ids |-> IF store[id] = None THEN None ELSE Loaded(store[id])]
        /\ pool' = [id \in Ids |-> IF store[id] = None THEN None
                                   ELSE Scheduled(Loaded(store[id]))]
        /\ ops' = [t \in Threads |-> Idle]
        /\ loops' = [l \in Loops |-> NewLoop]
        /\ store' = store
    BY <1>3 DEF Restart
  <2>2. Exclusive'
    BY <2>1, ConstantsAssumption DEF Exclusive, Idle, NewLoop
  <2>3. \A u \in Threads : Stage(u)'
    BY <2>1 DEF Stage, Idle
  <2>4. ASSUME NEW id \in Ids PROVE Agree(id)'
    <3>1. CASE store[id] = None
      BY <2>1, <3>1 DEF Agree, Scheduled
    <3>2. CASE store[id] # None
      <4>1. Loaded(store[id]) # None
        BY <3>2, LoadedType, ConstantsAssumption DEF IInv, TypeInv, TypeOK
      <4> QED
        BY <2>1, <3>2, <4>1 DEF Agree
    <3> QED
      BY <3>1, <3>2
  <2> QED
    BY <2>2, <2>3, <2>4 DEF AgreeInv, Stages, AtRest
<1>4. CASE Tick
  BY <1>4, QuietStep DEF Tick
<1>5. CASE UNCHANGED vars
  BY <1>5, QuietStep DEF vars
<1> QED
  BY <1>2, <1>3, <1>4, <1>5

\* At first there is nothing to disagree about.
LEMMA InitAgree == Init => AgreeInv
<1> SUFFICES ASSUME Init PROVE AgreeInv
  OBVIOUS
<1>1. Exclusive
  BY ConstantsAssumption DEF Init, Exclusive, Idle, NewLoop
<1>2. Stages
  BY DEF Init, Stages, Stage, Idle
<1>3. AtRest
  BY DEF Init, AtRest, Agree, Scheduled
<1> QED
  BY <1>1, <1>2, <1>3 DEF AgreeInv

\* Every step of the manager keeps the invariant.
LEMMA NextAgree == IInv /\ [Next]_vars => IInv'
<1> SUFFICES ASSUME IInv, [Next]_vars PROVE IInv'
  OBVIOUS
<1>1. TypeInv'
  BY NextType DEF IInv
<1>2. AgreeInv'
  BY <1>1, StartsAgree, ThreadAgree, WorkerAgree, LoopAgree, ProcessAgree DEF Next
<1> QED
  BY <1>1, <1>2 DEF IInv

\* The row, the map entry and the scheduler's credential agree as soon as the
\* operations on it have ended, whatever failed and whenever the process
\* crashed, unless two operations overlapped (manager.go:216-299).
THEOREM Agreement == Spec => []SettledAgree
<1>1. Init => IInv
  BY InitType, InitAgree DEF IInv
<1>2. IInv => SettledAgree
  BY DEF IInv, AgreeInv, AtRest, SettledAgree, Settled, Busy
<1> QED
  BY <1>1, <1>2, NextAgree, PTL DEF Spec

-----------------------------------------------------------------------------
(* Tokens: what the manager holds is what the provider issued last.  The     *)
(* strengthening says what a snapshot and a credential on its way to the     *)
(* map are worth.                                                            *)

\* Nothing happened to the credential that voids the promises about it.
Sound(id) == id \notin overlapped \cup faulted

\* A credential with the latest token and with a status that does not need a
\* refresh to end it.
Current(c, id) == c.token = issued[id] /\ c.status # "refreshing"

\* So is what the map holds, if it holds anything.
MapCurrent(id) == creds[id] # None => Current(creds[id], id)

\* What a thread's record is worth at its steps.
TokenStage(t) ==
  LET o == ops[t]
      id == o.id IN
  o.pc # "idle" /\ Sound(id) =>
    /\ o.pc \in {"persist", "memory", "schedule"} /\ o.kind # "refreshing" => Current(o.cred, id)
    /\ o.pc = "persist" /\ o.kind \in {"register", "mark"} => MapCurrent(id)
    /\ o.kind = "refreshing" \/ o.pc = "call" => o.snap \in Credential /\ Current(o.snap, id)
    /\ o.pc \in {"persist", "call"} /\ o.kind \in {"refreshing", "refreshed"} => creds[id] # None
    /\ o.pc = "release" => MapCurrent(id)

\* The map entry of a credential nobody works on is current.
TokenRest ==
  \A id \in Ids : Sound(id) /\ (\A t \in Threads : ops[t].id # id) => MapCurrent(id)

\* A snapshot that waits for its turn is still what the map holds.
Snapshots ==
  \A l \in Loops : \A c \in loops[l].cands : c.id \notin overlapped => creds[c.id] = c

\* The invariant behind the two theorems, together with IInv.
TokenInv == (\A t \in Threads : TokenStage(t)) /\ TokenRest /\ Snapshots

\* What a thread's record is worth does not change while nobody touches the
\* credential it works on.
LEMMA TokenStageKept ==
  ASSUME NEW u, TokenStage(u), ops'[u] = ops[u],
         overlapped \cup faulted \subseteq overlapped' \cup faulted',
         LET j == ops[u].id IN creds'[j] = creds[j] /\ issued'[j] = issued[j]
  PROVE  TokenStage(u)'
BY DEF TokenStage, Sound, MapCurrent, Current

\* A step of the only thread at work on a credential.
LEMMA LocalToken ==
  ASSUME IInv, TokenInv, NEW t \in Threads, NEW id \in Ids, ops[t].id = id, NEW o,
         ops' = [ops EXCEPT ![t] = o], o.id = id \/ o = Idle,
         loops' = loops, overlapped' = overlapped, faulted \subseteq faulted',
         \A j \in Ids \ {id} : creds'[j] = creds[j] /\ issued'[j] = issued[j],
         Sound(id)' => IF o = Idle THEN MapCurrent(id)' ELSE TokenStage(t)'
  PROVE  TokenInv'
<1>1. \A u \in Threads : ops'[u] = IF u = t THEN o ELSE ops[u]
  BY DEF IInv, TypeInv, TypeOK
<1>2. Idle.id \notin Ids /\ Idle.pc = "idle" /\ Idle.id = None
  BY ConstantsAssumption DEF Idle
<1>3. \A u \in Threads : ops[u].id \in Ids \/ ops[u].pc = "idle"
  BY DEF IInv, TypeInv, Shapes, ShapeOf
<1>4. Sound(id)' => \A u \in Threads \ {t} : ops[u].id # id
  BY DEF Sound, IInv, AgreeInv, Exclusive
<1>5. ASSUME NEW u \in Threads PROVE TokenStage(u)'
  <2>1. CASE ops'[u].pc = "idle" \/ ops'[u].id \in overlapped' \cup faulted'
    BY <2>1 DEF TokenStage, Sound
  <2>2. CASE ops'[u].pc # "idle" /\ ops'[u].id \notin overlapped' \cup faulted' /\ u = t
    BY <1>1, <1>2, <2>2 DEF Sound
  <2>3. CASE ops'[u].pc # "idle" /\ ops'[u].id \notin overlapped' \cup faulted' /\ u # t
    <3>1. ops'[u] = ops[u] /\ ops[u].id \in Ids \ {id}
      BY <1>1, <1>3, <1>4, <2>3 DEF Sound
    <3>2. overlapped \cup faulted \subseteq overlapped' \cup faulted'
      OBVIOUS
    <3> QED
      BY <3>1, <3>2, TokenStageKept DEF TokenInv
  <2> QED
    BY <2>1, <2>2, <2>3
<1>6. ASSUME NEW j \in Ids, Sound(j)', \A u \in Threads : ops'[u].id # j
      PROVE  MapCurrent(j)'
  <2>1. CASE j = id
    BY <1>1, <1>6, <2>1 DEF MapCurrent, Sound, Current
  <2>2. CASE j # id
    <3>1. MapCurrent(j)
      BY <1>1, <1>6, <2>2 DEF TokenInv, TokenRest, Sound
    <3> QED
      BY <2>2, <3>1 DEF MapCurrent, Current
  <2> QED
    BY <2>1, <2>2
<1>7. Snapshots'
  <2> SUFFICES ASSUME NEW l \in Loops, NEW c \in loops'[l].cands, c.id \notin overlapped'
               PROVE  creds'[c.id] = c
    BY DEF Snapshots
  <2>1. c.id \in Ids
    BY DEF IInv, TypeInv, TypeOK, Credential
  <2>2. c.id # id
    BY <2>1 DEF IInv, AgreeInv, Exclusive
  <2> QED
    BY <2>1, <2>2 DEF TokenInv, Snapshots
<1> QED
  BY <1>5, <1>6, <1>7 DEF TokenInv, TokenRest

\* The start of a call by a request handler.
LEMMA StartToken ==
  ASSUME IInv, TokenInv, NEW t \in Threads, NEW id \in Ids, NEW o, o.id = id, Begin(t, o),
         UNCHANGED <<loops, issued, faulted>>,
         \A j \in Ids \ {id} : creds'[j] = creds[j],
         Sound(id)' /\ MapCurrent(id) => TokenStage(t)'
  PROVE  TokenInv'
<1>1. /\ ops' = [ops EXCEPT ![t] = o] /\ ops[t].pc = "idle"
      /\ overlapped' = overlapped \cup (IF Busy(id) THEN {id} ELSE {})
  BY DEF Begin
<1>2. \A u \in Threads : ops'[u] = IF u = t THEN o ELSE ops[u]
  BY <1>1 DEF IInv, TypeInv, TypeOK
<1>3. ops[t].id \notin Ids
  BY <1>1, ConstantsAssumption DEF IInv, TypeInv, Shapes, ShapeOf, Idle
<1>4. id \notin overlapped' =>
        /\ id \notin overlapped
        /\ \A u \in Threads : ops[u].id # id
        /\ \A l \in Loops : \A c \in loops[l].cands : c.id # id
  BY <1>1 DEF Busy
<1>5. overlapped \subseteq overlapped' /\ faulted' = faulted
  BY <1>1
<1>6. \A u \in Threads : ops[u].id \in Ids \/ ops[u].pc = "idle"
  BY DEF IInv, TypeInv, Shapes, ShapeOf
<1>7. Sound(id)' => MapCurrent(id)
  BY <1>4, <1>5 DEF TokenInv, TokenRest, Sound
<1>8. ASSUME NEW u \in Threads PROVE TokenStage(u)'
  <2>1. CASE ops'[u].pc = "idle" \/ ops'[u].id \in overlapped' \cup faulted'
    BY <2>1 DEF TokenStage, Sound
  <2>2. CASE ops'[u].pc # "idle" /\ ops'[u].id \notin overlapped' \cup faulted' /\ u = t
    BY <1>2, <1>7, <2>2 DEF Sound
  <2>3. CASE ops'[u].pc # "idle" /\ ops'[u].id \notin overlapped' \cup faulted' /\ u # t
    <3>1. ops'[u] = ops[u] /\ ops[u].id \in Ids \ {id}
      BY <1>2, <1>4, <1>6, <2>3 DEF Sound
    <3>2. overlapped \cup faulted \subseteq overlapped' \cup faulted'
      BY <1>5
    <3> QED
      BY <3>1, <3>2, TokenStageKept DEF TokenInv
  <2> QED
    BY <2>1, <2>2, <2>3
<1>9. ASSUME NEW j \in Ids, Sound(j)', \A u \in Threads : ops'[u].id # j
      PROVE  MapCurrent(j)'
  <2>1. j # id
    BY <1>2, <1>9
  <2>2. \A u \in Threads : ops[u].id # j
    BY <1>2, <1>3, <1>9
  <2>3. MapCurrent(j)
    BY <1>5, <1>9, <2>2 DEF TokenInv, TokenRest, Sound
  <2> QED
    BY <2>1, <2>3 DEF MapCurrent, Current
<1>10. Snapshots'
  <2> SUFFICES ASSUME NEW l \in Loops, NEW c \in loops'[l].cands, c.id \notin overlapped'
               PROVE  creds'[c.id] = c
    BY DEF Snapshots
  <2>1. c.id \in Ids
    BY DEF IInv, TypeInv, TypeOK, Credential
  <2>2. c.id # id
    BY <1>4
  <2> QED
    BY <1>5, <2>1, <2>2 DEF TokenInv, Snapshots
<1> QED
  BY <1>8, <1>9, <1>10 DEF TokenInv, TokenRest
\* A call that a request handler starts: a login brings the provider's latest
\* token, a result is applied to what the map holds.
LEMMA StartsToken ==
  ASSUME IInv, TokenInv, NEW t \in Clients, ClientStarts(t)
  PROVE  TokenInv'
<1>1. PICK id \in Ids : \/ Register(t, id)
                        \/ \E r \in Results : MarkResult(t, id, r)
                        \/ Deregister(t, id)
  BY DEF ClientStarts
<1>2. t \in Threads /\ ops \in [Threads -> Op]
  BY DEF Threads, IInv, TypeInv, TypeOK
<1>3. ASSUME NEW kind \in {"register", "mark"}, NEW c,
             Begin(t, Call(kind, "persist", id, c)),
             UNCHANGED <<creds, loops, issued, faulted>>,
             MapCurrent(id) => Current(c, id)
      PROVE  TokenInv'
  <2> DEFINE o == Call(kind, "persist", id, c)
  <2>1. o.id = id /\ o.pc = "persist" /\ o.kind = kind /\ o.cred = c
    BY DEF Call
  <2>2. ops'[t] = o
    BY <1>2, <1>3 DEF Begin
  <2> HIDE DEF o
  <2>3. MapCurrent(id) => MapCurrent(id)' /\ Current(o.cred, id)'
    BY <1>3, <2>1 DEF MapCurrent, Current
  <2>4. MapCurrent(id) => TokenStage(t)'
    BY <2>1, <2>2, <2>3 DEF TokenStage, Current
  <2> QED
    BY <1>2, <1>3, <2>1, <2>4, StartToken DEF o
<1>4. CASE Register(t, id)
  <2> DEFINE c == [Logins[id] EXCEPT !.token = issued[id]]
  <2>1. Logins[id] \in Credential /\ Logins[id].status = "active"
    BY ManagerAssumption
  <2>2. Current(c, id)
    BY <2>1 DEF Current, Credential
  <2>3. Begin(t, Call("register", "persist", id, c))
        /\ UNCHANGED <<creds, loops, issued, faulted>>
    BY <1>4 DEF Register
  <2> HIDE DEF c
  <2> QED
    BY <1>3, <2>2, <2>3
<1>5. ASSUME NEW r \in Results, MarkResult(t, id, r) PROVE TokenInv'
  <2> DEFINE c == ApplyResult(creds[id], r, now)
  <2>1. creds[id] \in Credential /\ creds[id] # None /\ now \in Nat /\ r \in Result
    BY <1>5, ManagerAssumption DEF MarkResult, IInv, TypeInv, TypeOK
  <2>2. MapCurrent(id) => Current(c, id)
    BY <2>1, ApplyResultKeeps DEF MapCurrent, Current
  <2>3. Begin(t, Call("mark", "persist", id, c))
        /\ UNCHANGED <<creds, loops, issued, faulted>>
    BY <1>5 DEF MarkResult
  <2> HIDE DEF c
  <2> QED
    BY <1>3, <2>2, <2>3
<1>6. CASE Deregister(t, id)
  <2> DEFINE o == Call("deregister", "unschedule", id, None)
  <2>1. o.id = id /\ o.pc = "unschedule" /\ o.kind = "deregister"
    BY DEF Call
  <2>2. /\ Begin(t, o) /\ creds' = [creds EXCEPT ![id] = None]
        /\ UNCHANGED <<loops, issued, faulted>>
    BY <1>6 DEF Deregister
  <2>3. ops'[t] = o
    BY <1>2, <2>2 DEF Begin
  <2> HIDE DEF o
  <2>4. \A j \in Ids \ {id} : creds'[j] = creds[j]
    BY <2>2 DEF IInv, TypeInv, TypeOK
  <2>5. TokenStage(t)'
    BY <2>1, <2>3 DEF TokenStage
  <2> QED
    BY <1>2, <2>1, <2>2, <2>4, <2>5, StartToken
<1> QED
  BY <1>1, <1>4, <1>5, <1>6

\* A step of Register, Update or Deregister after its start.  The second
\* Update of a refresh that finds the row gone has not lost a token: the map
\* has the credential, so the row is there, and an Update that fails on an
\* existing row counts as a fault.
LEMMA ThreadToken ==
  ASSUME IInv, TokenInv, NEW t \in Threads, ThreadStep(t)
  PROVE  TokenInv'
<1> DEFINE o == ops[t]
<1>1. /\ ops \in [Threads -> Op] /\ o \in Op /\ ShapeOf(t, o) /\ Stage(t) /\ TokenStage(t)
      /\ creds \in [Ids -> Credential \cup {None}]
  BY DEF IInv, TypeInv, TypeOK, Shapes, AgreeInv, Stages, TokenInv
<1>2. o.pc # "idle" /\ UNCHANGED <<loops, issued, overlapped>>
  BY DEF ThreadStep, Persist, PersistFails, WriteMemory, WriteSchedule, Unschedule, DeleteRow,
         DeleteFails
<1>3. PICK id \in Ids : o.id = id
  BY <1>1, <1>2 DEF ShapeOf
<1>4. o.pc \in {"persist", "memory", "schedule"} =>
        o.cred \in Credential /\ o.cred # None
        /\ o.kind \in {"register", "mark", "refreshing", "refreshed"}
  BY <1>1, ConstantsAssumption DEF ShapeOf
<1> DEFINE Moved(n, pc) ==
      /\ ops' = [ops EXCEPT ![t] = n] /\ ops'[t] = n /\ n # Idle
      /\ n.id = id /\ n.pc = pc /\ n.cred = o.cred /\ n.kind = o.kind /\ n.snap = o.snap
<1>5. ASSUME NEW pc, ops' = [ops EXCEPT ![t].pc = pc], pc # "idle"
      PROVE  \E n : Moved(n, pc)
  <2> DEFINE n == [o EXCEPT !.pc = pc]
  <2>1. ops' = [ops EXCEPT ![t] = n]
    BY <1>5
  <2>2. /\ n.id = id /\ n.pc = pc /\ n.cred = o.cred
        /\ n.kind = o.kind /\ n.snap = o.snap
    BY <1>1, <1>3 DEF Op
  <2> HIDE DEF n
  <2>3. n # Idle
    BY <1>5, <2>2 DEF Idle
  <2>4. Moved(n, pc)
    BY <1>1, <2>1, <2>2, <2>3
  <2> HIDE DEF Moved
  <2> QED
    BY <2>4
<1> HIDE DEF Moved
<1>6. CASE Persist(t)
  <2>a. ops' = [ops EXCEPT ![t].pc = "memory"]
    BY <1>6 DEF Persist
  <2>1. o.pc = "persist" /\ UNCHANGED <<creds, faulted>>
    BY <1>6 DEF Persist
  <2>2. PICK n : Moved(n, "memory")
    BY <1>5, <2>a
  <2>3. Sound(id)' => TokenStage(t)'
    BY <1>1, <1>2, <1>3, <2>1, <2>2 DEF TokenStage, Sound, Current, Moved
  <2> QED
    BY <1>2, <1>3, <2>1, <2>2, <2>3, LocalToken DEF Moved
<1>7. CASE WriteMemory(t)
  <2>a. ops' = [ops EXCEPT ![t].pc = "schedule"]
    BY <1>7 DEF WriteMemory
  <2>1. /\ o.pc = "memory" /\ creds' = [creds EXCEPT ![id] = o.cred] /\ faulted' = faulted
    BY <1>3, <1>7 DEF WriteMemory
  <2>2. PICK n : Moved(n, "schedule")
    BY <1>5, <2>a
  <2>3. \A j \in Ids \ {id} : creds'[j] = creds[j]
    BY <1>1, <2>1
  <2>4. Sound(id)' => TokenStage(t)'
    BY <1>1, <1>2, <1>3, <2>1, <2>2 DEF TokenStage, Sound, Current, Moved
  <2> QED
    BY <1>2, <1>3, <2>1, <2>2, <2>3, <2>4, LocalToken DEF Moved
<1>8. CASE Unschedule(t)
  <2>a. ops' = [ops EXCEPT ![t].pc = "delete"]
    BY <1>8 DEF Unschedule
  <2>1. o.pc = "unschedule" /\ UNCHANGED <<creds, faulted>>
    BY <1>8 DEF Unschedule
  <2>2. PICK n : Moved(n, "delete")
    BY <1>5, <2>a
  <2>3. TokenStage(t)'
    BY <1>1, <2>1, <2>2 DEF TokenStage, ShapeOf, Moved
  <2> QED
    BY <1>2, <1>3, <2>1, <2>2, <2>3, LocalToken DEF Moved
<1>9. CASE DeleteRow(t) \/ DeleteFails(t)
  <2>1. /\ o.pc = "delete" /\ ops' = [ops EXCEPT ![t] = Idle]
        /\ creds' = creds /\ faulted \subseteq faulted'
    BY <1>9 DEF DeleteRow, DeleteFails
  <2>2. Sound(id)' => MapCurrent(id)'
    BY <1>1, <1>2, <1>3, <2>1 DEF Stage, Sound, MapCurrent
  <2> QED
    BY <1>2, <1>3, <2>1, <2>2, LocalToken
<1>10. ASSUME Continue(t), o.pc \in {"persist", "schedule"},
              creds' = creds, faulted \subseteq faulted',
              Sound(id)' => /\ o.kind = "refreshing" => creds[id] # None
                            /\ o.kind # "refreshing" => MapCurrent(id)
       PROVE  TokenInv'
  <2>1. Sound(id)' => Sound(id) /\ (MapCurrent(id) => MapCurrent(id)')
    BY <1>2, <1>10 DEF Sound, MapCurrent, Current
  <2>2. CASE o.kind = "refreshing"
    <3>1. ops' = [ops EXCEPT ![t].pc = "call"]
      BY <1>10, <2>2 DEF Continue
    <3>2. PICK n : Moved(n, "call")
      BY <1>5, <3>1
    <3>3. Sound(id) => o.snap \in Credential /\ Current(o.snap, id)
      BY <1>1, <1>2, <1>3, <2>2 DEF TokenStage
    <3>4. Sound(id)' => TokenStage(t)'
      BY <1>2, <1>10, <2>1, <2>2, <3>2, <3>3 DEF TokenStage, Current, Moved
    <3> QED
      BY <1>2, <1>3, <1>10, <3>2, <3>4, LocalToken DEF Moved
  <2>3. CASE o.kind = "refreshed"
    <3>1. ops' = [ops EXCEPT ![t].pc = "release"]
      BY <1>10, <2>3 DEF Continue
    <3>2. PICK n : Moved(n, "release")
      BY <1>5, <3>1
    <3>3. Sound(id)' => TokenStage(t)'
      BY <1>10, <2>1, <2>3, <3>2 DEF TokenStage, Moved
    <3> QED
      BY <1>2, <1>3, <1>10, <3>2, <3>3, LocalToken DEF Moved
  <2>4. CASE o.kind \notin {"refreshing", "refreshed"}
    <3>1. ops' = [ops EXCEPT ![t] = Idle]
      BY <1>10, <2>4 DEF Continue
    <3> QED
      BY <1>2, <1>3, <1>10, <2>1, <2>4, <3>1, LocalToken
  <2> QED
    BY <2>2, <2>3, <2>4
<1>11. CASE WriteSchedule(t)
  <2>1. o.pc = "schedule" /\ Continue(t) /\ UNCHANGED <<creds, faulted>>
    BY <1>11 DEF WriteSchedule
  <2>2. Sound(id)' => Sound(id)
    BY <1>2, <2>1 DEF Sound
  <2>3. Sound(id) => creds[id] = o.cred
    BY <1>1, <1>2, <1>3, <2>1 DEF Stage, Sound
  <2>4. Sound(id) /\ o.kind # "refreshing" => Current(o.cred, id)
    BY <1>1, <1>2, <1>3, <2>1 DEF TokenStage
  <2> QED
    BY <1>4, <1>10, <2>1, <2>2, <2>3, <2>4 DEF MapCurrent
<1>12. CASE PersistFails(t)
  <2>1. /\ o.pc = "persist" /\ Continue(t) /\ creds' = creds
        /\ faulted' = faulted \cup (IF RowAccepts(o) THEN {id} ELSE {})
    BY <1>3, <1>12 DEF PersistFails
  <2>2. Sound(id)' => Sound(id) /\ ~RowAccepts(o)
    BY <1>2, <2>1 DEF Sound
  <2>3. Sound(id) /\ o.kind \in {"refreshing", "refreshed"} => creds[id] # None
    BY <1>1, <1>2, <1>3, <2>1 DEF TokenStage
  <2>4. Sound(id) /\ creds[id] # None /\ o.kind # "register" => RowAccepts(o)
    BY <1>1, <1>2, <1>3, <2>1 DEF Stage, Sound, Agree, RowAccepts
  <2>5. Sound(id) /\ o.kind \in {"register", "mark"} => MapCurrent(id)
    BY <1>1, <1>2, <1>3, <2>1 DEF TokenStage
  <2>6. Sound(id)' => /\ o.kind = "refreshing" => creds[id] # None
                      /\ o.kind # "refreshing" => MapCurrent(id)
    BY <1>4, <2>1, <2>2, <2>3, <2>4, <2>5
  <2> QED
    BY <1>10, <2>1, <2>6
<1> QED
  BY <1>6, <1>7, <1>8, <1>9, <1>11, <1>12 DEF ThreadStep

\* The provider's answer: a new token is on its way to the map before any
\* other step can see that the old one is spent, and an answer that was lost
\* counts as a fault.
LEMMA WorkerToken ==
  ASSUME IInv, TokenInv, NEW w \in Workers, WorkerStep(w)
  PROVE  TokenInv'
<1> DEFINE o == ops[w]
<1>1. /\ w \in Threads /\ ops \in [Threads -> Op] /\ o \in Op
      /\ ShapeOf(w, o) /\ TokenStage(w) /\ issued \in [Ids -> Nat]
      /\ now \in Nat
  BY DEF IInv, TypeInv, TypeOK, Shapes, TokenInv, Threads
<1>2. /\ o.pc \in {"call", "release"} /\ faulted \subseteq faulted'
      /\ UNCHANGED <<creds, loops, overlapped>>
  BY DEF WorkerStep, RefreshSucceeds, RefreshFails, RefreshAnswerLost, RefreshNothing, Release
<1>3. PICK id \in Ids : o.id = id
  BY <1>1, <1>2 DEF ShapeOf
<1>4. Sound(id)' => Sound(id)
  BY <1>2 DEF Sound
<1>5. o.snap \in Credential
  BY <1>1, <1>2 DEF ShapeOf
<1>6. Sound(id) /\ o.pc = "call" => Current(o.snap, id) /\ creds[id] # None
  BY <1>1, <1>2, <1>3 DEF TokenStage, ShapeOf
<1>7. ASSUME NEW c, Outcome(w, c), o.pc = "call",
             \A j \in Ids \ {id} : issued'[j] = issued[j],
             Sound(id)' => Current(c, id)'
      PROVE  TokenInv'
  <2> DEFINE n == [ops[w] EXCEPT !.kind = "refreshed", !.pc = "persist", !.cred = c]
  <2>1. ops' = [ops EXCEPT ![w] = n]
    BY <1>7 DEF Outcome
  <2>2. n.id = id /\ n.pc = "persist" /\ n.kind = "refreshed" /\ n.cred = c
    BY <1>1, <1>3 DEF Op
  <2> HIDE DEF n
  <2>3. ops'[w] = n /\ n # Idle
    BY <1>1, <2>1, <2>2 DEF Idle
  <2>4. Sound(id)' => TokenStage(w)'
    BY <1>2, <1>4, <1>6, <1>7, <2>2, <2>3 DEF TokenStage, Current
  <2> QED
    BY <1>1, <1>2, <1>3, <1>7, <2>1, <2>2, <2>3, <2>4, LocalToken
<1>8. CASE RefreshSucceeds(w)
  <2> DEFINE s == Loaded(o.snap)
             c == [s EXCEPT !.token = issued[id] + 1, !.expires = now + Lifetime]
  <2>1. s \in Credential /\ s.status # "refreshing"
    BY <1>5, LoadedType
  <2>2. /\ o.pc = "call" /\ Outcome(w, c) /\ issued' = [issued EXCEPT ![id] = @ + 1]
    BY <1>3, <1>8 DEF RefreshSucceeds
  <2>3. issued'[id] = issued[id] + 1 /\ \A j \in Ids \ {id} : issued'[j] = issued[j]
    BY <1>1, <2>2
  <2> HIDE DEF s
  <2>4. c.token = issued[id] + 1 /\ c.status # "refreshing"
    BY <2>1 DEF Credential
  <2> HIDE DEF c
  <2>5. c.token = issued'[id] /\ c.status # "refreshing"
    BY <2>3, <2>4
  <2>6. PICK x : Outcome(w, x) /\ x.token = issued'[id] /\ x.status # "refreshing"
    BY <2>2, <2>5
  <2> QED
    BY <1>7, <2>2, <2>3, <2>6 DEF Current
<1>9. CASE RefreshFails(w) \/ RefreshAnswerLost(w)
  <2> DEFINE c == FailedRefresh(o.snap)
  <2>1. c.token = o.snap.token /\ c.status = "error"
    BY <1>5 DEF FailedRefresh, Credential
  <2>2. o.pc = "call" /\ Outcome(w, c)
    BY <1>9 DEF RefreshFails, RefreshAnswerLost
  <2> HIDE DEF c
  <2>3. PICK x : Outcome(w, x) /\ x.token = o.snap.token /\ x.status = "error"
    BY <2>1, <2>2
  <2>4. CASE RefreshFails(w)
    <3>1. issued' = issued
      BY <2>4 DEF RefreshFails
    <3> QED
      BY <1>4, <1>6, <1>7, <2>2, <2>3, <3>1 DEF Current
  <2>5. CASE RefreshAnswerLost(w)
    <3>1. issued' = [issued EXCEPT ![id] = @ + 1] /\ faulted' = faulted \cup {id}
      BY <1>3, <2>5 DEF RefreshAnswerLost
    <3>2. \A j \in Ids \ {id} : issued'[j] = issued[j]
      BY <1>1, <3>1
    <3>3. ~Sound(id)'
      BY <3>1 DEF Sound
    <3> QED
      BY <1>7, <2>2, <2>3, <3>2, <3>3
  <2> QED
    BY <1>9, <2>4, <2>5
<1>10. CASE RefreshNothing(w)
  <2> DEFINE c == [o.snap EXCEPT !.status = "active"]
  <2>1. c.token = o.snap.token /\ c.status = "active"
    BY <1>5 DEF Credential
  <2>2. o.pc = "call" /\ Outcome(w, c) /\ issued' = issued
    BY <1>10 DEF RefreshNothing
  <2> HIDE DEF c
  <2>3. PICK x : Outcome(w, x) /\ x.token = o.snap.token /\ x.status = "active"
    BY <2>1, <2>2
  <2> QED
    BY <1>4, <1>6, <1>7, <2>2, <2>3 DEF Current
<1>11. CASE Release(w)
  <2>1. o.pc = "release" /\ ops' = [ops EXCEPT ![w] = Idle] /\ issued' = issued
    BY <1>11 DEF Release
  <2>2. Sound(id)' => MapCurrent(id)'
    BY <1>1, <1>2, <1>3, <1>4, <2>1 DEF TokenStage, MapCurrent, Current
  <2> QED
    BY <1>1, <1>2, <1>3, <2>1, <2>2, LocalToken
<1> QED
  BY <1>8, <1>9, <1>10, <1>11 DEF WorkerStep
\* A step that starts no refresh and touches no credential.
LEMMA QuietToken ==
  ASSUME TokenInv, \A l \in Loops : loops'[l].cands \subseteq loops[l].cands,
         UNCHANGED <<creds, ops, issued, overlapped, faulted>>
  PROVE  TokenInv'
<1>1. \A u \in Threads : TokenStage(u)'
  BY TokenStageKept DEF TokenInv
<1>2. TokenRest'
  BY DEF TokenInv, TokenRest, Sound, MapCurrent, Current
<1>3. Snapshots'
  BY DEF TokenInv, Snapshots
<1> QED
  BY <1>1, <1>2, <1>3 DEF TokenInv

\* A cycle snapshots what the map holds, and the goroutine it starts later
\* finds the map as it was: nobody else was at work on the credential.
LEMMA LoopToken ==
  ASSUME IInv, TokenInv, NEW l \in Loops, LoopStep(l)
  PROVE  TokenInv'
<1>1. loops \in [Loops -> Loop] /\ loops[l] \in Loop
  BY DEF IInv, TypeInv, TypeOK, Loop
<1>2. ASSUME NEW new, new.cands \subseteq loops[l].cands,
             loops' = [loops EXCEPT ![l] = new],
             UNCHANGED <<creds, ops, issued, overlapped, faulted>>
      PROVE  TokenInv'
  <2>1. \A k \in Loops : loops'[k].cands \subseteq loops[k].cands
    BY <1>1, <1>2
  <2> QED
    BY <1>2, <2>1, QuietToken
<1>3. CASE StartRefreshLoop(l)
  <2>1. [loops[l] EXCEPT !.status = "on"].cands \subseteq loops[l].cands
    BY <1>1 DEF Loop
  <2>2. /\ loops' = [loops EXCEPT ![l] = [loops[l] EXCEPT !.status = "on"]]
        /\ UNCHANGED <<creds, ops, issued, overlapped, faulted>>
    BY <1>3 DEF StartRefreshLoop
  <2> QED
    BY <1>2, <2>1, <2>2
<1>4. CASE LoopExits(l)
  <2>1. [loops[l] EXCEPT !.status = "off"].cands \subseteq loops[l].cands
    BY <1>1 DEF Loop
  <2>2. /\ loops' = [loops EXCEPT ![l] = [loops[l] EXCEPT !.status = "off"]]
        /\ UNCHANGED <<creds, ops, issued, overlapped, faulted>>
    BY <1>4 DEF LoopExits
  <2> QED
    BY <1>2, <2>1, <2>2
<1>5. ASSUME NEW c, CycleFull(l, c) PROVE TokenInv'
  <2>1. [loops[l] EXCEPT !.cands = {}].cands \subseteq loops[l].cands
    BY <1>1 DEF Loop
  <2>2. /\ loops' = [loops EXCEPT ![l] = [loops[l] EXCEPT !.cands = {}]]
        /\ UNCHANGED <<creds, ops, issued, overlapped, faulted>>
    BY <1>5 DEF CycleFull
  <2> QED
    BY <1>2, <2>1, <2>2
<1>6. CASE RunRefreshCycle(l)
  <2>1. \A k \in Loops : loops'[k].cands = IF k = l THEN Candidates ELSE loops[k].cands
    <3>1. [loops[l] EXCEPT !.cands = Candidates].cands = Candidates
      BY <1>1 DEF Loop
    <3>2. loops' = [loops EXCEPT ![l] = [loops[l] EXCEPT !.cands = Candidates]]
      BY <1>6 DEF RunRefreshCycle
    <3> QED
      BY <1>1, <3>1, <3>2
  <2>2. overlapped \subseteq overlapped' /\ UNCHANGED <<creds, ops, issued, faulted>>
    BY <1>6 DEF RunRefreshCycle
  <2>3. \A u \in Threads : TokenStage(u)'
    BY <2>2, TokenStageKept DEF TokenInv
  <2>4. TokenRest'
    BY <2>2 DEF TokenInv, TokenRest, Sound, MapCurrent, Current
  <2>5. \A c \in Candidates : creds[c.id] = c
    BY CandidatesType DEF IInv
  <2>6. Snapshots'
    <3> SUFFICES ASSUME NEW k \in Loops, NEW c \in loops'[k].cands, c.id \notin overlapped'
                 PROVE  creds[c.id] = c
      BY <2>2 DEF Snapshots
    <3>1. CASE k = l
      BY <2>1, <2>5, <3>1
    <3>2. CASE k # l
      BY <2>1, <2>2, <3>2 DEF TokenInv, Snapshots
    <3> QED
      BY <3>1, <3>2
  <2> QED
    BY <2>3, <2>4, <2>6 DEF TokenInv
<1>7. ASSUME NEW c \in loops[l].cands, NEW w \in Workers, SpawnRefresh(l, c, w)
      PROVE  TokenInv'
  <2> DEFINE n == [kind |-> "refreshing", pc |-> "persist", id |-> c.id,
                   cred |-> [c EXCEPT !.status = "refreshing"], snap |-> c, loop |-> l]
  <2>1. \A k \in Loops : loops'[k].cands \subseteq loops[k].cands
    <3>1. [loops[l] EXCEPT !.cands = @ \ {c}].cands = loops[l].cands \ {c}
      BY <1>1 DEF Loop
    <3>2. loops' = [loops EXCEPT ![l] = [loops[l] EXCEPT !.cands = @ \ {c}]]
      BY <1>7 DEF SpawnRefresh
    <3> QED
      BY <1>1, <3>1, <3>2
  <2>2. /\ n.id = c.id /\ n.pc = "persist" /\ n.kind = "refreshing" /\ n.snap = c
        /\ w \in Threads
    BY DEF Threads
  <2>3. /\ ops' = [ops EXCEPT ![w] = n] /\ ops[w].pc = "idle"
        /\ UNCHANGED <<creds, issued, overlapped, faulted>>
    BY <1>7 DEF SpawnRefresh
  <2> HIDE DEF n
  <2>4. \A u \in Threads : ops'[u] = IF u = w THEN n ELSE ops[u]
    BY <2>3 DEF IInv, TypeInv, TypeOK
  <2>5. ops[w].id \notin Ids
    BY <2>2, <2>3, ConstantsAssumption DEF IInv, TypeInv, Shapes, ShapeOf, Idle
  <2>6. c \in Credential /\ c.id \in Ids /\ c # None
    BY <1>1, ConstantsAssumption DEF Loop, Credential
  <2>7. Sound(c.id) => creds[c.id] = c /\ Current(c, c.id)
    <3>1. c.id \notin overlapped => creds[c.id] = c
      BY DEF TokenInv, Snapshots
    <3>2. c.id \notin overlapped => \A t \in Threads : ops[t].id # c.id
      BY <2>6 DEF IInv, AgreeInv, Exclusive
    <3> QED
      BY <2>6, <3>1, <3>2 DEF TokenInv, TokenRest, Sound, MapCurrent
  <2>8. ASSUME NEW u \in Threads PROVE TokenStage(u)'
    <3>1. CASE u # w
      <4>1. ops'[u] = ops[u] /\ TokenStage(u)
        BY <2>4, <3>1 DEF TokenInv
      <4> QED
        BY <2>3, <4>1, TokenStageKept
    <3>2. CASE u = w
      <4>1. ops'[u] = n
        BY <2>4, <3>2
      <4> QED
        BY <2>2, <2>3, <2>6, <2>7, <4>1 DEF TokenStage, Sound, Current
    <3> QED
      BY <3>1, <3>2
  <2>9. TokenRest'
    <3> SUFFICES ASSUME NEW j \in Ids, Sound(j)', \A u \in Threads : ops'[u].id # j
                 PROVE  MapCurrent(j)'
      BY DEF TokenRest
    <3>1. \A u \in Threads : ops[u].id # j
      BY <2>4, <2>5
    <3>2. MapCurrent(j)
      BY <2>3, <3>1 DEF TokenInv, TokenRest, Sound
    <3> QED
      BY <2>3, <3>2 DEF MapCurrent, Current
  <2>10. Snapshots'
    BY <2>1, <2>3 DEF TokenInv, Snapshots
  <2> QED
    BY <2>8, <2>9, <2>10 DEF TokenInv
<1> QED
  BY <1>3, <1>4, <1>5, <1>6, <1>7 DEF LoopStep, CandidateStep

\* After a crash the map is what Load makes of the rows, and the rows of the
\* credentials that nobody was at work on are what the map was.
LEMMA ProcessToken ==
  ASSUME IInv, TokenInv, StopRefreshLoop \/ Restart \/ Tick \/ UNCHANGED vars
  PROVE  TokenInv'
<1>1. loops \in [Loops -> Loop]
  BY DEF IInv, TypeInv, TypeOK, Loop
<1>2. CASE StopRefreshLoop
  <2>1. PICK l \in Loops : l = refreshCancel
    BY <1>2 DEF StopRefreshLoop, IInv, TypeInv, TypeOK
  <2>2. /\ loops' = [loops EXCEPT ![l].cancelled = TRUE]
        /\ UNCHANGED <<creds, ops, issued, overlapped, faulted>>
    BY <1>2, <2>1 DEF StopRefreshLoop
  <2>3. \A k \in Loops : loops'[k].cands = loops[k].cands
    BY <1>1, <2>2 DEF Loop
  <2> QED
    BY <2>2, <2>3, QuietToken
<1>3. CASE Restart
  <2>1. /\ creds' = [id \in Ids |-> IF store[id] = None THEN None ELSE Loaded(store[id])]
        /\ ops' = [t \in Threads |-> Idle]
        /\ loops' = [l \in Loops |-> NewLoop]
        /\ faulted' = faulted \cup overlapped
                        \cup {id \in Ids : \E t \in Threads : ops[t].id = id}
        /\ issued' = issued
    BY <1>3 DEF Restart
  <2>2. \A u \in Threads : TokenStage(u)'
    BY <2>1 DEF TokenStage, Idle
  <2>3. ASSUME NEW id \in Ids, Sound(id)' PROVE MapCurrent(id)'
    <3>1. Sound(id) /\ id \notin overlapped /\ \A t \in Threads : ops[t].id # id
      BY <2>1, <2>3 DEF Sound
    <3>2. Agree(id) /\ MapCurrent(id)
      BY <3>1 DEF IInv, AgreeInv, AtRest, TokenInv, TokenRest
    <3>3. CASE store[id] = None
      BY <2>1, <3>3 DEF MapCurrent
    <3>4. CASE store[id] # None
      <4>1. store[id] \in Credential
        BY <3>4 DEF IInv, TypeInv, TypeOK
      <4>2. creds[id] # None /\ creds[id] \in {store[id], Loaded(store[id])}
        BY <3>1, <3>2, <3>4 DEF Agree, Sound
      <4>3. Loaded(store[id]).token = issued[id] /\ Loaded(store[id]).status # "refreshing"
        BY <3>2, <4>1, <4>2, LoadedType DEF MapCurrent, Current
      <4>4. creds'[id] = Loaded(store[id])
        BY <2>1, <3>4
      <4> QED
        BY <2>1, <4>3, <4>4 DEF MapCurrent, Current
    <3> QED
      BY <3>3, <3>4
  <2>4. Snapshots'
    BY <2>1 DEF Snapshots, NewLoop
  <2> QED
    BY <2>2, <2>3, <2>4 DEF TokenInv, TokenRest
<1>4. CASE Tick
  BY <1>4, QuietToken DEF Tick
<1>5. CASE UNCHANGED vars
  BY <1>5, QuietToken DEF vars
<1> QED
  BY <1>2, <1>3, <1>4, <1>5

\* At first the map is empty.
LEMMA InitToken == Init => TokenInv
<1> SUFFICES ASSUME Init PROVE TokenInv
  OBVIOUS
<1>1. \A t \in Threads : TokenStage(t)
  BY DEF Init, TokenStage, Idle
<1>2. TokenRest /\ Snapshots
  BY DEF Init, TokenRest, MapCurrent, Snapshots, NewLoop
<1> QED
  BY <1>1, <1>2 DEF TokenInv

\* Every step of the manager keeps the invariant.
LEMMA NextToken == IInv /\ TokenInv /\ [Next]_vars => TokenInv'
BY StartsToken, ThreadToken, WorkerToken, LoopToken, ProcessToken DEF Next

\* TokenInv holds in every reachable state.
LEMMA AlwaysToken == Spec => [](IInv /\ TokenInv)
<1>1. Init => IInv /\ TokenInv
  BY InitType, InitAgree, InitToken DEF IInv
<1>2. IInv /\ TokenInv /\ [Next]_vars => (IInv /\ TokenInv)'
  BY NextAgree, NextToken
<1> QED
  BY <1>1, <1>2, PTL DEF Spec

\* The manager never loses a token the provider has rotated: without overlap
\* and without a fault the map holds the latest one whenever no operation is
\* under way (manager.go:576-606), for any number of credentials, requests
\* and refresh goroutines and across restarts.
THEOREM TokenAlwaysCurrent == Spec => []TokenIsCurrent
<1>1. IInv /\ TokenInv => TokenIsCurrent
  BY DEF TokenInv, TokenRest, TokenIsCurrent, Settled, Busy, Sound, MapCurrent, Current
<1> QED
  BY <1>1, AlwaysToken, PTL

\* "refreshing" ends with the refresh: without overlap and fault no
\* credential keeps that status once refreshOne has returned
\* (manager.go:576-606), nor after a restart (manager.go:203-205).
THEOREM RefreshingAlwaysEnds == Spec => []RefreshingEnds
<1>1. IInv /\ TokenInv => RefreshingEnds
  BY DEF TokenInv, TokenRest, RefreshingEnds, Settled, Busy, Sound, MapCurrent, Current
<1> QED
  BY <1>1, AlwaysToken, PTL
=============================================================================
