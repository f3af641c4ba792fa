---- MODULE InputHandoffProofs ----
(***************************************************************************)
(* Proofs about InputHandoff, for any number of messages, resends, workers, *)
(* faults, webhooks and sweeps: its types, that the text of a turn that is  *)
(* still to be sent is kept, and that a turn that a client was told of has  *)
(* a wakeup.                                                                *)
(***************************************************************************)
EXTENDS InputHandoff, WellFoundedInduction, TLAPS

----
\* The inductive invariant

\* A request that can no longer make a row refer to its object.
Settled(k) == req[k].pc \notin {"new", "admit", "drop"}

\* The object a row refers to is of its own message, will not be dropped as a second
\* copy, and is there unless a failed admission undid it.
KeyInv(m) ==
    task[m].key # None =>
        /\ MessageOf(task[m].key) = m
        /\ Settled(task[m].key)
        /\ task[m].key \in store \/ req[task[m].key].pc = "undone"

\* A turn that is still to be sent refers to an object; the active task is the one
\* that is dispatched or bound; an admitted turn has its place in the order.
RowInv(m) ==
    /\ task[m].state \in {"queued", "dispatching"} => task[m].key # None
    /\ task[m].state \in {"dispatching", "bound"} <=> ctx.active = m
    /\ task[m].state # "absent" => \E i \in DOMAIN ctx.order : ctx.order[i] = m
    /\ task[m].held => task[m].state = "dispatching"

\* What a request has done: a written object until its admission, a row after it, and
\* a missing object that it read is not written again.
RequestInv(r) ==
    /\ req[r].pc = "new" => r \notin store
    /\ req[r].pc = "admit" => r \in store
    /\ req[r].pc \in {"drop", "schedule", "read", "get", "refresh", "answered", "broken"} =>
           task[MessageOf(r)].state # "absent"
    /\ req[r].pc \in {"drop", "schedule"} /\ ~req[r].open => task[MessageOf(r)].state = "terminal"
    /\ req[r].pc \in {"get", "refresh", "broken"} => req[r].key # None /\ Settled(req[r].key)
    /\ req[r].pc = "refresh" => req[r].key \notin store
    /\ req[r].pc = "broken" => req[req[r].key].pc = "undone"

\* What the sweep is going to delete, no row refers to or will refer to.
SweepInv == \A k \in sweep.orphans : Settled(k) /\ \A m \in Messages : task[m].key # k

\* A worker that still owns the lease works on the active task, which nobody else
\* moves; an object it is going to delete is no longer referred to.
WorkerInv(w) ==
    /\ loc[w].pc \in {"dispatch", "send", "bind"} =>
           /\ loc[w].task # None
           /\ Owns(w) => ctx.active = loc[w].task /\ task[loc[w].task].state = "dispatching"
    /\ loc[w].pc = "delete" /\ loc[w].key # None =>
           Settled(loc[w].key) /\ \A m \in Messages : task[m].key # loc[w].key

\* A worker whose run will queue a wakeup, or fail its own, while a turn is unfinished.
Working == \E w \in Workers : loc[w].pc \notin {"idle", "release"}

WakeInv ==
    \A m \in Messages : task[m].state \in Unfinished /\ Told(m) => Woken \/ dlq \/ Working

IInv ==
    /\ TypeOK
    /\ \A m \in Messages : KeyInv(m) /\ RowInv(m)
    /\ \A r \in Requests : RequestInv(r)
    /\ SweepInv
    /\ \A w \in Workers : WorkerInv(w)
    /\ WakeInv

----
\* Sequences, records and the queue

\* A non-empty set of positions has a first one.
LEMMA FirstPosition ==
    ASSUME NEW T, T \subseteq Nat, T # {}
    PROVE  \E i \in T : \A j \in T : i <= j
  <1>1. PICK i \in T : \A j \in T : ~ (<<j, i>> \in OpToRel(<, Nat))
    BY NatLessThanWellFounded, WFMin, Zenon
  <1>2. \A j \in T : ~(j < i)
    BY <1>1 DEF OpToRel
  <1> QED BY <1>2

\* next_queued() is a queued task, and there is one when some task is queued.
LEMMA NextQueuedIs ==
    ASSUME TypeOK
    PROVE  /\ NextQueued # None => NextQueued \in Messages /\ task[NextQueued].state = "queued"
           /\ \A m \in Messages : \A i \in DOMAIN ctx.order :
                 ctx.order[i] = m /\ task[m].state = "queued" => NextQueued # None
  <1> DEFINE queued == {i \in DOMAIN ctx.order : task[ctx.order[i]].state = "queued"}
  <1>1. /\ ctx.order \in Seq(Messages)
        /\ \A i \in DOMAIN ctx.order : ctx.order[i] \in Messages
    BY DEF TypeOK
  <1>2. CASE queued = {}
    <2>1. NextQueued = None
      BY <1>2 DEF NextQueued
    <2> QED BY <1>2, <2>1
  <1>3. CASE queued # {}
    <2> DEFINE first == CHOOSE i \in queued : \A j \in queued : i <= j
    <2>1. NextQueued = ctx.order[first]
      BY <1>3 DEF NextQueued
    <2>2. queued \subseteq Nat
      BY <1>1
    <2>3. \E i \in queued : \A j \in queued : i <= j
      BY <1>3, <2>2, FirstPosition, Zenon
    <2>4. first \in queued
      BY <2>3, Zenon
    <2>5. NextQueued \in Messages /\ task[NextQueued].state = "queued"
      BY <1>1, <2>1, <2>4
    <2> QED BY <2>5, ConstantsAssumption
  <1> QED BY <1>2, <1>3

LEMMA SetLoc ==
    ASSUME TypeOK, NEW w \in Workers, NEW l \in Worker, loc' = [loc EXCEPT ![w] = l]
    PROVE  /\ loc' \in [Workers -> Worker]
           /\ loc'[w] = l
           /\ \A v \in Workers \ {w} : loc'[v] = loc[v]
  BY DEF TypeOK

LEMMA SetRequest ==
    ASSUME TypeOK, NEW r \in Requests, NEW q \in Request, req' = [req EXCEPT ![r] = q]
    PROVE  /\ req' \in [Requests -> Request]
           /\ req'[r] = q
           /\ \A s \in Requests \ {r} : req'[s] = req[s]
  BY DEF TypeOK

LEMMA SetTask ==
    ASSUME TypeOK, NEW m \in Messages, NEW t \in TaskRow, task' = [task EXCEPT ![m] = t]
    PROVE  /\ task' \in [Messages -> TaskRow]
           /\ task'[m] = t
           /\ \A n \in Messages \ {m} : task'[n] = task[n]
  BY DEF TypeOK

\* A worker that only moves keeps what it read.
LEMMA GotoLoc ==
    ASSUME TypeOK, NEW w \in Workers, NEW p \in WorkerPcs, Goto(w, p)
    PROVE  /\ loc' \in [Workers -> Worker]
           /\ \A v \in Workers \ {w} : loc'[v] = loc[v]
           /\ loc'[w].pc = p /\ loc'[w].task = loc[w].task /\ loc'[w].key = loc[w].key
  <1> DEFINE l == [loc[w] EXCEPT !.pc = p]
  <1>1. loc[w] \in Worker /\ loc' = [loc EXCEPT ![w] = l]
    BY DEF TypeOK, Goto
  <1>2. l \in Worker /\ l.pc = p /\ l.task = loc[w].task /\ l.key = loc[w].key
    BY <1>1 DEF Worker
  <1> HIDE DEF l
  <1> QED BY <1>1, <1>2, SetLoc

\* A worker that ends its run.
LEMMA IdleLoc ==
    ASSUME TypeOK, NEW w \in Workers, loc' = [loc EXCEPT ![w] = IdleWorker]
    PROVE  /\ loc' \in [Workers -> Worker]
           /\ \A v \in Workers \ {w} : loc'[v] = loc[v]
           /\ loc'[w].pc = "idle"
  <1>1. IdleWorker \in Worker /\ IdleWorker.pc = "idle"
    BY ConstantsAssumption DEF IdleWorker, Worker, WorkerPcs
  <1> QED BY <1>1, SetLoc

\* A request that goes on to its next step.
LEMMA RequestPc ==
    ASSUME TypeOK, NEW r \in Requests, NEW p \in RequestPcs, req' = [req EXCEPT ![r].pc = p]
    PROVE  /\ req' \in [Requests -> Request]
           /\ \A s \in Requests \ {r} : req'[s] = req[s]
           /\ req'[r].pc = p /\ req'[r].open = req[r].open /\ req'[r].key = req[r].key
  <1> DEFINE q == [req[r] EXCEPT !.pc = p]
  <1>1. req[r] \in Request /\ req' = [req EXCEPT ![r] = q]
    BY DEF TypeOK
  <1>2. q \in Request /\ q.pc = p /\ q.open = req[r].open /\ q.key = req[r].key
    BY <1>1 DEF Request
  <1> HIDE DEF q
  <1> QED BY <1>1, <1>2, SetRequest

\* A task that ends, is held, is dispatched or is queued again keeps its key.
LEMMA TaskFields ==
    ASSUME NEW t \in TaskRow, NEW s \in {"absent", "queued", "dispatching", "bound", "terminal"},
           NEW h \in BOOLEAN
    PROVE  /\ [t EXCEPT !.state = s] \in TaskRow
           /\ [t EXCEPT !.held = h] \in TaskRow
           /\ [t EXCEPT !.state = s, !.held = h] \in TaskRow
  BY DEF TaskRow

LEMMA FaultType == ASSUME TypeOK, Fault \/ UNCHANGED faults PROVE faults' \in Nat
  BY DEF TypeOK, Fault

\* A wakeup is in the queue after schedule().
LEMMA ScheduleWakes ==
    ASSUME TypeOK, schedule
    PROVE  queue' \in [0..(MaxReceives - 1) -> Nat] /\ Woken'
  <1>1. 0 \in 0..(MaxReceives - 1) /\ queue[0] \in Nat
    BY ConstantsAssumption DEF TypeOK
  <1>2. queue'[0] = queue[0] + 1 /\ queue' \in [0..(MaxReceives - 1) -> Nat]
    BY <1>1 DEF schedule, TypeOK
  <1>3. queue'[0] > 0 /\ 0 \in DOMAIN queue'
    BY <1>1, <1>2
  <1> QED BY <1>2, <1>3 DEF Woken

\* A record that failed is in the queue again, or given up.
LEMMA RedeliverWakes ==
    ASSUME TypeOK, NEW w \in Workers, Redeliver(w)
    PROVE  queue' \in [0..(MaxReceives - 1) -> Nat] /\ dlq' \in BOOLEAN /\ (Woken' \/ dlq')
  <1> DEFINE n == loc[w].receives
  <1>1. n \in 0..MaxReceives
    BY DEF TypeOK, Worker
  <1>2. CASE n < MaxReceives
    <2>1. n \in 0..(MaxReceives - 1) /\ queue[n] \in Nat
      BY <1>1, <1>2, ConstantsAssumption DEF TypeOK
    <2>2. queue' = [queue EXCEPT ![n] = queue[n] + 1] /\ dlq' = dlq
      BY <1>2 DEF Redeliver
    <2>3. queue'[n] = queue[n] + 1 /\ queue' \in [0..(MaxReceives - 1) -> Nat]
      BY <2>1, <2>2 DEF TypeOK
    <2>4. queue'[n] > 0 /\ n \in DOMAIN queue'
      BY <2>1, <2>3
    <2> QED BY <2>2, <2>3, <2>4 DEF Woken, TypeOK
  <1>3. CASE ~(n < MaxReceives)
    BY <1>3 DEF Redeliver, TypeOK
  <1> QED BY <1>2, <1>3

----
\* Frames

\* Something that will wake the scheduler for an unfinished turn.
Alive == Woken \/ dlq \/ Working

\* A step that finishes turns or forgets clients, and keeps what wakes.
LEMMA WakeKept ==
    ASSUME WakeInv, Alive => Alive',
           \A m \in Messages : task'[m].state \in Unfinished => task[m].state \in Unfinished,
           \A m \in Messages : Told(m)' => Told(m)
    PROVE  WakeInv'
  BY DEF WakeInv, Alive

\* Nobody is told anything new by a step of a worker.
LEMMA ToldSame == ASSUME UNCHANGED req PROVE \A m \in Messages : Told(m)' => Told(m)
  BY DEF Told

\* While a worker works on, or the queue only gets fuller, the scheduler is woken.
LEMMA WorkingOn ==
    ASSUME TypeOK, NEW w \in Workers, \A v \in Workers \ {w} : loc'[v] = loc[v],
           loc'[w].pc \notin {"idle", "release"}
    PROVE  Alive'
  BY DEF Alive, Working

LEMMA StillAlive ==
    ASSUME Alive, UNCHANGED <<queue, dlq>>, loc' = loc
    PROVE  Alive'
  BY DEF Alive, Woken, Working

\* What holds of rows and requests depends on rows, requests and the store.
LEMMA RowsSame ==
    ASSUME IInv, UNCHANGED <<req, task, ctx, store>>
    PROVE  /\ \A m \in Messages : KeyInv(m)' /\ RowInv(m)'
           /\ \A r \in Requests : RequestInv(r)'
           /\ UNCHANGED sweep => SweepInv'
  BY DEF IInv, KeyInv, RowInv, RequestInv, SweepInv, Settled

\* A worker that does not move keeps its promises while the rows stay and nobody
\* gives it the lease.
LEMMA OtherSame ==
    ASSUME NEW v \in Workers, WorkerInv(v), loc'[v] = loc[v], UNCHANGED <<req, task, ctx>>,
           Owns(v)' => Owns(v)
    PROVE  WorkerInv(v)'
  BY DEF WorkerInv, Settled

\* Places at which a worker's record says nothing of the rows.
Free == {"idle", "claim", "run", "reschedule", "release", "raise"}

LEMMA FreeWorker ==
    ASSUME NEW w \in Workers, loc'[w].pc \in Free PROVE WorkerInv(w)'
  BY DEF WorkerInv, Free

\* A step of one worker that leaves the rows and the store alone.
LEMMA MoveStep ==
    ASSUME IInv, TypeOK', NEW w \in Workers, UNCHANGED <<req, task, ctx, store, sweep>>,
           \A v \in Workers \ {w} : loc'[v] = loc[v],
           \A v \in Workers \ {w} : Owns(v)' => Owns(v),
           WorkerInv(w)', Alive => Alive'
    PROVE  IInv'
  <1>1. ASSUME NEW v \in Workers PROVE WorkerInv(v)'
    BY OtherSame DEF IInv
  <1>2. WakeInv'
    BY WakeKept, ToldSame DEF IInv
  <1> QED BY <1>1, <1>2, RowsSame DEF IInv

----
\* Steps of a worker that leave the rows alone

LEMMA ReceiveStep ==
    ASSUME IInv, NEW w \in Workers, NEW n \in DOMAIN queue, Receive(w, n)
    PROVE  IInv'
  <1> DEFINE l == [loc[w] EXCEPT !.pc = "claim", !.receives = n + 1]
  <1>0. TypeOK /\ loc[w] \in Worker /\ n \in 0..(MaxReceives - 1) /\ queue[n] \in Nat
    BY DEF IInv, TypeOK
  <1>1. n + 1 \in 0..MaxReceives
    BY <1>0, ConstantsAssumption
  <1>2. l \in Worker /\ l.pc = "claim"
    BY <1>0, <1>1 DEF Worker, WorkerPcs
  <1>3. loc' = [loc EXCEPT ![w] = l]
    BY DEF Receive
  <1> HIDE DEF l
  <1>4. /\ loc' \in [Workers -> Worker] /\ loc'[w].pc = "claim"
        /\ \A v \in Workers \ {w} : loc'[v] = loc[v]
    BY <1>0, <1>2, <1>3, SetLoc
  <1>5. queue' \in [0..(MaxReceives - 1) -> Nat]
    <2>1. queue[n] - 1 \in Nat
      BY <1>0 DEF Receive
    <2> QED BY <1>0, <2>1 DEF Receive, TypeOK
  <1>6. TypeOK'
    BY <1>0, <1>4, <1>5 DEF Receive, TypeOK
  <1>7. \A v \in Workers \ {w} : Owns(v)' => Owns(v)
    BY DEF Receive, Owns
  <1>8. WorkerInv(w)' /\ Alive'
    BY <1>0, <1>4, FreeWorker, WorkingOn DEF Free
  <1> QED BY <1>4, <1>6, <1>7, <1>8, MoveStep DEF Receive

Provider == [sent: SUBSET Messages, done: SUBSET Messages, webhooks: Nat]

\* A worker that moves on, to a place where its record says nothing.
LEMMA GotoStep ==
    ASSUME IInv, NEW w \in Workers, NEW p \in Free \ {"idle", "release"}, Goto(w, p),
           UNCHANGED <<req, task, ctx, store, queue, dlq, sweep>>,
           lease' = lease, Fault \/ UNCHANGED faults,
           cma' = cma \/ cma' \in Provider
    PROVE  IInv'
  <1>0. TypeOK /\ p \in WorkerPcs
    BY DEF IInv, Free, WorkerPcs
  <1>1. /\ loc' \in [Workers -> Worker] /\ loc'[w].pc = p
        /\ \A v \in Workers \ {w} : loc'[v] = loc[v]
    BY <1>0, GotoLoc
  <1>2. TypeOK'
    BY <1>0, <1>1, FaultType DEF TypeOK, Provider
  <1>3. \A v \in Workers \ {w} : Owns(v)' => Owns(v)
    BY DEF Owns
  <1>4. WorkerInv(w)' /\ Alive'
    BY <1>0, <1>1, FreeWorker, WorkingOn
  <1> QED BY <1>1, <1>2, <1>3, <1>4, MoveStep

\* Nobody but the one that claims gets the lease.
LEMMA ClaimStep ==
    ASSUME IInv, NEW w \in Workers, claim_scheduler(w)
    PROVE  IInv'
  <1>0. TypeOK
    BY DEF IInv
  <1>1. CASE Goto(w, "raise") /\ UNCHANGED lease
    BY <1>1, GotoStep DEF claim_scheduler, Free
  <1>2. CASE lease' = [claim |-> w, live |-> TRUE] /\ Goto(w, "run")
    <2>1. /\ loc' \in [Workers -> Worker] /\ loc'[w].pc = "run"
          /\ \A v \in Workers \ {w} : loc'[v] = loc[v]
      BY <1>0, <1>2, GotoLoc DEF WorkerPcs
    <2>2. TypeOK'
      BY <1>0, <1>2, <2>1 DEF claim_scheduler, TypeOK
    <2>3. \A v \in Workers \ {w} : Owns(v)' => Owns(v)
      BY <1>2 DEF Owns
    <2>4. WorkerInv(w)' /\ Alive'
      BY <1>0, <2>1, FreeWorker, WorkingOn DEF Free
    <2> QED BY <2>1, <2>2, <2>3, <2>4, MoveStep DEF claim_scheduler
  <1> QED BY <1>1, <1>2 DEF claim_scheduler

\* A run that ends leaves a wakeup, or was not what kept the scheduler awake.
LEMMA EndSteps ==
    ASSUME IInv, NEW w \in Workers, release_scheduler(w) \/ RunFails(w) \/ Crash(w)
    PROVE  IInv'
  <1>0. TypeOK
    BY DEF IInv
  <1>1. /\ loc' \in [Workers -> Worker] /\ loc'[w].pc = "idle"
        /\ \A v \in Workers \ {w} : loc'[v] = loc[v]
    BY <1>0, IdleLoc DEF release_scheduler, RunFails, Crash
  <1>2. /\ lease' \in [claim: Workers \cup {None}, live: BOOLEAN]
        /\ \A v \in Workers \ {w} : Owns(v)' => Owns(v)
    <2>1. lease' = lease \/ lease' = [claim |-> None, live |-> FALSE]
      BY DEF release_scheduler, RunFails, Crash, Freed
    <2>2. \A v \in Workers \ {w} : Owns(v)' => Owns(v)
      BY <2>1 DEF Owns
    <2>3. [claim |-> None, live |-> FALSE] \in [claim: Workers \cup {None}, live: BOOLEAN]
      OBVIOUS
    <2> QED BY <1>0, <2>1, <2>2, <2>3 DEF TypeOK
  <1>3. queue' \in [0..(MaxReceives - 1) -> Nat] /\ dlq' \in BOOLEAN /\ faults' \in Nat
    BY <1>0, RedeliverWakes, FaultType DEF release_scheduler, RunFails, Crash, TypeOK
  <1>4. TypeOK'
    BY <1>0, <1>1, <1>2, <1>3 DEF release_scheduler, RunFails, Crash, TypeOK
  <1>5. Alive => Alive'
    <2>1. CASE RunFails(w) \/ Crash(w)
      BY <1>0, <2>1, RedeliverWakes DEF RunFails, Crash, Alive
    <2>2. CASE release_scheduler(w)
      <3>1. Woken' = Woken /\ dlq' = dlq
        BY <2>2 DEF release_scheduler, Woken
      <3>2. Working => Working'
        BY <1>1, <2>2 DEF release_scheduler, At, Working
      <3> QED BY <3>1, <3>2 DEF Alive
    <2> QED BY <2>1, <2>2
  <1>6. WorkerInv(w)'
    BY <1>1, FreeWorker DEF Free
  <1> QED BY <1>1, <1>2, <1>4, <1>5, <1>6, MoveStep DEF release_scheduler, RunFails, Crash

\* A worker that reads the text of the task it dispatches.
LEMMA ReadInputStep ==
    ASSUME IInv, NEW w \in Workers, ReadInput(w)
    PROVE  IInv'
  <1>0. TypeOK /\ WorkerInv(w) /\ loc[w].pc = "dispatch"
    BY DEF IInv, ReadInput, At
  <1>1. CASE Goto(w, "raise")
    BY <1>1, GotoStep DEF ReadInput, Free
  <1>2. CASE Goto(w, "send")
    <2>1. /\ loc' \in [Workers -> Worker] /\ loc'[w].pc = "send"
          /\ loc'[w].task = loc[w].task
          /\ \A v \in Workers \ {w} : loc'[v] = loc[v]
      BY <1>0, <1>2, GotoLoc DEF WorkerPcs
    <2>2. TypeOK'
      BY <1>0, <2>1 DEF ReadInput, TypeOK
    <2>3. \A v \in Workers : Owns(v)' => Owns(v)
      BY DEF ReadInput, Owns
    <2>4. WorkerInv(w)'
      BY <1>0, <2>1, <2>3 DEF ReadInput, WorkerInv
    <2>5. Alive'
      BY <1>0, <2>1, WorkingOn
    <2> QED BY <2>1, <2>2, <2>3, <2>4, <2>5, MoveStep DEF ReadInput
  <1> QED BY <1>1, <1>2 DEF ReadInput

\* A run that sees an unfinished turn queues a wakeup before it ends.
LEMMA RescheduleStep ==
    ASSUME IInv, NEW w \in Workers, Reschedule(w)
    PROVE  IInv'
  <1>0. TypeOK
    BY DEF IInv
  <1>1. /\ loc' \in [Workers -> Worker] /\ loc'[w].pc = "release"
        /\ \A v \in Workers \ {w} : loc'[v] = loc[v]
    BY <1>0, GotoLoc DEF Reschedule, WorkerPcs
  <1>2. queue' \in [0..(MaxReceives - 1) -> Nat]
    BY <1>0, ScheduleWakes DEF Reschedule, TypeOK
  <1>3. TypeOK'
    BY <1>0, <1>1, <1>2 DEF Reschedule, TypeOK
  <1>4. \A v \in Workers : Owns(v)' => Owns(v)
    BY DEF Reschedule, Owns
  <1>5. WorkerInv(w)'
    BY <1>1, FreeWorker DEF Free
  <1>6. ASSUME NEW v \in Workers PROVE WorkerInv(v)'
    BY <1>1, <1>4, <1>5, OtherSame DEF Reschedule, IInv
  <1>7. WakeInv'
    <2>1. CASE ctx.active # None \/ NextQueued # None
      <3>1. Woken'
        BY <1>0, <2>1, ScheduleWakes DEF Reschedule
      <3> QED BY <3>1 DEF WakeInv
    <2>2. CASE ctx.active = None /\ NextQueued = None
      <3>1. ASSUME NEW m \in Messages PROVE task[m].state \notin Unfinished
        <4>1. RowInv(m) /\ m # None
          BY ConstantsAssumption DEF IInv
        <4>2. task[m].state \notin {"dispatching", "bound"}
          BY <2>2, <4>1 DEF RowInv
        <4>3. task[m].state # "queued"
          BY <1>0, <2>2, <4>1, NextQueuedIs DEF RowInv
        <4> QED BY <4>2, <4>3 DEF Unfinished
      <3>2. task' = task
        BY DEF Reschedule
      <3> QED BY <3>1, <3>2 DEF WakeInv
    <2> QED BY <2>1, <2>2
  <1>8. /\ \A m \in Messages : KeyInv(m)' /\ RowInv(m)'
        /\ \A r \in Requests : RequestInv(r)'
        /\ SweepInv'
    BY RowsSame DEF Reschedule
  <1> QED BY <1>3, <1>6, <1>7, <1>8 DEF IInv

----
\* Steps of a worker that move the active task

\* The rows change for one message, whose key stays or is let go; the request that
\* owns the key and the store are as they were.
LEMMA OneRow ==
    ASSUME IInv, NEW m \in Messages, UNCHANGED <<req, store, sweep>>,
           task' \in [Messages -> TaskRow],
           \A n \in Messages \ {m} : task'[n] = task[n],
           task'[m].key = task[m].key \/ task'[m].key = None,
           task[m].state \notin {"absent", "terminal"}, task'[m].state # "absent"
    PROVE  /\ \A n \in Messages : KeyInv(n)'
           /\ \A r \in Requests : RequestInv(r)'
           /\ SweepInv'
  <1>1. ASSUME NEW n \in Messages PROVE KeyInv(n)'
    BY DEF IInv, KeyInv, Settled
  <1>2. ASSUME NEW r \in Requests PROVE RequestInv(r)'
    <2>1. MessageOf(r) \in Messages
      BY DEF Requests, MessageOf
    <2> QED BY <2>1 DEF IInv, RequestInv, Settled
  <1>3. SweepInv'
    <2>1. \A k \in sweep.orphans : k # None
      BY ConstantsAssumption DEF IInv, TypeOK, Requests
    <2> QED BY <2>1 DEF IInv, SweepInv, Settled
  <1> QED BY <1>1, <1>2, <1>3

\* The other rows do not mind a new active task when it was theirs neither before
\* nor after.
LEMMA OtherRows ==
    ASSUME IInv, NEW m \in Messages,
           \A n \in Messages \ {m} : task'[n] = task[n],
           ctx'.order = ctx.order, {ctx.active, ctx'.active} \subseteq {m, None}, RowInv(m)'
    PROVE  \A n \in Messages : RowInv(n)'
  <1>1. ASSUME NEW n \in Messages \ {m} PROVE RowInv(n)'
    <2>1. n # ctx.active /\ n # ctx'.active
      BY ConstantsAssumption
    <2> QED BY <2>1 DEF IInv, RowInv
  <1> QED BY <1>1

\* Only the owner of the lease moves the active task, so that no other worker that
\* owns it can lose its own; and keys are only let go.
LEMMA OwnerMoves ==
    ASSUME IInv, NEW w \in Workers, Owns(w), UNCHANGED <<req, lease>>,
           \A v \in Workers \ {w} : loc'[v] = loc[v],
           \A n \in Messages : task'[n].key = task[n].key \/ task'[n].key = None
    PROVE  \A v \in Workers \ {w} : WorkerInv(v)'
  <1> SUFFICES ASSUME NEW v \in Workers \ {w} PROVE WorkerInv(v)'
    OBVIOUS
  <1>1. ~Owns(v) /\ ~Owns(v)'
    BY DEF Owns
  <1> QED BY <1>1 DEF IInv, WorkerInv, Settled

\* The owner of the lease moves the active task and goes on.
LEMMA OwnerStep ==
    ASSUME IInv, TypeOK', NEW w \in Workers, NEW m \in Messages, Owns(w),
           UNCHANGED <<req, store, lease, sweep>>,
           \A v \in Workers \ {w} : loc'[v] = loc[v],
           loc'[w].pc \notin {"idle", "release"}, WorkerInv(w)',
           \A n \in Messages \ {m} : task'[n] = task[n],
           task'[m].key = task[m].key \/ task'[m].key = None,
           task[m].state \notin {"absent", "terminal"}, task'[m].state # "absent",
           ctx'.order = ctx.order, {ctx.active, ctx'.active} \subseteq {m, None}, RowInv(m)'
    PROVE  IInv'
  <1>0. TypeOK /\ task' \in [Messages -> TaskRow]
    BY DEF IInv, TypeOK
  <1>1. /\ \A n \in Messages : KeyInv(n)'
        /\ \A r \in Requests : RequestInv(r)'
        /\ SweepInv'
    BY <1>0, OneRow
  <1>2. \A n \in Messages : RowInv(n)'
    BY OtherRows
  <1>3. \A n \in Messages : task'[n].key = task[n].key \/ task'[n].key = None
    OBVIOUS
  <1>4. \A v \in Workers : WorkerInv(v)'
    BY <1>3, OwnerMoves
  <1>5. WakeInv'
    BY <1>0, WorkingOn DEF WakeInv, Alive
  <1> QED BY <1>1, <1>2, <1>4, <1>5 DEF IInv

\* The owner of the lease finishes the active task.
LEMMA FinishStep ==
    ASSUME IInv, NEW w \in Workers, NEW m \in Messages, Owns(w), ctx.active = m, Finish(m),
           Goto(w, "reschedule"), UNCHANGED <<req, store, cma, queue, dlq, lease, sweep>>,
           Fault \/ UNCHANGED faults
    PROVE  IInv'
  <1> DEFINE t == [task[m] EXCEPT !.state = "terminal", !.held = FALSE]
  <1>0. TypeOK /\ task[m] \in TaskRow /\ RowInv(m)
    BY DEF IInv, TypeOK
  <1>1. t \in TaskRow /\ t.state = "terminal" /\ ~t.held /\ t.key = task[m].key
    BY <1>0 DEF TaskRow
  <1>2. task' = [task EXCEPT ![m] = t]
    BY DEF Finish
  <1> HIDE DEF t
  <1>3. /\ task' \in [Messages -> TaskRow] /\ task'[m] = t
        /\ \A n \in Messages \ {m} : task'[n] = task[n]
    BY <1>0, <1>1, <1>2, SetTask
  <1>4. /\ ctx'.active = None /\ ctx'.order = ctx.order
        /\ ctx' \in [active: Messages \cup {None}, order: Seq(Messages)]
    BY <1>0 DEF Finish, TypeOK
  <1>5. /\ loc' \in [Workers -> Worker] /\ loc'[w].pc = "reschedule"
        /\ \A v \in Workers \ {w} : loc'[v] = loc[v]
    BY <1>0, GotoLoc DEF WorkerPcs
  <1>6. TypeOK'
    BY <1>0, <1>3, <1>4, <1>5, FaultType DEF TypeOK
  <1>7. RowInv(m)'
    BY <1>0, <1>1, <1>3, <1>4, ConstantsAssumption DEF RowInv
  <1>8. task[m].state \notin {"absent", "terminal"}
    BY <1>0 DEF RowInv
  <1>9. WorkerInv(w)'
    BY <1>5, FreeWorker DEF Free
  <1> QED BY <1>1, <1>3, <1>4, <1>5, <1>6, <1>7, <1>8, <1>9, OwnerStep

\* The owner of the lease holds the active task that is being dispatched.
LEMMA HoldStep ==
    ASSUME IInv, cma' = cma \/ cma' \in Provider,
           NEW w \in Workers, NEW m \in Messages, Owns(w), ctx.active = m,
           task[m].state = "dispatching", task' = [task EXCEPT ![m].held = TRUE],
           Goto(w, "reschedule"), UNCHANGED <<req, ctx, store, queue, dlq, lease, sweep>>,
           Fault \/ UNCHANGED faults
    PROVE  IInv'
  <1> DEFINE t == [task[m] EXCEPT !.held = TRUE]
  <1>0. TypeOK /\ task[m] \in TaskRow /\ RowInv(m)
    BY DEF IInv, TypeOK
  <1>1. t \in TaskRow /\ t.state = task[m].state /\ t.key = task[m].key
    BY <1>0 DEF TaskRow
  <1>2. task' = [task EXCEPT ![m] = t]
    OBVIOUS
  <1> HIDE DEF t
  <1>3. /\ task' \in [Messages -> TaskRow] /\ task'[m] = t
        /\ \A n \in Messages \ {m} : task'[n] = task[n]
    BY <1>0, <1>1, <1>2, SetTask
  <1>4. /\ loc' \in [Workers -> Worker] /\ loc'[w].pc = "reschedule"
        /\ \A v \in Workers \ {w} : loc'[v] = loc[v]
    BY <1>0, GotoLoc DEF WorkerPcs
  <1>5. TypeOK'
    BY <1>0, <1>3, <1>4, FaultType DEF TypeOK, Provider
  <1>6. RowInv(m)'
    BY <1>0, <1>1, <1>3 DEF RowInv
  <1>7. WorkerInv(w)'
    BY <1>4, FreeWorker DEF Free
  <1> QED BY <1>1, <1>3, <1>4, <1>5, <1>6, <1>7, OwnerStep

\* A worker that finds its claim gone.
LEMMA LostStep ==
    ASSUME IInv, NEW w \in Workers, Lost(w), UNCHANGED <<req, store, queue, dlq, lease, sweep>>,
           Fault \/ UNCHANGED faults, cma' = cma \/ cma' \in Provider
    PROVE  IInv'
  BY GotoStep DEF Lost, Free

\* A worker that comes to bind a task that the provider holds.
LEMMA ToBindStep ==
    ASSUME IInv, NEW w \in Workers, NEW m \in Messages, NEW l \in Worker,
           l.pc = "bind", l.task = m, loc' = [loc EXCEPT ![w] = l],
           Owns(w) => ctx.active = m /\ task[m].state = "dispatching",
           UNCHANGED <<req, task, ctx, store, queue, dlq, lease, sweep, faults>>,
           cma' = cma \/ cma' \in Provider
    PROVE  IInv'
  <1>0. TypeOK /\ m # None
    BY ConstantsAssumption DEF IInv
  <1>1. /\ loc' \in [Workers -> Worker] /\ loc'[w] = l
        /\ \A v \in Workers \ {w} : loc'[v] = loc[v]
    BY <1>0, SetLoc
  <1>2. TypeOK'
    BY <1>0, <1>1 DEF TypeOK, Provider
  <1>3. \A v \in Workers : Owns(v)' => Owns(v)
    BY DEF Owns
  <1>4. WorkerInv(w)'
    BY <1>0, <1>1, <1>3 DEF WorkerInv
  <1>5. Alive'
    BY <1>0, <1>1, WorkingOn
  <1> QED BY <1>1, <1>2, <1>3, <1>4, <1>5, MoveStep

LEMMA ReconcileStep ==
    ASSUME IInv, NEW w \in Workers, ReconcileActive(w) \/ ReconcileNothing(w)
    PROVE  IInv'
  <1> DEFINE m == ctx.active
  <1>0. TypeOK /\ loc[w] \in Worker
    BY DEF IInv, TypeOK
  <1>1. CASE ReconcileNothing(w)
    BY <1>1, GotoStep DEF ReconcileNothing, Free
  <1>2. CASE ReconcileActive(w)
    <2>0. /\ m \in Messages
          /\ UNCHANGED <<req, store, cma, queue, dlq, lease, sweep, faults>>
      BY <1>0, <1>2 DEF ReconcileActive, TypeOK
    <2>1. CASE Lost(w)
      BY <2>0, <2>1, LostStep
    <2>2. CASE Goto(w, "reschedule") /\ UNCHANGED <<task, ctx>>
      BY <2>0, <2>2, GotoStep DEF Free
    <2>3. CASE Owns(w) /\ Finish(m) /\ Goto(w, "reschedule")
      BY <2>0, <2>3, FinishStep
    <2>4. CASE /\ task[m].state = "dispatching" /\ Owns(w)
               /\ task' = [task EXCEPT ![m].held = TRUE]
               /\ Goto(w, "reschedule") /\ UNCHANGED ctx
      BY <2>0, <2>4, HoldStep
    <2>5. CASE /\ task[m].state = "dispatching"
               /\ loc' = [loc EXCEPT ![w] = [@ EXCEPT !.pc = "bind", !.task = m]]
               /\ UNCHANGED <<task, ctx>>
      <3> DEFINE l == [loc[w] EXCEPT !.pc = "bind", !.task = m]
      <3>1. l \in Worker /\ l.pc = "bind" /\ l.task = m
        BY <1>0, <2>0 DEF Worker, WorkerPcs
      <3>2. loc' = [loc EXCEPT ![w] = l]
        BY <2>5
      <3> HIDE DEF l
      <3> QED BY <2>0, <2>5, <3>1, <3>2, ToBindStep
    <2> QED BY <1>2, <2>1, <2>2, <2>3, <2>4, <2>5 DEF ReconcileActive
  <1> QED BY <1>1, <1>2

\* The owner of the lease takes the next queued task.
LEMMA ActivateStep ==
    ASSUME IInv, NEW w \in Workers, activate_task(w)
    PROVE  IInv'
  <1>0. /\ TypeOK /\ loc[w] \in Worker /\ ctx.active = None
        /\ UNCHANGED <<req, store, cma, queue, dlq, lease, sweep, faults>>
    BY DEF IInv, TypeOK, activate_task
  <1>1. PICK m \in Messages : m = NextQueued /\ task[m].state = "queued" /\ m # None
    BY <1>0, NextQueuedIs DEF activate_task
  <1> DEFINE t == [task[m] EXCEPT !.state = "dispatching"]
             l == [loc[w] EXCEPT !.pc = "dispatch", !.task = m]
  <1>2. CASE Lost(w)
    BY <1>0, <1>2, LostStep
  <1>3. CASE /\ Owns(w) /\ ctx' = [ctx EXCEPT !.active = m]
             /\ task' = [task EXCEPT ![m].state = "dispatching"]
             /\ loc' = [loc EXCEPT ![w] = [@ EXCEPT !.pc = "dispatch", !.task = m]]
    <2>0. task[m] \in TaskRow /\ RowInv(m)
      BY <1>0, <1>1 DEF IInv, TypeOK
    <2>1. /\ t \in TaskRow /\ t.state = "dispatching" /\ t.held = task[m].held
          /\ t.key = task[m].key /\ task' = [task EXCEPT ![m] = t]
      BY <1>3, <2>0 DEF TaskRow
    <2>2. /\ l \in Worker /\ l.pc = "dispatch" /\ l.task = m
          /\ loc' = [loc EXCEPT ![w] = l]
      BY <1>0, <1>1, <1>3 DEF Worker, WorkerPcs
    <2>3. /\ ctx'.active = m /\ ctx'.order = ctx.order
          /\ ctx' \in [active: Messages \cup {None}, order: Seq(Messages)]
      BY <1>0, <1>1, <1>3 DEF TypeOK
    <2> HIDE DEF t, l
    <2>4. /\ task' \in [Messages -> TaskRow] /\ task'[m] = t
          /\ \A n \in Messages \ {m} : task'[n] = task[n]
      BY <1>0, <1>1, <2>1, SetTask
    <2>5. /\ loc' \in [Workers -> Worker] /\ loc'[w] = l
          /\ \A v \in Workers \ {w} : loc'[v] = loc[v]
      BY <1>0, <2>2, SetLoc
    <2>6. TypeOK'
      BY <1>0, <2>3, <2>4, <2>5 DEF TypeOK
    <2>7. RowInv(m)'
      BY <1>1, <2>0, <2>1, <2>3, <2>4 DEF RowInv
    <2>8. WorkerInv(w)'
      BY <1>1, <2>1, <2>2, <2>3, <2>4, <2>5 DEF WorkerInv
    <2> QED BY <1>0, <1>1, <1>3, <2>1, <2>2, <2>3, <2>4, <2>5, <2>6, <2>7, <2>8, OwnerStep
  <1> QED BY <1>1, <1>2, <1>3 DEF activate_task

\* The provider takes the message, refuses it, or nobody knows.
LEMMA SendStep ==
    ASSUME IInv, NEW w \in Workers, Send(w)
    PROVE  IInv'
  <1>0. /\ TypeOK /\ WorkerInv(w) /\ loc[w] \in Worker /\ loc[w].pc = "send"
        /\ UNCHANGED <<req, store, queue, dlq, lease, sweep>>
    BY DEF IInv, TypeOK, Send, At
  <1>1. PICK m \in Messages : m = loc[w].task
    BY <1>0 DEF WorkerInv, Worker
  <1>2. [cma EXCEPT !.sent = @ \cup {m}] \in Provider
    BY <1>0, <1>1 DEF TypeOK, Provider
  <1>3. Owns(w) => ctx.active = m /\ task[m].state = "dispatching"
    BY <1>0, <1>1 DEF WorkerInv
  <1>4. CASE Goto(w, "bind") /\ cma' = [cma EXCEPT !.sent = @ \cup {m}]
             /\ UNCHANGED <<task, ctx, faults>>
    <2> DEFINE l == [loc[w] EXCEPT !.pc = "bind"]
    <2>1. l \in Worker /\ l.pc = "bind" /\ l.task = m
      BY <1>0, <1>1 DEF Worker, WorkerPcs
    <2>2. loc' = [loc EXCEPT ![w] = l]
      BY <1>4 DEF Goto
    <2> HIDE DEF l
    <2> QED BY <1>0, <1>2, <1>3, <1>4, <2>1, <2>2, ToBindStep
  <1>5. cma' = cma \/ cma' = [cma EXCEPT !.sent = @ \cup {m}]
    BY <1>1 DEF Send
  <1>6. CASE Fault /\ Lost(w)
    BY <1>0, <1>2, <1>5, <1>6, LostStep
  <1>7. CASE Fault /\ Owns(w) /\ Finish(m) /\ Goto(w, "reschedule") /\ UNCHANGED cma
    BY <1>0, <1>3, <1>7, FinishStep
  <1>8. CASE /\ Fault /\ Owns(w) /\ task' = [task EXCEPT ![m].held = TRUE]
             /\ Goto(w, "reschedule") /\ UNCHANGED ctx
    BY <1>0, <1>2, <1>3, <1>5, <1>8, HoldStep
  <1> QED BY <1>1, <1>4, <1>6, <1>7, <1>8 DEF Send

\* The row lets go of the object before it is deleted.
LEMMA BindStep ==
    ASSUME IInv, NEW w \in Workers, _bind_input(w)
    PROVE  IInv'
  <1>0. /\ TypeOK /\ WorkerInv(w) /\ loc[w] \in Worker /\ loc[w].pc = "bind"
        /\ UNCHANGED <<req, store, cma, queue, dlq, lease, sweep, faults>>
    BY DEF IInv, TypeOK, _bind_input, At
  <1>1. PICK m \in Messages : m = loc[w].task
    BY <1>0 DEF WorkerInv, Worker
  <1>2. CASE Lost(w)
    BY <1>0, <1>2, LostStep
  <1>3. CASE /\ Owns(w) /\ UNCHANGED ctx
             /\ task' = [task EXCEPT ![m] = [state |-> "bound", key |-> None, held |-> FALSE]]
             /\ loc' = [loc EXCEPT ![w] = [@ EXCEPT !.pc = "delete", !.key = task[m].key]]
    <2> DEFINE t == [state |-> "bound", key |-> None, held |-> FALSE]
               l == [loc[w] EXCEPT !.pc = "delete", !.key = task[m].key]
    <2>0. task[m] \in TaskRow /\ RowInv(m) /\ KeyInv(m) /\ task[m].key \in Requests \cup {None}
      BY <1>0, <1>1 DEF IInv, TypeOK, TaskRow
    <2>1. ctx.active = m /\ task[m].state = "dispatching"
      BY <1>0, <1>1, <1>3 DEF WorkerInv
    <2>2. t \in TaskRow /\ t.state = "bound" /\ t.key = None /\ ~t.held
      BY DEF TaskRow
    <2>3. l \in Worker /\ l.pc = "delete" /\ l.key = task[m].key
      BY <1>0, <2>0 DEF Worker, WorkerPcs
    <2>4. loc' = [loc EXCEPT ![w] = l] /\ task' = [task EXCEPT ![m] = t]
      BY <1>3
    <2> HIDE DEF t, l
    <2>5. /\ task' \in [Messages -> TaskRow] /\ task'[m] = t
          /\ \A n \in Messages \ {m} : task'[n] = task[n]
      BY <1>0, <1>1, <2>2, <2>4, SetTask
    <2>6. /\ loc' \in [Workers -> Worker] /\ loc'[w] = l
          /\ \A v \in Workers \ {w} : loc'[v] = loc[v]
      BY <1>0, <2>3, <2>4, SetLoc
    <2>7. TypeOK'
      BY <1>0, <1>3, <2>5, <2>6 DEF TypeOK
    <2>8. RowInv(m)'
      BY <1>3, <2>0, <2>1, <2>2, <2>5 DEF RowInv
    <2>9. WorkerInv(w)'
      <3>0. PICK k \in Requests \cup {None} : k = task[m].key
        BY <2>0
      <3>1. ASSUME k # None PROVE req'[k].pc \notin {"new", "admit", "drop"} /\ MessageOf(k) = m
        BY <1>0, <2>0, <3>0, <3>1 DEF KeyInv, Settled
      <3>2. ASSUME k # None, NEW n \in Messages PROVE task'[n].key # k
        <4>1. CASE n = m
          BY <2>2, <2>5, <3>2, <4>1
        <4>2. CASE n # m
          <5>1. KeyInv(n) /\ task'[n].key = task[n].key
            BY <2>5, <4>2 DEF IInv
          <5> QED BY <3>1, <3>2, <4>2, <5>1 DEF KeyInv
        <4> QED BY <4>1, <4>2
      <3> QED BY <2>3, <2>6, <3>0, <3>1, <3>2 DEF WorkerInv, Settled
    <2> QED BY <1>0, <1>1, <1>3, <2>1, <2>2, <2>3, <2>5, <2>6, <2>7, <2>8, <2>9, OwnerStep
  <1> QED BY <1>1, <1>2, <1>3 DEF _bind_input

----
\* Objects that are deleted

\* Objects that no row refers to, or will refer to, may go.
LEMMA StoreShrinks ==
    ASSUME IInv, UNCHANGED <<req, task, ctx>>, store' \subseteq store,
           \A k \in store \ store' : Settled(k) /\ \A m \in Messages : task[m].key # k
    PROVE  /\ \A m \in Messages : KeyInv(m)' /\ RowInv(m)'
           /\ \A r \in Requests : RequestInv(r)'
  <1>1. ASSUME NEW m \in Messages PROVE KeyInv(m)' /\ RowInv(m)'
    BY DEF IInv, KeyInv, RowInv, Settled
  <1>2. ASSUME NEW r \in Requests PROVE RequestInv(r)'
    <2>1. req[r].pc = "admit" => r \in store'
      BY DEF IInv, RequestInv, Settled
    <2> QED BY <2>1 DEF IInv, RequestInv, Settled
  <1> QED BY <1>1, <1>2

LEMMA DeleteStep ==
    ASSUME IInv, NEW w \in Workers, DeleteInput(w)
    PROVE  IInv'
  <1>0. /\ TypeOK /\ WorkerInv(w) /\ loc[w].pc = "delete"
        /\ UNCHANGED <<req, task, ctx, cma, queue, dlq, lease, sweep>>
    BY DEF IInv, DeleteInput, At
  <1>1. /\ loc' \in [Workers -> Worker] /\ loc'[w].pc = "reschedule"
        /\ \A v \in Workers \ {w} : loc'[v] = loc[v]
    BY <1>0, GotoLoc DEF DeleteInput, WorkerPcs
  <1>2. /\ store' \subseteq store
        /\ \A k \in store \ store' : Settled(k) /\ \A m \in Messages : task[m].key # k
    <2>1. None \notin store
      BY <1>0, ConstantsAssumption DEF TypeOK, Requests
    <2> QED BY <1>0, <2>1 DEF DeleteInput, WorkerInv
  <1>3. TypeOK'
    BY <1>0, <1>1, <1>2, FaultType DEF DeleteInput, TypeOK
  <1>4. /\ \A m \in Messages : KeyInv(m)' /\ RowInv(m)'
        /\ \A r \in Requests : RequestInv(r)'
    BY <1>0, <1>2, StoreShrinks
  <1>5. SweepInv'
    BY <1>0 DEF IInv, SweepInv, Settled
  <1>6. \A v \in Workers : Owns(v)' => Owns(v)
    BY <1>0 DEF Owns
  <1>7. WorkerInv(w)' /\ Alive'
    BY <1>0, <1>1, FreeWorker, WorkingOn DEF Free
  <1>8. ASSUME NEW v \in Workers PROVE WorkerInv(v)'
    BY <1>0, <1>1, <1>6, <1>7, OtherSame DEF IInv
  <1>9. WakeInv'
    BY <1>7 DEF WakeInv, Alive
  <1> QED BY <1>3, <1>4, <1>5, <1>8, <1>9 DEF IInv

\* A step of nobody's that leaves rows and workers alone and takes no lease away from
\* its owner but for good.
LEMMA QuietStep ==
    ASSUME IInv, TypeOK', UNCHANGED <<req, task, ctx, store, loc>>, SweepInv',
           \A v \in Workers : Owns(v)' => Owns(v), Alive => Alive'
    PROVE  IInv'
  <1>1. ASSUME NEW v \in Workers PROVE WorkerInv(v)'
    BY OtherSame DEF IInv
  <1>2. WakeInv'
    BY WakeKept, ToldSame DEF IInv
  <1> QED BY <1>1, <1>2, RowsSame DEF IInv

LEMMA OutsideSteps ==
    ASSUME IInv,
           \/ LeaseExpires \/ handle_request \/ SweepStart \/ \E m \in Messages : ProviderDone(m)
    PROVE  IInv'
  <1>0. TypeOK /\ SweepInv
    BY DEF IInv
  <1>1. CASE LeaseExpires
    <2>1. TypeOK'
      BY <1>0, <1>1, FaultType DEF LeaseExpires, TypeOK
    <2>2. \A v \in Workers : Owns(v)' => Owns(v)
      BY <1>0, <1>1 DEF LeaseExpires, Owns, TypeOK
    <2>3. SweepInv'
      BY <1>0, <1>1 DEF LeaseExpires, SweepInv, Settled
    <2> QED BY <1>1, <2>1, <2>2, <2>3, StillAlive, QuietStep DEF LeaseExpires
  <1>2. CASE handle_request
    <2>1. queue' \in [0..(MaxReceives - 1) -> Nat] /\ Woken'
      BY <1>0, <1>2, ScheduleWakes DEF handle_request
    <2>2. cma' \in Provider
      <3>1. cma.webhooks + 1 \in Nat
        BY <1>0 DEF TypeOK
      <3> QED BY <1>0, <1>2, <3>1 DEF handle_request, TypeOK, Provider
    <2>3. TypeOK'
      BY <1>0, <1>2, <2>1, <2>2 DEF handle_request, TypeOK, Provider
    <2>4. (\A v \in Workers : Owns(v)' => Owns(v)) /\ SweepInv' /\ Alive'
      BY <1>0, <1>2, <2>1 DEF handle_request, Owns, SweepInv, Settled, Alive
    <2> QED BY <1>2, <2>3, <2>4, QuietStep DEF handle_request
  <1>3. CASE \E m \in Messages : ProviderDone(m)
    <2>1. TypeOK'
      BY <1>0, <1>3 DEF ProviderDone, TypeOK
    <2>2. (\A v \in Workers : Owns(v)' => Owns(v)) /\ SweepInv'
      BY <1>0, <1>3 DEF ProviderDone, Owns, SweepInv, Settled
    <2> QED BY <1>3, <2>1, <2>2, StillAlive, QuietStep DEF ProviderDone
  <1>4. CASE SweepStart
    <2>1. sweep'.runs = sweep.runs + 1 /\ sweep'.orphans = OldKeys \ Referenced
      BY <1>4 DEF SweepStart
    <2>2. TypeOK'
      <3>1. sweep.runs + 1 \in Nat /\ OldKeys \ Referenced \subseteq Requests
        BY <1>0 DEF TypeOK, OldKeys
      <3> QED BY <1>0, <1>4, <3>1 DEF SweepStart, TypeOK
    <2>3. SweepInv'
      <3> SUFFICES ASSUME NEW k \in OldKeys \ Referenced
                   PROVE  /\ req[k].pc \notin {"new", "admit", "drop"}
                          /\ \A m \in Messages : task[m].key # k
        BY <1>4, <2>1 DEF SweepInv, Settled, SweepStart
      <3>1. k \in store /\ k \in Requests /\ k # None /\ req[k].pc \notin {"admit", "drop"}
        BY <1>0, ConstantsAssumption DEF OldKeys, TypeOK, Requests
      <3>2. req[k].pc # "new"
        BY <3>1 DEF IInv, RequestInv
      <3> QED BY <3>1, <3>2 DEF Referenced
    <2>4. \A v \in Workers : Owns(v)' => Owns(v)
      BY <1>4 DEF SweepStart, Owns
    <2> QED BY <1>4, <2>2, <2>3, <2>4, StillAlive, QuietStep DEF SweepStart
  <1> QED BY <1>1, <1>2, <1>3, <1>4

LEMMA SweepStep ==
    ASSUME IInv, SweepDelete
    PROVE  IInv'
  <1>0. /\ TypeOK /\ UNCHANGED <<req, task, ctx, cma, queue, dlq, lease, loc, faults>>
        /\ store' = store \ sweep.orphans
    BY DEF IInv, SweepDelete
  <1>1. TypeOK' /\ SweepInv'
    BY <1>0 DEF SweepDelete, TypeOK, SweepInv
  <1>2. \A k \in store \ store' : Settled(k) /\ \A m \in Messages : task[m].key # k
    BY <1>0 DEF IInv, SweepInv
  <1>3. /\ \A m \in Messages : KeyInv(m)' /\ RowInv(m)'
        /\ \A r \in Requests : RequestInv(r)'
    BY <1>0, <1>2, StoreShrinks
  <1>4. ASSUME NEW v \in Workers PROVE WorkerInv(v)'
    BY <1>0, OtherSame DEF IInv, Owns
  <1>5. WakeInv'
    BY <1>0, WakeKept, ToldSame, StillAlive DEF IInv
  <1> QED BY <1>1, <1>3, <1>4, <1>5 DEF IInv

----
\* Clients that cancel, and the operator

LEMMA CancelStep ==
    ASSUME IInv, NEW m \in Messages, cancel(m)
    PROVE  IInv'
  <1> DEFINE t == [task[m] EXCEPT !.state = "terminal"]
  <1>0. /\ TypeOK /\ task[m] \in TaskRow /\ RowInv(m) /\ task[m].state = "queued"
        /\ UNCHANGED <<req, ctx, store, cma, queue, dlq, lease, loc, sweep, faults>>
    BY DEF IInv, TypeOK, cancel
  <1>1. /\ t \in TaskRow /\ t.state = "terminal" /\ t.held = task[m].held /\ t.key = task[m].key
        /\ task' = [task EXCEPT ![m] = t]
    BY <1>0 DEF TaskRow, cancel
  <1> HIDE DEF t
  <1>2. /\ task' \in [Messages -> TaskRow] /\ task'[m] = t
        /\ \A n \in Messages \ {m} : task'[n] = task[n]
    BY <1>0, <1>1, SetTask
  <1>3. TypeOK'
    BY <1>0, <1>2 DEF TypeOK
  <1>4. /\ \A n \in Messages : KeyInv(n)'
        /\ \A r \in Requests : RequestInv(r)'
        /\ SweepInv'
    BY <1>0, <1>1, <1>2, OneRow
  <1>5. ASSUME NEW n \in Messages PROVE RowInv(n)'
    BY <1>0, <1>1, <1>2 DEF IInv, RowInv
  <1>6. ASSUME NEW v \in Workers PROVE WorkerInv(v)'
    <2>1. Owns(v)' = Owns(v)
      BY <1>0 DEF Owns
    <2>2. WorkerInv(v) /\ loc[v] \in Worker /\ loc'[v] = loc[v]
      BY <1>0 DEF IInv, TypeOK
    <2>3. \A n \in Messages : task'[n].key = task[n].key
      BY <1>1, <1>2
    <2>4. \A n \in Messages : task[n].state = "dispatching" => task'[n] = task[n]
      BY <1>0, <1>2
    <2> QED BY <1>0, <2>1, <2>2, <2>3, <2>4 DEF WorkerInv, Settled, Worker
  <1>7. WakeInv'
    <2>1. \A n \in Messages : task'[n].state \in Unfinished => task[n].state \in Unfinished
      BY <1>1, <1>2 DEF Unfinished
    <2> QED BY <1>0, <2>1, WakeKept, ToldSame, StillAlive DEF IInv
  <1> QED BY <1>3, <1>4, <1>5, <1>6, <1>7 DEF IInv

\* The operator moves the held task only while nobody owns the lease.
LEMMA ResolveStep ==
    ASSUME IInv, NEW m \in Messages, resolve(m)
    PROVE  IInv'
  <1>0. /\ TypeOK /\ task[m] \in TaskRow /\ RowInv(m) /\ task[m].held
        /\ task[m].state = "dispatching" /\ ctx.active = m /\ m # None
        /\ UNCHANGED <<req, store, cma, dlq, lease, loc, sweep>>
    BY ConstantsAssumption DEF IInv, TypeOK, resolve, RowInv
  <1>1. PICK s \in {"terminal", "queued"} :
            task' = [task EXCEPT ![m] = [@ EXCEPT !.state = s, !.held = FALSE]]
    BY DEF resolve, Finish
  <1> DEFINE t == [task[m] EXCEPT !.state = s, !.held = FALSE]
  <1>2. /\ t \in TaskRow /\ t.state = s /\ ~t.held /\ t.key = task[m].key
        /\ task' = [task EXCEPT ![m] = t]
    BY <1>0, <1>1 DEF TaskRow
  <1> HIDE DEF t
  <1>3. /\ task' \in [Messages -> TaskRow] /\ task'[m] = t
        /\ \A n \in Messages \ {m} : task'[n] = task[n]
    BY <1>0, <1>2, SetTask
  <1>4. /\ ctx'.active = None /\ ctx'.order = ctx.order
        /\ ctx' \in [active: Messages \cup {None}, order: Seq(Messages)]
    BY <1>0 DEF resolve, Finish, TypeOK
  <1>5. queue' \in [0..(MaxReceives - 1) -> Nat] /\ Woken'
    BY <1>0, ScheduleWakes DEF resolve
  <1>6. TypeOK'
    <2>1. faults' \in Nat
      BY <1>0, FaultType DEF resolve
    <2> QED BY <1>0, <1>3, <1>4, <1>5, <2>1 DEF TypeOK
  <1>7. /\ \A n \in Messages : KeyInv(n)'
        /\ \A r \in Requests : RequestInv(r)'
        /\ SweepInv'
    BY <1>0, <1>2, <1>3, OneRow
  <1>8. RowInv(m)'
    BY <1>0, <1>2, <1>3, <1>4 DEF RowInv
  <1>9. \A n \in Messages : RowInv(n)'
    BY <1>0, <1>3, <1>4, <1>8, OtherRows
  <1>10. ASSUME NEW v \in Workers PROVE WorkerInv(v)'
    <2>1. ~Owns(v)'
      BY <1>0, ConstantsAssumption DEF resolve, Owns
    <2>2. \A n \in Messages : task'[n].key = task[n].key
      BY <1>2, <1>3
    <2> QED BY <1>0, <2>1, <2>2 DEF IInv, WorkerInv, Settled
  <1> QED BY <1>5, <1>6, <1>7, <1>9, <1>10 DEF IInv, WakeInv

----
\* Requests

\* A request that goes on without a new row: others keep theirs, and whoever counts on
\* a settled or an undone request can go on doing so.
LEMMA RequestGoes ==
    ASSUME IInv, NEW r \in Requests, \A s \in Requests \ {r} : req'[s] = req[s],
           Settled(r) => Settled(r)',
           req[r].pc = "undone" => req'[r].pc = "undone"
    PROVE  /\ \A k \in Requests : Settled(k) => Settled(k)'
           /\ \A k \in Requests : req[k].pc = "undone" => req'[k].pc = "undone"
  BY DEF Settled

TellingPcs == {"read", "get", "refresh", "answered", "broken"}

\* A client is told of its task only when its own request comes to read it.
LEMMA TellsNobody ==
    ASSUME NEW r \in Requests, \A s \in Requests \ {r} : req'[s] = req[s],
           req'[r].pc \in TellingPcs => req[r].pc \in TellingPcs
    PROVE  \A m \in Messages : Told(m)' => Told(m)
  BY DEF Told, TellingPcs

\* A request that writes or deletes at most its own object, and no row.
LEMMA RequestStepKeeps ==
    ASSUME IInv, TypeOK', NEW r \in Requests, UNCHANGED <<task, ctx, lease, loc, sweep>>,
           \A s \in Requests \ {r} : req'[s] = req[s],
           Settled(r) => Settled(r)',
           req[r].pc = "undone" => req'[r].pc = "undone",
           store \ {r} \subseteq store', store' \subseteq store \cup {r},
           r \in store' \ store => ~Settled(r),
           r \in store \ store' => ~Settled(r) \/ req'[r].pc = "undone",
           RequestInv(r)', WakeInv'
    PROVE  IInv'
  <1>1. /\ \A k \in Requests : Settled(k) => Settled(k)'
        /\ \A k \in Requests : req[k].pc = "undone" => req'[k].pc = "undone"
    BY RequestGoes
  <1>2. /\ task \in [Messages -> TaskRow] /\ req \in [Requests -> Request]
        /\ loc \in [Workers -> Worker] /\ sweep.orphans \subseteq Requests
    BY DEF IInv, TypeOK
  <1>3. ASSUME NEW m \in Messages PROVE KeyInv(m)' /\ RowInv(m)'
    <2>1. task[m].key \in Requests \cup {None}
      BY <1>2 DEF TaskRow
    <2>2. KeyInv(m)'
      BY <1>1, <2>1 DEF IInv, KeyInv, Settled
    <2>3. RowInv(m)'
      BY DEF IInv, RowInv
    <2> QED BY <2>2, <2>3
  <1>4. ASSUME NEW s \in Requests PROVE RequestInv(s)'
    <2>1. CASE s = r
      BY <2>1
    <2>2. CASE s # r
      <3>1. req[s].key \in Requests \cup {None} /\ req'[s] = req[s] /\ RequestInv(s)
        BY <1>2, <2>2 DEF Request, IInv
      <3>2. ASSUME req[s].pc \in {"get", "refresh", "broken"}
            PROVE  req[s].key # None /\ Settled(req[s].key) /\ Settled(req[s].key)'
        <4>1. req[s].key \in Requests
          BY <3>1, <3>2 DEF RequestInv
        <4>2. PICK k \in Requests : k = req[s].key
          BY <4>1
        <4>3. Settled(k)
          BY <3>1, <3>2, <4>2 DEF RequestInv
        <4> QED BY <1>1, <3>1, <3>2, <4>2, <4>3 DEF RequestInv, Settled
      <3>3. req[s].pc = "refresh" => req[s].key \notin store'
        BY <3>1, <3>2 DEF RequestInv
      <3>4. req[s].pc = "broken" => req'[req[s].key].pc = "undone"
        BY <1>1, <3>1 DEF RequestInv
      <3> QED BY <2>2, <3>1, <3>2, <3>3, <3>4 DEF RequestInv
    <2> QED BY <2>1, <2>2
  <1>5. SweepInv'
    BY <1>1, <1>2 DEF IInv, SweepInv
  <1>6. ASSUME NEW v \in Workers PROVE WorkerInv(v)'
    <2>1. WorkerInv(v) /\ loc[v].key \in Requests \cup {None} /\ Owns(v)' = Owns(v)
      BY <1>2 DEF IInv, Worker, Owns
    <2> QED BY <1>1, <2>1 DEF WorkerInv, Settled
  <1> QED BY <1>3, <1>4, <1>5, <1>6 DEF IInv

LEMMA StoreSteps ==
    ASSUME IInv, NEW r \in Requests, put(r) \/ DropDuplicate(r) \/ UndoPut(r)
    PROVE  IInv'
  <1>0. /\ TypeOK /\ RequestInv(r)
        /\ UNCHANGED <<task, ctx, cma, queue, dlq, lease, loc, sweep, faults>>
    BY DEF IInv, put, DropDuplicate, UndoPut
  <1>1. PICK p \in {"admit", "schedule", "undone"} : req' = [req EXCEPT ![r].pc = p]
    BY DEF put, DropDuplicate, UndoPut
  <1>2. /\ req' \in [Requests -> Request]
        /\ \A s \in Requests \ {r} : req'[s] = req[s]
        /\ req'[r].pc = p /\ req'[r].open = req[r].open /\ req'[r].key = req[r].key
    BY <1>0, <1>1, RequestPc DEF RequestPcs
  <1>3. TypeOK'
    BY <1>0, <1>2 DEF put, DropDuplicate, UndoPut, TypeOK
  <1>4. WakeInv'
    <2>1. req'[r].pc \notin TellingPcs
      BY <1>2 DEF TellingPcs
    <2> QED BY <1>0, <1>2, <2>1, TellsNobody, WakeKept, StillAlive DEF IInv
  <1>5. CASE put(r)
    <2>1. req[r].pc = "new" /\ p = "admit" /\ store' = store \cup {r}
      BY <1>0, <1>2, <1>5, RequestPc DEF put, RequestPcs
    <2>2. RequestInv(r)'
      BY <1>2, <2>1 DEF RequestInv
    <2> QED BY <1>0, <1>2, <1>3, <1>4, <2>1, <2>2, RequestStepKeeps DEF Settled
  <1>6. CASE DropDuplicate(r)
    <2>1. req[r].pc = "drop" /\ p = "schedule" /\ store' = store \ {r}
      BY <1>0, <1>2, <1>6, RequestPc DEF DropDuplicate, RequestPcs
    <2>2. RequestInv(r)'
      BY <1>0, <1>2, <2>1 DEF RequestInv
    <2> QED BY <1>0, <1>2, <1>3, <1>4, <2>1, <2>2, RequestStepKeeps DEF Settled
  <1>7. CASE UndoPut(r)
    <2>1. req[r].pc = "undo" /\ p = "undone" /\ store' = store \ {r}
      BY <1>0, <1>2, <1>7, RequestPc DEF UndoPut, RequestPcs
    <2>2. RequestInv(r)'
      BY <1>0, <1>2, <2>1 DEF RequestInv
    <2> QED BY <1>0, <1>2, <1>3, <1>4, <2>1, <2>2, RequestStepKeeps DEF Settled
  <1> QED BY <1>5, <1>6, <1>7

\* Every request whose task is unfinished wakes the scheduler before it reads the task.
LEMMA ScheduleStep ==
    ASSUME IInv, NEW r \in Requests, Schedule(r)
    PROVE  IInv'
  <1>0. /\ TypeOK /\ RequestInv(r) /\ req[r].pc = "schedule" /\ MessageOf(r) \in Messages
        /\ UNCHANGED <<task, ctx, store, cma, dlq, lease, loc, sweep>>
    BY DEF IInv, Schedule, MessageOf, Requests
  <1>1. PICK p \in {"read", "failed"} : req' = [req EXCEPT ![r].pc = p]
    BY DEF Schedule
  <1>2. /\ req' \in [Requests -> Request]
        /\ \A s \in Requests \ {r} : req'[s] = req[s]
        /\ req'[r].pc = p /\ req'[r].open = req[r].open /\ req'[r].key = req[r].key
    BY <1>0, <1>1, RequestPc DEF RequestPcs
  <1>3. TypeOK'
    <2>1. queue' \in [0..(MaxReceives - 1) -> Nat] /\ faults' \in Nat
      BY <1>0, ScheduleWakes, FaultType DEF Schedule, TypeOK
    <2> QED BY <1>0, <1>2, <2>1 DEF TypeOK
  <1>4. RequestInv(r)'
    BY <1>0, <1>2 DEF RequestInv
  <1>5. WakeInv'
    <2>1. CASE schedule
      BY <1>0, <2>1, ScheduleWakes DEF WakeInv
    <2>2. CASE UNCHANGED queue /\ p = "failed"
      <3>1. req'[r].pc \notin TellingPcs
        BY <1>2, <2>2 DEF TellingPcs
      <3> QED BY <1>0, <1>2, <2>2, <3>1, TellsNobody, WakeKept, StillAlive DEF IInv
    <2>3. CASE UNCHANGED queue /\ p = "read"
      <3>1. ~req[r].open
        <4>1. 0 \in 0..(MaxReceives - 1) /\ queue[0] \in Nat
          BY <1>0, ConstantsAssumption DEF TypeOK
        <4>2. ~schedule
          BY <1>0, <2>3, <4>1 DEF schedule, TypeOK
        <4>3. req'[r].pc # "failed"
          BY <1>2, <2>3
        <4>4. req' # [req EXCEPT ![r].pc = "failed"]
          BY <1>0, <4>3 DEF TypeOK, Request
        <4> QED BY <4>2, <4>4 DEF Schedule
      <3>2. task[MessageOf(r)].state \notin Unfinished
        BY <1>0, <3>1 DEF RequestInv, Unfinished
      <3>3. ASSUME NEW m \in Messages, m # MessageOf(r), Told(m)' PROVE Told(m)
        BY <1>2, <3>3 DEF Told
      <3>4. Alive' = Alive
        BY <1>0, <2>3 DEF Alive, Woken, Working
      <3> QED BY <1>0, <3>2, <3>3, <3>4 DEF IInv, WakeInv, Alive
    <2> QED BY <1>0, <1>1, <1>2, <2>1, <2>2, <2>3 DEF Schedule
  <1> QED BY <1>0, <1>2, <1>3, <1>4, <1>5, RequestStepKeeps DEF Settled

\* Reads of the task and of its text; a crash.
LEMMA ReadTaskStep ==
    ASSUME IInv, NEW r \in Requests, ReadTask(r)
    PROVE  IInv'
  <1>0. /\ TypeOK /\ RequestInv(r) /\ req[r] \in Request /\ req[r].pc = "read"
        /\ MessageOf(r) \in Messages
        /\ UNCHANGED <<task, ctx, store, cma, queue, dlq, lease, loc, sweep, faults>>
    BY DEF IInv, TypeOK, ReadTask, MessageOf, Requests
  <1>1. PICK k \in Requests \cup {None} : k = task[MessageOf(r)].key
    BY <1>0 DEF TypeOK, TaskRow
  <1> DEFINE q == [req[r] EXCEPT !.pc = IF k = None THEN "answered" ELSE "get", !.key = k]
  <1>2. /\ q \in Request /\ q.pc = (IF k = None THEN "answered" ELSE "get") /\ q.key = k
        /\ q.open = req[r].open
    BY <1>0 DEF Request, RequestPcs
  <1>3. req' = [req EXCEPT ![r] = q]
    BY <1>1 DEF ReadTask
  <1> HIDE DEF q
  <1>4. /\ req' \in [Requests -> Request] /\ req'[r] = q
        /\ \A s \in Requests \ {r} : req'[s] = req[s]
    BY <1>0, <1>2, <1>3, SetRequest
  <1>5. TypeOK'
    BY <1>0, <1>4 DEF TypeOK
  <1>6. RequestInv(r)'
    <2>1. k # None => req[k].pc \notin {"new", "admit", "drop"}
      BY <1>0, <1>1 DEF IInv, KeyInv, Settled
    <2>2. k # None => req'[k].pc \notin {"new", "admit", "drop"}
      BY <1>2, <1>4, <2>1
    <2> QED BY <1>0, <1>2, <1>4, <2>2 DEF RequestInv, Settled
  <1>7. WakeInv'
    <2>1. req[r].pc \in TellingPcs
      BY <1>0 DEF TellingPcs
    <2> QED BY <1>0, <1>4, <2>1, TellsNobody, WakeKept, StillAlive DEF IInv
  <1>8. Settled(r)'
    BY <1>2, <1>4 DEF Settled
  <1> QED BY <1>0, <1>4, <1>5, <1>6, <1>7, <1>8, RequestStepKeeps

LEMMA ReadSteps ==
    ASSUME IInv, NEW r \in Requests, ReadObject(r) \/ RefreshTask(r) \/ CrashRequest(r)
    PROVE  IInv'
  <1>0. /\ TypeOK /\ RequestInv(r) /\ req[r] \in Request /\ MessageOf(r) \in Messages
        /\ req[r].pc \notin {"new", "undone"}
        /\ UNCHANGED <<task, ctx, store, cma, queue, dlq, lease, loc, sweep>>
    BY DEF IInv, TypeOK, ReadObject, RefreshTask, CrashRequest, MessageOf, Requests
  <1>1. PICK p \in {"answered", "refresh", "broken", "failed"} :
            /\ req' = [req EXCEPT ![r].pc = p]
            /\ p = "refresh" => ReadObject(r) /\ req[r].key \notin store
            /\ p = "broken" => RefreshTask(r) /\ task[MessageOf(r)].key = req[r].key
            /\ p = "answered" => ReadObject(r) \/ RefreshTask(r)
    BY DEF ReadObject, RefreshTask, CrashRequest
  <1>2. /\ req' \in [Requests -> Request]
        /\ \A s \in Requests \ {r} : req'[s] = req[s]
        /\ req'[r].pc = p /\ req'[r].open = req[r].open /\ req'[r].key = req[r].key
    BY <1>0, <1>1, RequestPc DEF RequestPcs
  <1>3. TypeOK'
    <2>1. faults' \in Nat
      BY <1>0, FaultType DEF ReadObject, RefreshTask, CrashRequest
    <2> QED BY <1>0, <1>2, <2>1 DEF TypeOK
  <1>4. RequestInv(r)'
    <2>1. CASE p = "failed"
      BY <1>2, <2>1 DEF RequestInv
    <2>2. CASE p = "answered"
      BY <1>0, <1>1, <1>2, <2>2 DEF RequestInv, ReadObject, RefreshTask
    <2>3. CASE p \in {"refresh", "broken"}
      <3>1. PICK k \in Requests : k = req[r].key /\ req[k].pc \notin {"new", "admit", "drop"}
        BY <1>0, <1>1, <2>3, ConstantsAssumption
           DEF RequestInv, ReadObject, RefreshTask, Request, Settled
      <3>2. req'[k].pc \notin {"new", "admit", "drop"} /\ k # None
        BY <1>2, <2>3, <3>1, ConstantsAssumption DEF Requests
      <3>3. p = "broken" => req'[k].pc = "undone"
        <4> SUFFICES ASSUME p = "broken" PROVE req'[k].pc = "undone"
          OBVIOUS
        <4>1. KeyInv(MessageOf(r)) /\ task[MessageOf(r)].key = k /\ req[r].pc = "refresh"
              /\ k \notin store
          BY <1>0, <1>1, <3>1 DEF IInv, RefreshTask, RequestInv
        <4>2. req[k].pc = "undone"
          BY <3>2, <4>1 DEF KeyInv
        <4> QED BY <1>2, <4>1, <4>2
      <3>4. task[MessageOf(r)].state # "absent"
        BY <1>0, <1>1, <2>3 DEF RequestInv, ReadObject, RefreshTask
      <3> QED BY <1>0, <1>1, <1>2, <2>3, <3>1, <3>2, <3>3, <3>4 DEF RequestInv, Settled
    <2> QED BY <2>1, <2>2, <2>3
  <1>5. WakeInv'
    <2>1. req'[r].pc \in TellingPcs => req[r].pc \in TellingPcs
      BY <1>1, <1>2 DEF TellingPcs, ReadObject, RefreshTask
    <2> QED BY <1>0, <1>2, <2>1, TellsNobody, WakeKept, StillAlive DEF IInv
  <1>6. Settled(r)'
    BY <1>2 DEF Settled
  <1> QED BY <1>0, <1>2, <1>3, <1>4, <1>5, <1>6, RequestStepKeeps

\* A row is made: it refers to the object that its request has written.
LEMMA AdmissionStep ==
    ASSUME IInv, NEW r \in Requests, NEW q \in Request, req[r].pc = "admit",
           req' = [req EXCEPT ![r] = q], q.pc \in {"schedule", "undo"},
           q.pc = "schedule" => q.open, q.key = req[r].key,
           task[MessageOf(r)].state = "absent", Admits(r), Fault \/ UNCHANGED faults,
           UNCHANGED <<store, cma, queue, dlq, lease, loc, sweep>>
    PROVE  IInv'
  <1>0. PICK m \in Messages : m = MessageOf(r)
    BY DEF Requests, MessageOf
  <1> DEFINE t == [state |-> "queued", key |-> r, held |-> FALSE]
  <1>1. /\ TypeOK /\ r \in store /\ r # None /\ KeyInv(m) /\ RowInv(m)
        /\ ctx.order \in Seq(Messages) /\ task[m].state = "absent"
    BY <1>0, ConstantsAssumption DEF IInv, TypeOK, RequestInv, Requests
  <1>2. t \in TaskRow /\ t.state = "queued" /\ t.key = r /\ ~t.held
    BY DEF TaskRow
  <1>3. /\ task' = [task EXCEPT ![m] = t]
        /\ ctx' = [ctx EXCEPT !.order = Append(ctx.order, m)]
    BY <1>0 DEF Admits
  <1> HIDE DEF t
  <1>4. /\ task' \in [Messages -> TaskRow] /\ task'[m] = t
        /\ \A n \in Messages \ {m} : task'[n] = task[n]
    BY <1>1, <1>2, <1>3, SetTask
  <1>5. /\ req' \in [Requests -> Request] /\ req'[r] = q
        /\ \A s \in Requests \ {r} : req'[s] = req[s]
    BY <1>1, SetRequest
  <1>6. /\ Append(ctx.order, m) \in Seq(Messages)
        /\ \E i \in DOMAIN Append(ctx.order, m) : Append(ctx.order, m)[i] = m
        /\ \A i \in DOMAIN ctx.order : /\ i \in DOMAIN Append(ctx.order, m)
                                       /\ Append(ctx.order, m)[i] = ctx.order[i]
    <2>1. Append(ctx.order, m)[Len(ctx.order) + 1] = m
          /\ Len(ctx.order) + 1 \in DOMAIN Append(ctx.order, m)
      BY <1>1
    <2>2. Append(ctx.order, m) \in Seq(Messages)
      BY <1>1
    <2>3. \A i \in DOMAIN ctx.order : /\ i \in DOMAIN Append(ctx.order, m)
                                      /\ Append(ctx.order, m)[i] = ctx.order[i]
      BY <1>1
    <2> QED BY <2>1, <2>2, <2>3
  <1>7. /\ ctx'.active = ctx.active /\ ctx'.order = Append(ctx.order, m)
        /\ ctx' \in [active: Messages \cup {None}, order: Seq(Messages)]
    BY <1>1, <1>3, <1>6 DEF TypeOK
  <1>8. TypeOK'
    BY <1>1, <1>4, <1>5, <1>7, FaultType DEF TypeOK
  <1>9. \A k \in Requests : Settled(k) => Settled(k)' /\ k # r
    BY <1>5 DEF Settled
  <1>10. ASSUME NEW n \in Messages PROVE KeyInv(n)'
    <2>1. CASE n = m
      BY <1>0, <1>1, <1>2, <1>4, <1>5, <2>1 DEF KeyInv, Settled
    <2>2. CASE n # m
      <3>1. KeyInv(n) /\ task'[n] = task[n] /\ task[n].key \in Requests \cup {None}
        BY <1>1, <1>4, <2>2 DEF IInv, TypeOK, TaskRow
      <3> QED BY <1>5, <1>9, <3>1 DEF KeyInv, Settled
    <2> QED BY <2>1, <2>2
  <1>11. ASSUME NEW n \in Messages PROVE RowInv(n)'
    <2>1. CASE n = m
      BY <1>1, <1>2, <1>4, <1>6, <1>7, <2>1 DEF RowInv
    <2>2. CASE n # m
      <3>1. RowInv(n) /\ task'[n] = task[n]
        BY <1>4, <2>2 DEF IInv
      <3>2. task[n].state # "absent" => \E i \in DOMAIN ctx'.order : ctx'.order[i] = n
        BY <1>6, <1>7, <3>1 DEF RowInv
      <3> QED BY <1>7, <3>1, <3>2 DEF RowInv
    <2> QED BY <2>1, <2>2
  <1>12. ASSUME NEW s \in Requests PROVE RequestInv(s)'
    <2>0. MessageOf(s) \in Messages
      BY DEF Requests, MessageOf
    <2>1. CASE s = r
      BY <1>0, <1>1, <1>2, <1>4, <1>5, <2>1 DEF RequestInv
    <2>2. CASE s # r
      <3>1. RequestInv(s) /\ req'[s] = req[s] /\ req[s].key \in Requests \cup {None}
        BY <1>1, <1>5, <2>2 DEF IInv, TypeOK, Request
      <3>2. ASSUME NEW k \in Requests, Settled(k)
            PROVE  /\ req'[k] = req[k]
                   /\ Settled(k)'
        BY <1>5, <1>9, <3>2
      <3>3. req[s].pc \in {"get", "refresh", "broken"} =>
                /\ req[s].key # None
                /\ req'[req[s].key] = req[req[s].key]
                /\ req'[req[s].key].pc \notin {"new", "admit", "drop"}
        BY <3>1, <3>2 DEF RequestInv, Settled
      <3>4. req[s].pc \in {"drop", "schedule", "read", "get", "refresh", "answered", "broken"} =>
                MessageOf(s) # m /\ task'[MessageOf(s)] = task[MessageOf(s)]
        BY <1>1, <1>4, <2>0, <3>1 DEF RequestInv
      <3> QED BY <2>0, <3>1, <3>3, <3>4 DEF RequestInv, Settled
    <2> QED BY <2>1, <2>2
  <1>13. SweepInv'
    <2>1. ASSUME NEW k \in sweep.orphans PROVE Settled(k)' /\ \A n \in Messages : task'[n].key # k
      <3>1. k \in Requests /\ Settled(k) /\ \A n \in Messages : task[n].key # k
        BY <1>1 DEF IInv, TypeOK, SweepInv
      <3> QED BY <1>2, <1>4, <1>9, <3>1
    <2> QED BY <2>1 DEF SweepInv
  <1>14. ASSUME NEW v \in Workers PROVE WorkerInv(v)'
    <2>1. WorkerInv(v) /\ loc'[v] = loc[v] /\ loc[v] \in Worker /\ Owns(v)' = Owns(v)
      BY <1>1 DEF IInv, TypeOK, Owns
    <2>2. loc[v].pc = "delete" /\ loc[v].key # None =>
              Settled(loc[v].key)' /\ \A n \in Messages : task'[n].key # loc[v].key
      <3>1. SUFFICES ASSUME NEW k \in Requests, k = loc[v].key, loc[v].pc = "delete",
                            loc[v].key # None
                     PROVE  Settled(k)' /\ \A n \in Messages : task'[n].key # k
        BY <2>1 DEF Worker, Settled
      <3>2. Settled(k) /\ \A n \in Messages : task[n].key # k
        BY <2>1, <3>1 DEF WorkerInv
      <3> QED BY <1>2, <1>4, <1>9, <3>2
    <2>3. loc[v].pc \in {"dispatch", "send", "bind"} =>
              /\ loc[v].task # None
              /\ Owns(v) => /\ ctx.active = loc[v].task
                            /\ task'[loc[v].task].state = "dispatching"
      BY <1>1, <1>4, <2>1 DEF WorkerInv, Worker
    <2> QED BY <1>7, <2>1, <2>2, <2>3 DEF WorkerInv
  <1>15. WakeInv'
    <2>1. ~Told(m)
      BY <1>1 DEF Told, IInv, RequestInv
    <2>2. \A n \in Messages : Told(n)' => Told(n)
      <3>1. req'[r].pc \notin TellingPcs
        BY <1>5 DEF TellingPcs
      <3> QED BY <1>5, <3>1, TellsNobody
    <2>3. Alive' = Alive
      BY DEF Alive, Woken, Working
    <2> QED BY <1>4, <2>1, <2>2, <2>3 DEF IInv, WakeInv, Alive
  <1> QED BY <1>8, <1>10, <1>11, <1>12, <1>13, <1>14, <1>15 DEF IInv

LEMMA AdmitStep ==
    ASSUME IInv, NEW r \in Requests, admit(r)
    PROVE  IInv'
  <1>0. /\ TypeOK /\ RequestInv(r) /\ req[r] \in Request /\ req[r].pc = "admit"
        /\ UNCHANGED <<store, cma, queue, dlq, lease, loc, sweep>>
        /\ Fault \/ UNCHANGED faults
    BY DEF IInv, TypeOK, admit
  <1>1. PICK m \in Messages : m = MessageOf(r)
    BY DEF Requests, MessageOf
  <1>2. PICK q \in Request :
            /\ req' = [req EXCEPT ![r] = q]
            /\ q.key = req[r].key
            /\ \/ /\ q.pc = IF task[m].state = "absent" THEN "schedule" ELSE "drop"
                  /\ q.open = (task[m].state # "terminal")
                  /\ Admits(r)
               \/ /\ q.pc = "undo"
                  /\ UNCHANGED <<task, ctx>> \/ Admits(r)
    <2>1. CASE /\ Admits(r)
               /\ req' = [req EXCEPT ![r] = [@ EXCEPT
                     !.pc = IF task[m].state = "absent" THEN "schedule" ELSE "drop",
                     !.open = task[m].state # "terminal"]]
      <3> DEFINE q == [req[r] EXCEPT !.pc = IF task[m].state = "absent" THEN "schedule" ELSE "drop",
                                     !.open = task[m].state # "terminal"]
      <3>1. /\ q \in Request /\ q.key = req[r].key /\ q.open = (task[m].state # "terminal")
            /\ q.pc = (IF task[m].state = "absent" THEN "schedule" ELSE "drop")
        BY <1>0 DEF Request, RequestPcs
      <3>2. req' = [req EXCEPT ![r] = q]
        BY <2>1
      <3> HIDE DEF q
      <3> QED BY <2>1, <3>1, <3>2
    <2>2. CASE /\ req' = [req EXCEPT ![r].pc = "undo"]
               /\ UNCHANGED <<task, ctx>> \/ Admits(r)
      <3> DEFINE q == [req[r] EXCEPT !.pc = "undo"]
      <3>1. q \in Request /\ q.key = req[r].key /\ q.pc = "undo"
        BY <1>0 DEF Request, RequestPcs
      <3>2. req' = [req EXCEPT ![r] = q]
        BY <2>2
      <3> HIDE DEF q
      <3> QED BY <2>2, <3>1, <3>2
    <2> QED BY <1>1, <2>1, <2>2 DEF admit
  <1>3. CASE task[m].state = "absent" /\ Admits(r)
    BY <1>0, <1>1, <1>2, <1>3, AdmissionStep
  <1>4. CASE UNCHANGED <<task, ctx>> /\ q.pc \in {"drop", "undo"}
    <2>1. /\ req' \in [Requests -> Request] /\ req'[r] = q
          /\ \A s \in Requests \ {r} : req'[s] = req[s]
      BY <1>0, <1>2, SetRequest
    <2>2. TypeOK'
      BY <1>0, <1>4, <2>1, FaultType DEF TypeOK
    <2>3. RequestInv(r)'
      <3>1. q.pc = "drop" => task[m].state # "absent" /\ (~q.open => task[m].state = "terminal")
        BY <1>2
      <3> QED BY <1>1, <1>4, <2>1, <3>1 DEF RequestInv
    <2>4. WakeInv'
      <3>1. req'[r].pc \notin TellingPcs
        BY <1>4, <2>1 DEF TellingPcs
      <3> QED BY <1>0, <1>4, <2>1, <3>1, TellsNobody, WakeKept, StillAlive DEF IInv
    <2>5. ~Settled(r)
      BY <1>0 DEF Settled
    <2> QED BY <1>0, <1>4, <2>1, <2>2, <2>3, <2>4, <2>5, RequestStepKeeps
  <1> QED
    <2>1. CASE task[m].state = "absent"
      <3>1. CASE q.pc = "undo" /\ UNCHANGED <<task, ctx>>
        BY <1>4, <3>1
      <3> QED BY <1>2, <1>3, <2>1, <3>1
    <2>2. CASE task[m].state # "absent"
      <3>1. UNCHANGED <<task, ctx>>
        BY <1>1, <1>2, <2>2 DEF Admits
      <3> QED BY <1>2, <1>4, <2>2, <3>1
    <2> QED BY <2>1, <2>2

----
\* The invariant of the specification

\* At the start nothing is written, admitted or awake.
LEMMA InitInv == Init => IInv
  <1> SUFFICES ASSUME Init PROVE IInv
    OBVIOUS
  <1>1. TypeOK
    <2>1. IdleWorker \in Worker
      BY ConstantsAssumption DEF IdleWorker, Worker, WorkerPcs
    <2>2. [pc |-> "new", open |-> FALSE, key |-> None] \in Request
      BY DEF Request, RequestPcs
    <2>3. [state |-> "absent", key |-> None, held |-> FALSE] \in TaskRow
      BY DEF TaskRow
    <2>4. queue \in [0..(MaxReceives - 1) -> Nat]
      BY DEF Init
    <2>5. /\ req \in [Requests -> Request] /\ task \in [Messages -> TaskRow]
          /\ loc \in [Workers -> Worker]
      BY <2>1, <2>2, <2>3 DEF Init
    <2>6. /\ ctx \in [active: Messages \cup {None}, order: Seq(Messages)]
          /\ cma \in [sent: SUBSET Messages, done: SUBSET Messages, webhooks: Nat]
          /\ sweep \in [runs: Nat, orphans: SUBSET Requests]
          /\ lease \in [claim: Workers \cup {None}, live: BOOLEAN]
      BY DEF Init
    <2> QED BY <2>4, <2>5, <2>6 DEF Init, TypeOK
  <1>2. ASSUME NEW m \in Messages PROVE KeyInv(m) /\ RowInv(m)
    BY ConstantsAssumption DEF Init, KeyInv, RowInv
  <1>3. ASSUME NEW r \in Requests PROVE RequestInv(r)
    BY DEF Init, RequestInv
  <1>4. SweepInv
    BY DEF Init, SweepInv
  <1>5. ASSUME NEW w \in Workers PROVE WorkerInv(w)
    BY DEF Init, WorkerInv, IdleWorker
  <1>6. WakeInv
    BY DEF Init, WakeInv, Unfinished
  <1> QED BY <1>1, <1>2, <1>3, <1>4, <1>5, <1>6 DEF IInv

LEMMA RaiseStep == ASSUME IInv, NEW w \in Workers, Raise(w) PROVE IInv'
  BY GotoStep DEF Raise, Free

LEMMA StepInv == IInv /\ [Next]_vars => IInv'
  <1> SUFFICES ASSUME IInv, [Next]_vars PROVE IInv'
    OBVIOUS
  <1>1. CASE \E r \in Requests : put(r) \/ RequestStep(r) \/ CrashRequest(r)
    BY <1>1, StoreSteps, AdmitStep, ScheduleStep, ReadTaskStep, ReadSteps DEF RequestStep
  <1>2. CASE \E w \in Workers : WorkerStep(w) \/ Raise(w) \/ Crash(w)
    BY <1>2, ClaimStep, ReconcileStep, ActivateStep, ReadInputStep, SendStep, BindStep,
       DeleteStep, RescheduleStep, EndSteps, RaiseStep DEF WorkerStep
  <1>3. CASE \E w \in Workers, n \in DOMAIN queue : Receive(w, n)
    BY <1>3, ReceiveStep
  <1>4. CASE \E m \in Messages : cancel(m) \/ resolve(m) \/ ProviderDone(m)
    BY <1>4, CancelStep, ResolveStep, OutsideSteps
  <1>5. CASE handle_request \/ LeaseExpires \/ SweepStart \/ SweepDelete
    BY <1>5, OutsideSteps, SweepStep
  <1>6. CASE UNCHANGED vars
    <2>1. TypeOK' /\ SweepInv' /\ \A v \in Workers : Owns(v)' => Owns(v)
      BY <1>6 DEF vars, IInv, TypeOK, SweepInv, Settled, Owns
    <2> QED BY <1>6, <2>1, StillAlive, QuietStep DEF vars
  <1> QED BY <1>1, <1>2, <1>3, <1>4, <1>5, <1>6 DEF Next

\* Every reachable state satisfies the inductive invariant.
THEOREM HandoffInvariant == Spec => []IInv
  <1>1. Init => IInv
    BY InitInv
  <1>2. IInv /\ [Next]_vars => IInv'
    BY StepInv
  <1> QED BY <1>1, <1>2, PTL DEF Spec

\* Every variable keeps its type: in particular a worker works on a task of the
\* context and a row refers to an object of a request.
THEOREM HandoffTypeCorrect == Spec => []TypeOK
  <1>1. IInv => TypeOK
    BY DEF IInv
  <1> QED BY <1>1, HandoffInvariant, PTL

\* The text of a turn that is still to be sent is in the store, whatever retries,
\* undone admissions, sweeps, crashes and takeovers of the lease happen, unless a
\* committed admission was taken for a failure; and only then does a read find a row
\* whose text is missing (send(), sweep_orphans(), _bind_input(), _get_task()).
THEOREM TextKept == Spec => []InputKept
  <1>1. ASSUME IInv PROVE InputKept
    <2>1. ASSUME NEW m \in Messages
          PROVE  \/ task[m].state \notin {"queued", "dispatching"}
                 \/ m \in cma.sent
                 \/ task[m].key \in store
                 \/ LostAdmission(task[m].key)
      BY <1>1 DEF IInv, KeyInv, RowInv, LostAdmission
    <2>2. ASSUME NEW r \in Requests, req[r].pc = "broken" PROVE LostAdmission(req[r].key)
      BY <1>1, <2>2 DEF IInv, RequestInv, LostAdmission
    <2> QED BY <2>1, <2>2 DEF InputKept
  <1> QED BY <1>1, HandoffInvariant, PTL

\* A turn that a client was told of and that is not finished has a wakeup in the queue
\* or in a worker's hands, unless the queue gave one up, however many sends, runs and
\* webhooks failed before (send(), _reconcile(), handler()).
THEOREM TurnRemembered == Spec => []WakeupKept
  <1>1. ASSUME IInv PROVE WakeupKept
    BY <1>1 DEF IInv, WakeInv, Working, WakeupKept, At
  <1> QED BY <1>1, HandoffInvariant, PTL

====
