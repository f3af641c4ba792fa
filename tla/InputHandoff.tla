---- MODULE InputHandoff ----
(***************************************************************************)
(* How a turn's text gets from a client to the provider: the pending-input  *)
(* store, the admission that refers to it, the queue of wakeups that makes  *)
(* a worker dispatch it, the reads that show it meanwhile and the sweep of  *)
(* orphans (service.py, trigger.py, scheduler_handler.py, webhook.py, *)
(* pending_input.py and the skeleton of scheduler.py).                      *)
(*                                                                         *)
(* One database transaction and one call of the store, the queue or the     *)
(* provider is one step.  A request that carries a message writes one object *)
(* under a fresh key, so the request stands for the key.  A wakeup carries  *)
(* only the context, so the queue is a count of messages by how often they  *)
(* were received.  What a run does with a bound task is CmaScheduler's; here *)
(* it only finds out that the provider is done.                             *)
(***************************************************************************)
EXTENDS Integers, Sequences, FiniteSets

CONSTANTS
    Messages,     \* client messages of one context, each with its message id
    MaxSends,     \* bound on the requests that carry one message
    Workers,      \* scheduler invocations that can run at the same time
    None,         \* NULL
    MaxReceives,  \* receives after which the queue gives a wakeup up
    MaxOutside,   \* bound on webhooks that arrive and sweeps of the store, together
    MaxFaults     \* bound on crashes, expired leases, failed calls and retries

ASSUME ConstantsAssumption ==
    /\ None \notin Messages \cup Workers \cup (Messages \X (1..MaxSends))
    /\ MaxSends \in Nat
    /\ MaxReceives \in Nat \ {0}
    /\ MaxOutside \in Nat
    /\ MaxFaults \in Nat

VARIABLES
    req,     \* per request: its progress, and what it read
    task,    \* the cma_tasks rows
    ctx,     \* the context: active task and admission order
    store,   \* objects in the pending-input store
    cma,     \* provider: messages received, turns done, webhooks sent
    queue,   \* wakeups by the number of times they were received
    dlq,     \* a wakeup was given up
    lease,   \* the context's scheduler claim
    loc,     \* per worker: program counter, receive count, task and key
    sweep,   \* sweeps begun, and the orphans the last one has still to delete
    faults   \* failures so far

vars == <<req, task, ctx, store, cma, queue, dlq, lease, loc, sweep, faults>>

----
\* Rows and values

Requests == Messages \X (1..MaxSends)

MessageOf(r) == r[1]

RequestPcs == {"new", "admit", "drop", "undo", "schedule", "read", "get",
               "refresh", "answered", "failed", "undone", "broken"}

Request == [pc: RequestPcs, open: BOOLEAN, key: Requests \cup {None}]

TaskRow == [state: {"absent", "queued", "dispatching", "bound", "terminal"},
            key: Requests \cup {None}, held: BOOLEAN]

Unfinished == {"queued", "dispatching", "bound"}

WorkerPcs == {"idle", "claim", "run", "dispatch", "send", "bind", "delete",
              "reschedule", "release", "raise"}

Worker == [pc: WorkerPcs, receives: 0..MaxReceives,
           task: Messages \cup {None}, key: Requests \cup {None}]

IdleWorker == [pc |-> "idle", receives |-> 0, task |-> None, key |-> None]

Init ==
    /\ req = [r \in Requests |-> [pc |-> "new", open |-> FALSE, key |-> None]]
    /\ task = [m \in Messages |-> [state |-> "absent", key |-> None, held |-> FALSE]]
    /\ ctx = [active |-> None, order |-> <<>>]
    /\ store = {}
    /\ cma = [sent |-> {}, done |-> {}, webhooks |-> 0]
    /\ queue = [n \in 0..(MaxReceives - 1) |-> 0]
    /\ dlq = FALSE
    /\ lease = [claim |-> None, live |-> FALSE]
    /\ loc = [w \in Workers |-> IdleWorker]
    /\ sweep = [runs |-> 0, orphans |-> {}]
    /\ faults = 0

Fault == faults < MaxFaults /\ faults' = faults + 1

\* pending_input_keys(): the keys that task rows refer to, whatever their state.
Referenced == {task[m].key : m \in Messages} \ {None}

Woken == \E n \in DOMAIN queue : queue[n] > 0

----
\* Wakeups: the trigger, the queue and its consumer

\* schedule(): one more message in the queue.
schedule == queue' = [queue EXCEPT ![0] = @ + 1]

\* A record that failed becomes visible again, or is given up.
Redeliver(w) ==
    IF loc[w].receives < MaxReceives
    THEN /\ queue' = [queue EXCEPT ![loc[w].receives] = @ + 1]
         /\ UNCHANGED dlq
    ELSE /\ dlq' = TRUE
         /\ UNCHANGED queue

At(w, p) == loc[w].pc = p

Goto(w, p) == loc' = [loc EXCEPT ![w].pc = p]

Owns(w) == lease.claim = w /\ lease.live

\* handler(): the queue hands a record to a worker.
Receive(w, n) ==
    /\ At(w, "idle")
    /\ queue[n] > 0
    /\ queue' = [queue EXCEPT ![n] = @ - 1]
    /\ loc' = [loc EXCEPT ![w] = [@ EXCEPT !.pc = "claim", !.receives = n + 1]]
    /\ UNCHANGED <<req, task, ctx, store, cma, dlq, lease, sweep, faults>>

\* Mutant: a busy lease acknowledges the record.
ClaimOrDrop(w) ==
    /\ At(w, "claim")
    /\ IF lease.claim = None \/ ~lease.live
       THEN /\ lease' = [claim |-> w, live |-> TRUE]
            /\ Goto(w, "run")
       ELSE /\ loc' = [loc EXCEPT ![w] = IdleWorker]
            /\ UNCHANGED lease
    /\ UNCHANGED <<req, task, ctx, store, cma, queue, dlq, sweep, faults>>

\* run_once(): a busy lease fails the record.
claim_scheduler(w) ==
    /\ At(w, "claim")
    /\ IF lease.claim = None \/ ~lease.live
       THEN /\ lease' = [claim |-> w, live |-> TRUE]
            /\ Goto(w, "run")
       ELSE /\ Goto(w, "raise")
            /\ UNCHANGED lease
    /\ UNCHANGED <<req, task, ctx, store, cma, queue, dlq, sweep, faults>>

Freed(w) == IF lease.claim = w THEN [claim |-> None, live |-> FALSE] ELSE lease

\* The run ended well: the lease is released and the record deleted.
release_scheduler(w) ==
    /\ At(w, "release")
    /\ lease' = Freed(w)
    /\ loc' = [loc EXCEPT ![w] = IdleWorker]
    /\ UNCHANGED <<req, task, ctx, store, cma, queue, dlq, sweep, faults>>

\* The run raised: the lease is released and the record reported as failed.
RunFails(w) ==
    /\ At(w, "raise")
    /\ lease' = Freed(w)
    /\ Redeliver(w)
    /\ loc' = [loc EXCEPT ![w] = IdleWorker]
    /\ UNCHANGED <<req, task, ctx, store, cma, sweep, faults>>

\* An exception nobody foresaw, e.g. of the database or of list_events().
Raise(w) ==
    /\ loc[w].pc \notin {"idle", "raise"}
    /\ Fault
    /\ Goto(w, "raise")
    /\ UNCHANGED <<req, task, ctx, store, cma, queue, dlq, lease, sweep>>

Crash(w) ==
    /\ ~At(w, "idle")
    /\ Fault
    /\ Redeliver(w)
    /\ loc' = [loc EXCEPT ![w] = IdleWorker]
    /\ UNCHANGED <<req, task, ctx, store, cma, lease, sweep>>

\* The lease of a dead worker runs out; that of a working one only by a stall.
LeaseExpires ==
    /\ lease.live
    /\ lease' = [lease EXCEPT !.live = FALSE]
    /\ IF \E w \in Workers : lease.claim = w /\ ~At(w, "idle")
       THEN Fault
       ELSE UNCHANGED faults
    /\ UNCHANGED <<req, task, ctx, store, cma, queue, dlq, loc, sweep>>

----
\* Requests: send() and the read that ends it

\* A client sends a message, and again while it has no answer.
put(r) ==
    /\ req[r].pc = "new"
    /\ r[2] > 1 => req[<<r[1], r[2] - 1>>].pc \notin {"new", "answered"}
    /\ store' = store \cup {r}
    /\ req' = [req EXCEPT ![r].pc = "admit"]
    /\ UNCHANGED <<task, ctx, cma, queue, dlq, lease, loc, sweep, faults>>

\* The transaction of admit(): a new turn, or the one its message id names.
Admits(r) ==
    LET m == MessageOf(r) IN
    IF task[m].state = "absent"
    THEN /\ task' = [task EXCEPT ![m] = [state |-> "queued", key |-> r, held |-> FALSE]]
         /\ ctx' = [ctx EXCEPT !.order = Append(@, m)]
    ELSE UNCHANGED <<task, ctx>>

\* The commit, or a failure, after which the transaction may be committed all the
\* same.
admit(r) ==
    LET m == MessageOf(r) IN
    /\ req[r].pc = "admit"
    /\ \/ /\ Admits(r)
          /\ req' = [req EXCEPT ![r] = [@ EXCEPT
                        !.pc = IF task[m].state = "absent" THEN "schedule" ELSE "drop",
                        !.open = task[m].state # "terminal"]]
          /\ UNCHANGED faults
       \/ /\ Fault
          /\ req' = [req EXCEPT ![r].pc = "undo"]
          /\ \/ UNCHANGED <<task, ctx>>
             \/ Admits(r)
    /\ UNCHANGED <<store, cma, queue, dlq, lease, loc, sweep>>

\* A retry needs no second copy of the text.
DropDuplicate(r) ==
    /\ req[r].pc = "drop"
    /\ store' = store \ {r}
    /\ req' = [req EXCEPT ![r].pc = "schedule"]
    /\ UNCHANGED <<task, ctx, cma, queue, dlq, lease, loc, sweep, faults>>

\* An admission that raised deletes its text and fails the request.
UndoPut(r) ==
    /\ req[r].pc = "undo"
    /\ store' = store \ {r}
    /\ req' = [req EXCEPT ![r].pc = "undone"]
    /\ UNCHANGED <<task, ctx, cma, queue, dlq, lease, loc, sweep, faults>>

\* Mutant: only the request that made the task wakes the scheduler.
ScheduleNew(r) ==
    /\ req[r].pc = "schedule"
    /\ \/ /\ IF task[MessageOf(r)].key = r THEN schedule ELSE UNCHANGED queue
          /\ req' = [req EXCEPT ![r].pc = "read"]
          /\ UNCHANGED faults
       \/ /\ Fault
          /\ req' = [req EXCEPT ![r].pc = "failed"]
          /\ UNCHANGED queue
    /\ UNCHANGED <<task, ctx, store, cma, dlq, lease, loc, sweep>>

\* The wakeup, also on a retry, unless the task was finished when it was read.
Schedule(r) ==
    /\ req[r].pc = "schedule"
    /\ \/ /\ IF req[r].open THEN schedule ELSE UNCHANGED queue
          /\ req' = [req EXCEPT ![r].pc = "read"]
          /\ UNCHANGED faults
       \/ /\ Fault
          /\ req' = [req EXCEPT ![r].pc = "failed"]
          /\ UNCHANGED queue
    /\ UNCHANGED <<task, ctx, store, cma, dlq, lease, loc, sweep>>

\* _get_task(): an unbound task is shown with its pending text.
ReadTask(r) ==
    LET key == task[MessageOf(r)].key IN
    /\ req[r].pc = "read"
    /\ req' = [req EXCEPT ![r] = [@ EXCEPT
                  !.pc = IF key = None THEN "answered" ELSE "get", !.key = key]]
    /\ UNCHANGED <<task, ctx, store, cma, queue, dlq, lease, loc, sweep, faults>>

ReadObject(r) ==
    /\ req[r].pc = "get"
    /\ req' = [req EXCEPT ![r].pc = IF req[r].key \in store THEN "answered"
                                    ELSE "refresh"]
    /\ UNCHANGED <<task, ctx, store, cma, queue, dlq, lease, loc, sweep, faults>>

\* The text was gone: the row must have been bound meanwhile.
RefreshTask(r) ==
    /\ req[r].pc = "refresh"
    /\ req' = [req EXCEPT ![r].pc = IF task[MessageOf(r)].key = req[r].key
                                    THEN "broken" ELSE "answered"]
    /\ UNCHANGED <<task, ctx, store, cma, queue, dlq, lease, loc, sweep, faults>>

\* The process that serves a request dies.
CrashRequest(r) ==
    /\ req[r].pc \in {"admit", "drop", "undo", "schedule", "read", "get", "refresh"}
    /\ Fault
    /\ req' = [req EXCEPT ![r].pc = "failed"]
    /\ UNCHANGED <<task, ctx, store, cma, queue, dlq, lease, loc, sweep>>

\* cancel() of a queued task: it ends with its text, and nobody is woken.
cancel(m) ==
    /\ task[m].state = "queued"
    /\ task' = [task EXCEPT ![m].state = "terminal"]
    /\ UNCHANGED <<req, ctx, store, cma, queue, dlq, lease, loc, sweep, faults>>

----
\* One run of the scheduler

\* next_queued(): the earliest admitted task that is queued.
NextQueued ==
    LET queued == {i \in DOMAIN ctx.order : task[ctx.order[i]].state = "queued"} IN
    IF queued = {} THEN None
    ELSE ctx.order[CHOOSE i \in queued : \A j \in queued : i <= j]

\* A fenced update of a worker whose claim is gone raises.
Lost(w) == ~Owns(w) /\ Goto(w, "raise") /\ UNCHANGED <<task, ctx>>

Finish(m) ==
    /\ task' = [task EXCEPT ![m] = [@ EXCEPT !.state = "terminal", !.held = FALSE]]
    /\ ctx' = [ctx EXCEPT !.active = None]

\* _reconcile(): an active task is bound to the message the provider holds, or
\* held for want of it; a bound one ends when the provider is done.
ReconcileActive(w) ==
    LET m == ctx.active IN
    /\ At(w, "run")
    /\ m # None
    /\ \/ /\ task[m].state = "dispatching"
          /\ m \in cma.sent
          /\ loc' = [loc EXCEPT ![w] = [@ EXCEPT !.pc = "bind", !.task = m]]
          /\ UNCHANGED <<task, ctx>>
       \/ /\ task[m].state = "dispatching"
          /\ m \notin cma.sent
          /\ \/ Lost(w)
             \/ /\ Owns(w)
                /\ task' = [task EXCEPT ![m].held = TRUE]
                /\ Goto(w, "reschedule")
                /\ UNCHANGED ctx
       \/ /\ task[m].state = "bound"
          /\ m \notin cma.done
          /\ Goto(w, "reschedule")
          /\ UNCHANGED <<task, ctx>>
       \/ /\ task[m].state = "bound"
          /\ m \in cma.done
          /\ \/ Lost(w)
             \/ Owns(w) /\ Finish(m) /\ Goto(w, "reschedule")
    /\ UNCHANGED <<req, store, cma, queue, dlq, lease, sweep, faults>>

\* activate_task() of the next queued task.
activate_task(w) ==
    LET m == NextQueued IN
    /\ At(w, "run")
    /\ ctx.active = None
    /\ m # None
    /\ \/ Lost(w)
       \/ /\ Owns(w)
          /\ ctx' = [ctx EXCEPT !.active = m]
          /\ task' = [task EXCEPT ![m].state = "dispatching"]
          /\ loc' = [loc EXCEPT ![w] = [@ EXCEPT !.pc = "dispatch", !.task = m]]
    /\ UNCHANGED <<req, store, cma, queue, dlq, lease, sweep, faults>>

ReconcileNothing(w) ==
    /\ At(w, "run")
    /\ ctx.active = None
    /\ NextQueued = None
    /\ Goto(w, "reschedule")
    /\ UNCHANGED <<req, task, ctx, store, cma, queue, dlq, lease, sweep, faults>>

\* _dispatch(): the text is read first; without it the run raises.
ReadInput(w) ==
    /\ At(w, "dispatch")
    /\ Goto(w, IF task[loc[w].task].key \in store THEN "send" ELSE "raise")
    /\ UNCHANGED <<req, task, ctx, store, cma, queue, dlq, lease, sweep, faults>>

\* send_message() or create_session(): accepted; refused; or the outcome is lost.
Send(w) ==
    LET m == loc[w].task
        sent == [cma EXCEPT !.sent = @ \cup {m}]
    IN /\ At(w, "send")
       /\ \/ /\ cma' = sent
             /\ Goto(w, "bind")
             /\ UNCHANGED <<task, ctx, faults>>
          \/ /\ Fault
             /\ \/ Lost(w)
                \/ Owns(w) /\ Finish(m) /\ Goto(w, "reschedule")
             /\ UNCHANGED cma
          \/ /\ Fault
             /\ cma' \in {cma, sent}
             /\ \/ Lost(w)
                \/ /\ Owns(w)
                   /\ task' = [task EXCEPT ![m].held = TRUE]
                   /\ Goto(w, "reschedule")
                   /\ UNCHANGED ctx
       /\ UNCHANGED <<req, store, queue, dlq, lease, sweep>>

\* _bind_input(): the row lets go of the object first.
_bind_input(w) ==
    LET m == loc[w].task IN
    /\ At(w, "bind")
    /\ \/ Lost(w)
       \/ /\ Owns(w)
          /\ task' = [task EXCEPT ![m] = [state |-> "bound", key |-> None, held |-> FALSE]]
          /\ loc' = [loc EXCEPT ![w] = [@ EXCEPT !.pc = "delete", !.key = task[m].key]]
          /\ UNCHANGED ctx
    /\ UNCHANGED <<req, store, cma, queue, dlq, lease, sweep, faults>>

\* A delete that fails is only logged.
DeleteInput(w) ==
    /\ At(w, "delete")
    /\ \/ store' = store \ {loc[w].key} /\ UNCHANGED faults
       \/ Fault /\ UNCHANGED store
    /\ Goto(w, "reschedule")
    /\ UNCHANGED <<req, task, ctx, cma, queue, dlq, lease, sweep>>

\* The end of _reconcile(): an active task is looked at again in 30 seconds, a
\* queued one at once.
Reschedule(w) ==
    /\ At(w, "reschedule")
    /\ IF ctx.active # None \/ NextQueued # None THEN schedule ELSE UNCHANGED queue
    /\ Goto(w, "release")
    /\ UNCHANGED <<req, task, ctx, store, cma, dlq, lease, sweep, faults>>

----
\* The operator, the provider and the sweep

\* resolve() of a held task: failed, or queued again after the operator has seen
\* that the provider does not hold the message.
resolve(m) ==
    /\ ctx.active = m
    /\ task[m].held
    /\ lease.claim = None \/ ~lease.live
    /\ \/ Finish(m) /\ UNCHANGED faults
       \/ /\ m \notin cma.sent
          /\ \A w \in Workers : loc[w].task # m
          /\ Fault
          /\ task' = [task EXCEPT ![m] = [@ EXCEPT !.state = "queued", !.held = FALSE]]
          /\ ctx' = [ctx EXCEPT !.active = None]
    /\ schedule
    /\ UNCHANGED <<req, store, cma, dlq, lease, loc, sweep>>

ProviderDone(m) ==
    /\ m \in cma.sent \ cma.done
    /\ cma' = [cma EXCEPT !.done = @ \cup {m}]
    /\ UNCHANGED <<req, task, ctx, store, queue, dlq, lease, loc, sweep, faults>>

\* handle_request() of the webhook, which may also never come or come twice.
handle_request ==
    /\ cma.done # {}
    /\ cma.webhooks + sweep.runs < MaxOutside
    /\ cma' = [cma EXCEPT !.webhooks = @ + 1]
    /\ schedule
    /\ UNCHANGED <<req, task, ctx, store, dlq, lease, loc, sweep, faults>>

\* Mutant: every object is a candidate, however young.
AllKeys == store

\* list_old_keys(): objects older than a day.  No request takes a day to admit its
\* own object, so any other may be that old; that all are is the worst case.
OldKeys == {k \in store : req[k].pc \notin {"admit", "drop", "undo"}}

\* sweep_orphans(): old keys that no row refers to.
SweepStart ==
    /\ cma.webhooks + sweep.runs < MaxOutside
    /\ sweep' = [runs |-> sweep.runs + 1, orphans |-> OldKeys \ Referenced]
    /\ UNCHANGED <<req, task, ctx, store, cma, queue, dlq, lease, loc, faults>>

SweepDelete ==
    /\ sweep.orphans # {}
    /\ store' = store \ sweep.orphans
    /\ sweep' = [sweep EXCEPT !.orphans = {}]
    /\ UNCHANGED <<req, task, ctx, cma, queue, dlq, lease, loc, faults>>

----
\* The system

RequestStep(r) ==
    \/ admit(r)
    \/ DropDuplicate(r)
    \/ UndoPut(r)
    \/ Schedule(r)
    \/ ReadTask(r)
    \/ ReadObject(r)
    \/ RefreshTask(r)

WorkerStep(w) ==
    \/ claim_scheduler(w)
    \/ ReconcileActive(w)
    \/ activate_task(w)
    \/ ReconcileNothing(w)
    \/ ReadInput(w)
    \/ Send(w)
    \/ _bind_input(w)
    \/ DeleteInput(w)
    \/ Reschedule(w)
    \/ release_scheduler(w)
    \/ RunFails(w)

Next ==
    \/ \E r \in Requests : put(r) \/ RequestStep(r) \/ CrashRequest(r)
    \/ \E w \in Workers : WorkerStep(w) \/ Raise(w) \/ Crash(w)
    \/ \E w \in Workers, n \in DOMAIN queue : Receive(w, n)
    \/ \E m \in Messages : cancel(m) \/ resolve(m) \/ ProviderDone(m)
    \/ handle_request
    \/ LeaseExpires
    \/ SweepStart
    \/ SweepDelete

Spec == Init /\ [][Next]_vars

\* The queue hands out its wakeups, a run and a request go on with what they
\* began, a dead worker's lease runs out.  Nothing is assumed of the clients, the
\* operator, the provider, its webhooks or the sweep.
FairSpec ==
    /\ Spec
    /\ WF_vars(\E w \in Workers, n \in DOMAIN queue : Receive(w, n))
    /\ \A w \in Workers : WF_vars(WorkerStep(w))
    /\ \A r \in Requests : WF_vars(RequestStep(r))
    /\ WF_vars(LeaseExpires /\ faults' = faults)

----
\* Properties

TypeOK ==
    /\ req \in [Requests -> Request]
    /\ task \in [Messages -> TaskRow]
    /\ ctx \in [active: Messages \cup {None}, order: Seq(Messages)]
    /\ store \subseteq Requests
    /\ cma \in [sent: SUBSET Messages, done: SUBSET Messages, webhooks: Nat]
    /\ queue \in [0..(MaxReceives - 1) -> Nat]
    /\ dlq \in BOOLEAN
    /\ lease \in [claim: Workers \cup {None}, live: BOOLEAN]
    /\ loc \in [Workers -> Worker]
    /\ sweep \in [runs: Nat, orphans: SUBSET Requests]
    /\ faults \in Nat

\* The outcome of the admission that stored a row's key was lost: send() takes the
\* turn for refused and deletes the text that the committed row refers to.
LostAdmission(key) == key # None /\ req[key].pc \in {"undo", "undone"}

\* The text of a turn that is still to be sent is in the store, although retries
\* delete their copies, failed admissions undo theirs and the sweep deletes what
\* it saw no reference to (send(), sweep_orphans()); only an admission whose commit
\* was taken for a failure loses it.  Nor does a read find a row that refers to a
\* missing text: the only other reason for a missing object is the one _get_task()
\* names, that the scheduler bound the task and removed it between the reads.
InputKept ==
    /\ \A m \in Messages :
          \/ task[m].state \notin {"queued", "dispatching"}
          \/ m \in cma.sent
          \/ task[m].key \in store
          \/ LostAdmission(task[m].key)
    /\ \A r \in Requests : req[r].pc = "broken" => LostAdmission(req[r].key)

\* A client of the message was told of its task, or is about to be.
Told(m) ==
    \E r \in Requests : MessageOf(r) = m
                        /\ req[r].pc \in {"read", "get", "refresh", "answered", "broken"}

\* A turn that some client was told of and that is not finished is never forgotten,
\* although its first send may have failed before it woke anyone: there is a wakeup
\* in the queue or in a worker's hands, unless the queue gave one up (send(),
\* _reconcile(), handler()).
WakeupKept ==
    \A m \in Messages :
        task[m].state \in Unfinished /\ Told(m) =>
            \/ Woken
            \/ \E w \in Workers : ~At(w, "idle")
            \/ dlq

\* A queued turn that some client was told of is dispatched, ends or waits behind an
\* active one, unless the queue gave up a wakeup.
TurnHandled ==
    \A m \in Messages :
        (task[m].state = "queued" /\ Told(m))
            ~> (task[m].state # "queued" \/ ctx.active # None \/ dlq)
====
