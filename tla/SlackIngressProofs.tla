---- MODULE SlackIngressProofs ----
(***************************************************************************)
(* Proofs about SlackIngress, for any number of Slack threads, principals,  *)
(* events, deliveries, handlers and faults: its types, that an event gives  *)
(* one task in a thread of its author, that a receipt that is sent tells    *)
(* the truth, and that racing first messages leave no thread behind.        *)
(***************************************************************************)
EXTENDS SlackIngress, FiniteSetTheorems, TLAPS

----
\* The inductive invariant

\* The deliveries of an event that handlers hold are in the queue.
Holders(e) == {v \in Workers : worker[v].ev = e}

CopiesInv == \A e \in Events : Cardinality(Holders(e)) <= copies[e]

\* A task runs in the thread that the Slack thread of its event is bound to, which its
\* author owns.  A binding is for good, so there is no second one.
TaskInv(k) ==
    /\ info[k[2]] # None
    /\ info[k[2]].user # None
    /\ binding[info[k[2]].surface] = k[1]
    /\ threads[k[1]].owner = info[k[2]].user

\* What a receipt that names a thread and a task says of its event.
Done(e, t, k) ==
    /\ Kind(e) = "message" /\ t # None => k \in tasks /\ e \in announced
    /\ Kind(e) = "stop" /\ k # None => k \in canceled
    /\ Kind(e) = "confirm" /\ t # None => ruling[info[e].request] # "pending"

\* A receipt that is sent is nobody's, and says what is done.
ReceiptInv(e) ==
    receipt[e].status = "sent" =>
        /\ e \in Arrived
        /\ receipt[e].claim = None
        /\ Done(e, receipt[e].thread, receipt[e].task)

\* The steps that only a message with a linked author gets to.
MessagePcs == {"select", "insert", "send", "project", "publish"}

\* What a handler knows of its event.
KindInv(w) ==
    /\ worker[w].pc = "idle" => worker[w] = IdleWorker
    /\ worker[w].pc # "idle" => worker[w].ev \in Arrived
    /\ worker[w].pc = "authorize" => Kind(worker[w].ev) \in {"message", "link"}
    /\ worker[w].pc = "link" => Kind(worker[w].ev) = "link"
    /\ worker[w].pc \in MessagePcs => Kind(worker[w].ev) = "message" /\ Ev(w).user # None
    /\ worker[w].pc = "stop" => Kind(worker[w].ev) = "stop"
    /\ worker[w].pc \in {"look", "answer", "recheck"} =>
           Kind(worker[w].ev) \notin {"message", "link", "stop"}

\* What a handler has done: a thread is chosen with the binding, a task exists before
\* it is projected, and a handler completes what is done.
ProgressInv(w) ==
    /\ worker[w].pc \in {"claim", "authorize"} => worker[w].thread = None
    /\ worker[w].pc \in {"send", "project", "publish"} =>
           /\ worker[w].thread # None
           /\ binding[Surface(w)] = worker[w].thread
           /\ threads[worker[w].thread].owner = Ev(w).user
    /\ worker[w].pc \in {"project", "publish"} => worker[w].task \in tasks
    /\ worker[w].pc = "publish" => worker[w].ev \in projected
    /\ worker[w].pc = "complete" => Done(worker[w].ev, worker[w].thread, worker[w].task)

WorkerInv(w) == KindInv(w) /\ ProgressInv(w)

IInv ==
    /\ TypeOK
    /\ CopiesInv
    /\ \A k \in tasks : TaskInv(k)
    /\ \A e \in Events : ReceiptInv(e)
    /\ \A w \in Workers : WorkerInv(w)
    /\ NoOrphanThread

----
\* Records and the queue

LEMMA SetWorker ==
    ASSUME TypeOK, NEW w \in Workers, NEW l \in Worker, worker' = [worker EXCEPT ![w] = l]
    PROVE  /\ worker' \in [Workers -> Worker]
           /\ worker'[w] = l
           /\ \A v \in Workers \ {w} : worker'[v] = worker[v]
  BY DEF TypeOK

LEMMA SetReceipt ==
    ASSUME TypeOK, NEW e \in Events, NEW r \in Receipt, receipt' = [receipt EXCEPT ![e] = r]
    PROVE  /\ receipt' \in [Events -> Receipt]
           /\ receipt'[e] = r
           /\ \A d \in Events \ {e} : receipt'[d] = receipt[d]
  BY DEF TypeOK

\* A handler that only moves keeps what it read.
LEMMA GotoWorker ==
    ASSUME TypeOK, NEW w \in Workers, NEW p \in Pcs, Goto(w, p)
    PROVE  /\ worker' \in [Workers -> Worker]
           /\ \A v \in Workers \ {w} : worker'[v] = worker[v]
           /\ worker'[w].pc = p /\ worker'[w].ev = worker[w].ev
           /\ worker'[w].bound = worker[w].bound /\ worker'[w].thread = worker[w].thread
           /\ worker'[w].task = worker[w].task
  <1> DEFINE l == [worker[w] EXCEPT !.pc = p]
  <1>1. worker[w] \in Worker /\ worker' = [worker EXCEPT ![w] = l]
    BY DEF TypeOK, Goto
  <1>2. /\ l \in Worker
        /\ l.pc = p /\ l.ev = worker[w].ev /\ l.bound = worker[w].bound
        /\ l.thread = worker[w].thread /\ l.task = worker[w].task
    BY <1>1 DEF Worker
  <1> HIDE DEF l
  <1> QED BY <1>1, <1>2, SetWorker

\* ... or sets its thread and its task with it.
LEMMA FinishWorker ==
    ASSUME TypeOK, NEW w \in Workers, NEW t \in Threads \cup {None},
           NEW k \in Tasks \cup {None}, Finish(w, t, k)
    PROVE  /\ worker' \in [Workers -> Worker]
           /\ \A v \in Workers \ {w} : worker'[v] = worker[v]
           /\ worker'[w].pc = "complete" /\ worker'[w].ev = worker[w].ev
           /\ worker'[w].thread = t /\ worker'[w].task = k
  <1> DEFINE l == [worker[w] EXCEPT !.pc = "complete", !.thread = t, !.task = k]
  <1>1. worker[w] \in Worker /\ worker' = [worker EXCEPT ![w] = l]
    BY DEF TypeOK, Finish
  <1>2. /\ l \in Worker
        /\ l.pc = "complete" /\ l.ev = worker[w].ev /\ l.thread = t /\ l.task = k
    BY <1>1 DEF Worker, Pcs
  <1> HIDE DEF l
  <1> QED BY <1>1, <1>2, SetWorker

LEMMA ThreadWorker ==
    ASSUME TypeOK, NEW w \in Workers, NEW p \in Pcs, NEW t \in Threads \cup {None},
           worker' = [worker EXCEPT ![w] = [worker[w] EXCEPT !.pc = p, !.thread = t]]
    PROVE  /\ worker' \in [Workers -> Worker]
           /\ \A v \in Workers \ {w} : worker'[v] = worker[v]
           /\ worker'[w].pc = p /\ worker'[w].ev = worker[w].ev
           /\ worker'[w].thread = t /\ worker'[w].task = worker[w].task
  <1> DEFINE l == [worker[w] EXCEPT !.pc = p, !.thread = t]
  <1>1. worker[w] \in Worker /\ worker' = [worker EXCEPT ![w] = l]
    BY DEF TypeOK
  <1>2. /\ l \in Worker
        /\ l.pc = p /\ l.ev = worker[w].ev /\ l.thread = t /\ l.task = worker[w].task
    BY <1>1 DEF Worker
  <1> HIDE DEF l
  <1> QED BY <1>1, <1>2, SetWorker

LEMMA IdleIsWorker == IdleWorker \in Worker /\ IdleWorker.pc = "idle" /\ IdleWorker.ev = None
  BY DEF IdleWorker, Worker, Pcs

LEMMA HoldersFinite ==
    ASSUME NEW e \in Events
    PROVE  IsFiniteSet(Holders(e)) /\ Cardinality(Holders(e)) \in Nat
  <1>1. Holders(e) \in SUBSET Workers
    BY DEF Holders
  <1>2. IsFiniteSet(Holders(e))
    BY <1>1, FS_Subset, IngressAssumption
  <1> QED BY <1>2, FS_CardinalityType

\* No handler takes a delivery and none leaves the queue.
LEMMA FewerHolders ==
    ASSUME TypeOK, CopiesInv, copies' \in [Events -> Nat],
           \A v \in Workers : worker'[v].ev \in {worker[v].ev, None},
           \A e \in Events : copies'[e] >= copies[e]
    PROVE  CopiesInv'
  <1> SUFFICES ASSUME NEW e \in Events
               PROVE  Cardinality(Holders(e)') <= copies'[e]
    BY DEF CopiesInv
  <1>1. Holders(e)' \in SUBSET Holders(e)
    BY IngressAssumption DEF Holders
  <1>2. /\ IsFiniteSet(Holders(e)')
        /\ Cardinality(Holders(e)') <= Cardinality(Holders(e))
    BY <1>1, HoldersFinite, FS_Subset
  <1>3. Cardinality(Holders(e)) \in Nat /\ Cardinality(Holders(e)') \in Nat
    BY <1>2, HoldersFinite, FS_CardinalityType
  <1>4. Cardinality(Holders(e)) <= copies[e] /\ copies[e] \in Nat /\ copies'[e] \in Nat
    BY DEF CopiesInv, TypeOK
  <1> QED BY <1>2, <1>3, <1>4

\* A handler that raises leaves its delivery in the queue ...
LEMMA RaiseQueue ==
    ASSUME TypeOK, CopiesInv, NEW w \in Workers, Raise(w)
    PROVE  /\ worker' \in [Workers -> Worker]
           /\ copies' \in [Events -> Nat]
           /\ CopiesInv'
           /\ worker'[w] = IdleWorker
           /\ \A v \in Workers \ {w} : worker'[v] = worker[v]
  <1>1. /\ worker' \in [Workers -> Worker]
        /\ worker'[w] = IdleWorker
        /\ \A v \in Workers \ {w} : worker'[v] = worker[v]
    BY IdleIsWorker, SetWorker DEF Raise
  <1>2. copies' = copies /\ copies' \in [Events -> Nat]
    BY DEF Raise, TypeOK
  <1>3. CopiesInv'
    BY <1>1, <1>2, IdleIsWorker, FewerHolders
  <1> QED BY <1>1, <1>2, <1>3

\* ... and one that returns takes it out.
LEMMA ReturnQueue ==
    ASSUME TypeOK, CopiesInv, NEW w \in Workers, worker[w].ev \in Events, Return(w)
    PROVE  /\ worker' \in [Workers -> Worker]
           /\ copies' \in [Events -> Nat]
           /\ CopiesInv'
           /\ worker'[w] = IdleWorker
           /\ \A v \in Workers \ {w} : worker'[v] = worker[v]
  <1>1. /\ worker' \in [Workers -> Worker]
        /\ worker'[w] = IdleWorker
        /\ \A v \in Workers \ {w} : worker'[v] = worker[v]
    BY IdleIsWorker, SetWorker DEF Return
  <1>2. PICK d \in Events : d = worker[w].ev
    OBVIOUS
  <1>3. \A e \in Events : Cardinality(Holders(e)) <= copies[e] /\ copies[e] \in Nat
    BY DEF CopiesInv, TypeOK
  <1>4. w \in Holders(d) /\ Holders(d)' = Holders(d) \ {w}
    BY <1>1, <1>2, IdleIsWorker, IngressAssumption DEF Holders
  <1>5. Cardinality(Holders(d)') = Cardinality(Holders(d)) - 1
    BY <1>4, HoldersFinite, FS_RemoveElement
  <1>6. IsFiniteSet(Holders(d)')
    BY <1>4, HoldersFinite, FS_RemoveElement
  <1>7. Cardinality(Holders(d)') \in Nat
    BY <1>6, FS_CardinalityType
  <1>8. copies[d] - 1 \in Nat /\ Cardinality(Holders(d)') <= copies[d] - 1
    BY <1>3, <1>5, <1>7, HoldersFinite
  <1>9. /\ copies' \in [Events -> Nat]
        /\ copies'[d] = copies[d] - 1
        /\ \A e \in Events \ {d} : copies'[e] = copies[e]
    BY <1>2, <1>8 DEF Return, TypeOK
  <1>10. ASSUME NEW e \in Events \ {d}
         PROVE  Cardinality(Holders(e)') <= copies'[e]
    <2>1. Holders(e)' \in SUBSET Holders(e)
      BY <1>1, IdleIsWorker, IngressAssumption DEF Holders
    <2>2. IsFiniteSet(Holders(e)') /\ Cardinality(Holders(e)') <= Cardinality(Holders(e))
      BY <2>1, HoldersFinite, FS_Subset
    <2>3. Cardinality(Holders(e)') \in Nat
      BY <2>2, FS_CardinalityType
    <2> QED BY <1>3, <1>9, <2>2, <2>3, HoldersFinite
  <1>11. CopiesInv'
    BY <1>8, <1>9, <1>10 DEF CopiesInv
  <1> QED BY <1>1, <1>9, <1>11

----
\* What every step keeps

\* What was published, bound, owned, done or ruled stays so.
Grow ==
    /\ \A e \in Arrived : info'[e] = info[e]
    /\ \A s \in Surfaces : binding[s] # None => binding'[s] = binding[s]
    /\ \A t \in Threads : threads[t].owner # None => threads'[t].owner = threads[t].owner
    /\ tasks \subseteq tasks'
    /\ canceled \subseteq canceled'
    /\ projected \subseteq projected'
    /\ announced \subseteq announced'
    /\ \A q \in Requests : ruling[q] # "pending" => ruling'[q] # "pending"

LEMMA SameGrows == ASSUME UNCHANGED <<data, info>> PROVE Grow
  BY DEF data, Grow, Arrived

\* What an event that was published says.
LEMMA ArrivedInput ==
    ASSUME TypeOK, NEW e \in Arrived
    PROVE  /\ e \in Events /\ info[e] \in Inputs
           /\ info[e].surface \in Surfaces /\ info[e].user \in Users \cup {None}
           /\ info[e].request \in Requests \cup {None}
  <1>1. e \in Events /\ info[e] \in Inputs
    BY DEF TypeOK, Arrived
  <1> QED BY <1>1, IngressAssumption

\* A confirmation is about a request.
LEMMA ConfirmRequest ==
    ASSUME TypeOK, NEW e \in Arrived, Kind(e) = "confirm"
    PROVE  info[e].request \in Requests
  <1>1. info[e].request \in Requests \cup {None}
    BY ArrivedInput
  <1>2. CASE info[e].type = "block_actions"
    BY <1>1, <1>2 DEF Kind, normalize, normalize_interaction
  <1>3. CASE info[e].type # "block_actions"
    BY <1>3 DEF Kind, normalize, normalize_event
  <1> QED BY <1>2, <1>3

LEMMA EventStays ==
    ASSUME TypeOK, Grow, NEW e \in Arrived
    PROVE  e \in Arrived' /\ info'[e] = info[e] /\ Kind(e)' = Kind(e)
  <1>1. e \in Events /\ info[e] # None /\ info'[e] = info[e]
    BY DEF Grow, Arrived
  <1> QED BY <1>1 DEF Arrived, Kind

LEMMA MessagesGrow ==
    ASSUME TypeOK, Grow
    PROVE  Messages \subseteq Messages'
  BY EventStays DEF Messages

LEMMA DoneStays ==
    ASSUME TypeOK, Grow, NEW e \in Arrived, NEW t, NEW k, Done(e, t, k)
    PROVE  Done(e, t, k)'
  <1>1. info'[e] = info[e] /\ Kind(e)' = Kind(e)
    BY EventStays
  <1>2. Kind(e) = "confirm" => info[e].request \in Requests
    BY ConfirmRequest
  <1> QED BY <1>1, <1>2 DEF Grow, Done

LEMMA TaskStays ==
    ASSUME TypeOK, Grow, NEW k \in tasks, TaskInv(k)
    PROVE  TaskInv(k)'
  <1>1. k[1] \in Threads /\ k[2] \in Arrived
    BY DEF TypeOK, Tasks, TaskInv, Arrived
  <1>2. info'[k[2]] = info[k[2]] /\ info[k[2]].surface \in Surfaces
    BY <1>1, EventStays, ArrivedInput
  <1>3. /\ info[k[2]] # None /\ info[k[2]].user # None
        /\ binding[info[k[2]].surface] = k[1]
        /\ threads[k[1]].owner = info[k[2]].user
    BY DEF TaskInv
  <1>4. k[1] # None
    BY <1>1, IngressAssumption
  <1>5. /\ binding'[info[k[2]].surface] = binding[info[k[2]].surface]
        /\ threads'[k[1]].owner = threads[k[1]].owner
    BY <1>1, <1>2, <1>3, <1>4 DEF Grow
  <1> QED BY <1>2, <1>3, <1>5 DEF TaskInv

LEMMA ReceiptStays ==
    ASSUME TypeOK, Grow, NEW e \in Events, ReceiptInv(e),
           receipt'[e].status = receipt[e].status \/ receipt'[e].status # "sent",
           receipt'[e].claim = receipt[e].claim \/ receipt'[e].status # "sent",
           receipt'[e].thread = receipt[e].thread, receipt'[e].task = receipt[e].task
    PROVE  ReceiptInv(e)'
  <1>1. PICK t, k : t = receipt[e].thread /\ k = receipt[e].task
    OBVIOUS
  <1>2. receipt[e].status = "sent" =>
            e \in Arrived /\ receipt[e].claim = None /\ Done(e, t, k)
    BY <1>1 DEF ReceiptInv
  <1>3. receipt[e].status = "sent" => Done(e, t, k)' /\ e \in Arrived'
    BY <1>2, DoneStays, EventStays
  <1>4. receipt'[e].status = "sent" => receipt'[e].claim = None /\ Done(e, t, k)' /\ e \in Arrived'
    BY <1>2, <1>3
  <1>5. t = receipt'[e].thread /\ k = receipt'[e].task
    BY <1>1
  <1> QED BY <1>4, <1>5 DEF ReceiptInv

\* A handler's facts outlast the steps of the others.
LEMMA WorkerStays ==
    ASSUME TypeOK, Grow, NEW v \in Workers, WorkerInv(v), worker'[v] = worker[v]
    PROVE  WorkerInv(v)'
  <1>1. CASE worker[v].pc = "idle"
    BY <1>1 DEF WorkerInv, KindInv, ProgressInv, MessagePcs
  <1>2. CASE worker[v].pc # "idle"
    <2>1. PICK e \in Arrived : e = worker[v].ev
      BY <1>2 DEF WorkerInv, KindInv
    <2>2. PICK t, k : t = worker[v].thread /\ k = worker[v].task
      OBVIOUS
    <2>3. e \in Arrived' /\ info'[e] = info[e] /\ Kind(e)' = Kind(e)
      BY EventStays
    <2>4. KindInv(v)'
      BY <1>2, <2>1, <2>3 DEF WorkerInv, KindInv, Ev
    <2>5. worker[v].pc = "complete" => Done(e, t, k)'
      BY <2>1, <2>2, DoneStays DEF WorkerInv, ProgressInv
    <2>6. ASSUME worker[v].pc \in {"send", "project", "publish"}
          PROVE  /\ t # None
                 /\ binding'[info[e].surface] = t
                 /\ threads'[t].owner = info[e].user
      <3>1. t # None /\ binding[info[e].surface] = t /\ threads[t].owner = info[e].user
        BY <2>1, <2>2, <2>6 DEF WorkerInv, ProgressInv, Surface, Ev
      <3>2. info[e].surface \in Surfaces /\ t \in Threads
        BY <2>2, <3>1, ArrivedInput DEF TypeOK, Worker
      <3>3. info[e].user # None
        BY <2>1, <2>6 DEF WorkerInv, KindInv, MessagePcs, Ev
      <3> QED BY <3>1, <3>2, <3>3 DEF Grow
    <2>7. /\ worker[v].pc \in {"claim", "authorize"} => t = None
          /\ worker[v].pc \in {"project", "publish"} => k \in tasks'
          /\ worker[v].pc = "publish" => e \in projected'
      BY <2>1, <2>2 DEF WorkerInv, ProgressInv, Grow
    <2>8. worker'[v].ev = e /\ worker'[v].thread = t /\ worker'[v].task = k
      BY <2>1, <2>2
    <2>9. ProgressInv(v)'
      BY <2>3, <2>5, <2>6, <2>7, <2>8 DEF ProgressInv, Surface, Ev
    <2> QED BY <2>4, <2>9 DEF WorkerInv
  <1> QED BY <1>1, <1>2

\* The shape of every step of a handler w.
LEMMA StepKeeps ==
    ASSUME IInv, NEW w \in Workers, TypeOK', Grow, CopiesInv',
           \A v \in Workers \ {w} : worker'[v] = worker[v],
           WorkerInv(w)',
           \A k \in tasks' : k \in tasks \/ TaskInv(k)',
           \A e \in Events : receipt'[e] = receipt[e] \/ ReceiptInv(e)',
           NoOrphanThread'
    PROVE  IInv'
  <1>1. \A k \in tasks' : TaskInv(k)'
    BY TaskStays DEF IInv
  <1>2. \A e \in Events : ReceiptInv(e)'
    BY ReceiptStays DEF IInv
  <1>3. \A v \in Workers : WorkerInv(v)'
    BY WorkerStays DEF IInv
  <1> QED BY <1>1, <1>2, <1>3 DEF IInv

\* A step that changes no thread or binding leaves no thread behind.
LEMMA SameThreads ==
    ASSUME NoOrphanThread, UNCHANGED <<threads, webThread, binding>>
    PROVE  NoOrphanThread'
  BY DEF NoOrphanThread

\* The types of a step that leaves the data as it is.
LEMMA DataTyped ==
    ASSUME TypeOK, UNCHANGED <<data, info>>, faults' = faults \/ Fault,
           worker' \in [Workers -> Worker], receipt' \in [Events -> Receipt],
           copies' \in [Events -> Nat]
    PROVE  TypeOK'
  <1>1. faults' \in 0..MaxFaults /\ archivals' \in 0..faults'
    BY IngressAssumption DEF TypeOK, Fault, data
  <1>2. Messages' = Messages
    BY DEF Messages, Arrived, Kind
  <1> QED BY <1>1, <1>2 DEF TypeOK, data

\* A step that changes neither the data nor the receipts.
LEMMA MoveKeeps ==
    ASSUME IInv, NEW w \in Workers, UNCHANGED <<data, info, receipt>>,
           faults' = faults \/ Fault,
           worker' \in [Workers -> Worker], copies' \in [Events -> Nat], CopiesInv',
           \A v \in Workers \ {w} : worker'[v] = worker[v],
           WorkerInv(w)'
    PROVE  IInv'
  <1>1. TypeOK /\ NoOrphanThread /\ receipt \in [Events -> Receipt]
    BY DEF IInv, TypeOK
  <1>2. TypeOK'
    BY <1>1, DataTyped
  <1>3. Grow
    BY SameGrows
  <1>4. NoOrphanThread' /\ tasks' = tasks
    BY <1>1, SameThreads DEF data
  <1> QED BY <1>2, <1>3, <1>4, StepKeeps

\* No handler leaves its event and the queue is left alone.
LEMMA EventKept ==
    ASSUME IInv, NEW w \in Workers, UNCHANGED copies, worker'[w].ev = worker[w].ev,
           \A v \in Workers \ {w} : worker'[v] = worker[v]
    PROVE  CopiesInv' /\ copies' \in [Events -> Nat]
  <1>1. TypeOK /\ CopiesInv /\ copies' \in [Events -> Nat] /\ copies \in [Events -> Nat]
    BY DEF IInv, TypeOK
  <1>2. \A e \in Events : copies'[e] >= copies[e]
    BY <1>1
  <1> QED BY <1>1, <1>2, FewerHolders

\* A handler that gave its event back.
LEMMA IdleInv ==
    ASSUME NEW w \in Workers, worker'[w] = IdleWorker
    PROVE  WorkerInv(w)'
  BY DEF WorkerInv, KindInv, ProgressInv, IdleWorker, MessagePcs

\* The event of a handler at work.
LEMMA AtWork ==
    ASSUME IInv, NEW w \in Workers, worker[w].pc # "idle"
    PROVE  /\ worker[w].ev \in Arrived /\ worker[w].ev \in Events
           /\ Ev(w) \in Inputs /\ Surface(w) \in Surfaces
           /\ Ev(w).user \in Users \cup {None}
           /\ worker[w] \in Worker /\ TypeOK /\ WorkerInv(w)
  <1>1. worker[w].ev \in Arrived /\ TypeOK /\ WorkerInv(w) /\ worker[w] \in Worker
    BY DEF IInv, WorkerInv, KindInv, TypeOK
  <1> QED BY <1>1, ArrivedInput DEF Ev, Surface

\* The shape of a step that no handler takes.
LEMMA EnvKeeps ==
    ASSUME IInv, UNCHANGED <<worker, tasks>>, TypeOK', Grow,
           \A e \in Events : copies'[e] >= copies[e],
           \A e \in Events : receipt'[e] = receipt[e] \/ ReceiptInv(e)',
           NoOrphanThread'
    PROVE  IInv'
  <1>1. TypeOK /\ CopiesInv /\ copies' \in [Events -> Nat]
    BY DEF IInv, TypeOK
  <1>2. CopiesInv'
    BY <1>1, FewerHolders
  <1>3. \A k \in tasks' : TaskInv(k)'
    BY TaskStays DEF IInv
  <1>4. \A e \in Events : ReceiptInv(e)'
    BY ReceiptStays DEF IInv
  <1>5. \A v \in Workers : WorkerInv(v)'
    BY WorkerStays DEF IInv
  <1> QED BY <1>2, <1>3, <1>4, <1>5 DEF IInv

----
\* The steps of the threads, of Slack and of the clock

LEMMA StepCreate ==
    ASSUME IInv, NEW u \in Users, NEW t \in Threads, create_thread_idempotent(u, t)
    PROVE  IInv'
  <1>1. TypeOK /\ NoOrphanThread
    BY DEF IInv
  <1>2. [owner |-> u, archived |-> FALSE] \in ThreadRow
    BY DEF ThreadRow
  <1>3. /\ threads' \in [Threads -> ThreadRow]
        /\ threads'[t].owner = u
        /\ \A r \in Threads \ {t} : threads'[r] = threads[r]
    BY <1>1, <1>2 DEF create_thread_idempotent, NewThread, TypeOK
  <1>4. threads[t].owner = None /\ webThread = None /\ webThread' = t
    BY DEF create_thread_idempotent, Fresh
  <1>5. /\ UNCHANGED <<binding, receipt, copies, info, tasks, canceled, ruling,
                       projected, announced, worker, faults, archivals>>
        /\ Messages' = Messages
    BY DEF create_thread_idempotent, Messages, Arrived, Kind
  <1>6. TypeOK'
    BY <1>1, <1>3, <1>4, <1>5 DEF TypeOK
  <1>7. Grow
    BY <1>3, <1>4, <1>5 DEF Grow, Arrived
  <1>8. NoOrphanThread'
    BY <1>1, <1>3, <1>4, <1>5, IngressAssumption DEF NoOrphanThread
  <1>9. \A e \in Events : copies'[e] >= copies[e]
    BY <1>1, <1>5 DEF TypeOK
  <1> QED BY <1>5, <1>6, <1>7, <1>8, <1>9, EnvKeeps

LEMMA StepArchive ==
    ASSUME IInv, NEW t \in Threads, archive_thread(t) \/ restore_thread(t)
    PROVE  IInv'
  <1>1. TypeOK /\ NoOrphanThread /\ threads[t] \in ThreadRow
    BY DEF IInv, TypeOK
  <1>2. PICK a \in BOOLEAN : threads' = [threads EXCEPT ![t] = [owner |-> threads[t].owner, archived |-> a]]
    BY DEF archive_thread, restore_thread
  <1>3. [owner |-> threads[t].owner, archived |-> a] \in ThreadRow
    BY <1>1 DEF ThreadRow
  <1>4. /\ threads' \in [Threads -> ThreadRow]
        /\ \A r \in Threads : threads'[r].owner = threads[r].owner
    BY <1>1, <1>2, <1>3 DEF TypeOK
  <1>5. /\ UNCHANGED <<webThread, binding, receipt, copies, info, tasks, canceled, ruling,
                       projected, announced, worker>>
        /\ Messages' = Messages
    BY DEF archive_thread, restore_thread, Messages, Arrived, Kind
  <1>6. archivals' \in 0..faults' /\ faults' \in 0..MaxFaults
    BY <1>1, IngressAssumption DEF archive_thread, restore_thread, Fault, TypeOK
  <1>7. TypeOK'
    BY <1>1, <1>4, <1>5, <1>6 DEF TypeOK
  <1>8. Grow
    BY <1>4, <1>5 DEF Grow, Arrived
  <1>9. NoOrphanThread'
    BY <1>1, <1>4, <1>5 DEF NoOrphanThread
  <1>10. \A e \in Events : copies'[e] >= copies[e]
    BY <1>1, <1>5 DEF TypeOK
  <1> QED BY <1>5, <1>7, <1>8, <1>9, <1>10, EnvKeeps

LEMMA StepRule ==
    ASSUME IInv, NEW q \in Requests, RuleElsewhere(q)
    PROVE  IInv'
  <1>1. TypeOK /\ NoOrphanThread
    BY DEF IInv
  <1>2. /\ UNCHANGED <<threads, webThread, binding, receipt, copies, info, tasks, canceled,
                       projected, announced, worker, faults, archivals>>
        /\ Messages' = Messages
    BY DEF RuleElsewhere, Messages, Arrived, Kind
  <1>3. /\ ruling' \in [Requests -> {"pending", "ruled"}]
        /\ \A p \in Requests : ruling[p] # "pending" => ruling'[p] # "pending"
    BY <1>1 DEF RuleElsewhere, TypeOK
  <1>4. TypeOK'
    BY <1>1, <1>2, <1>3 DEF TypeOK
  <1>5. Grow
    BY <1>2, <1>3 DEF Grow, Arrived
  <1>6. NoOrphanThread'
    BY <1>1, <1>2, SameThreads
  <1>7. \A e \in Events : copies'[e] >= copies[e]
    BY <1>1, <1>2 DEF TypeOK
  <1> QED BY <1>2, <1>4, <1>5, <1>6, <1>7, EnvKeeps

LEMMA StepPublish ==
    ASSUME IInv, NEW e \in Events, NEW i \in Inputs, handle_request(e, i)
    PROVE  IInv'
  <1>1. TypeOK /\ NoOrphanThread
    BY DEF IInv
  <1>2. /\ UNCHANGED <<data, receipt, worker>>
        /\ info' = [info EXCEPT ![e] = i]
        /\ copies' = [copies EXCEPT ![e] = copies[e] + 1]
        /\ e \in Arrived => i = info[e]
        /\ faults' = faults \/ Fault
    BY DEF handle_request
  <1>3. /\ info' \in [Events -> Inputs \cup {None}]
        /\ \A d \in Arrived : info'[d] = info[d]
    BY <1>1, <1>2 DEF TypeOK, Arrived
  <1>4. /\ copies' \in [Events -> Nat]
        /\ \A d \in Events : copies'[d] >= copies[d]
    BY <1>1, <1>2 DEF TypeOK
  <1>5. Grow
    BY <1>2, <1>3 DEF Grow, data
  <1>6. Messages \subseteq Messages'
    BY <1>1, <1>5, MessagesGrow
  <1>7. archivals' \in 0..faults' /\ faults' \in 0..MaxFaults
    BY <1>1, <1>2, IngressAssumption DEF Fault, TypeOK, data
  <1>8. TypeOK'
    BY <1>1, <1>2, <1>3, <1>4, <1>6, <1>7 DEF TypeOK, data
  <1>9. NoOrphanThread' /\ tasks' = tasks
    BY <1>1, <1>2, SameThreads DEF data
  <1> QED BY <1>2, <1>4, <1>5, <1>8, <1>9, EnvKeeps

LEMMA StepExpire ==
    ASSUME IInv, NEW e \in Events, LeaseExpires(e)
    PROVE  IInv'
  <1>1. TypeOK /\ NoOrphanThread /\ receipt[e] \in Receipt /\ copies \in [Events -> Nat]
    BY DEF IInv, TypeOK
  <1>2. /\ UNCHANGED <<data, copies, info, worker>>
        /\ faults' = faults \/ Fault
        /\ receipt' = [receipt EXCEPT ![e] = [receipt[e] EXCEPT !.live = FALSE]]
        /\ receipt[e].status = "sending"
    BY DEF LeaseExpires
  <1> DEFINE r == [receipt[e] EXCEPT !.live = FALSE]
  <1>3. r \in Receipt /\ r.status = receipt[e].status
    BY <1>1 DEF Receipt
  <1>4. receipt' = [receipt EXCEPT ![e] = r]
    BY <1>2
  <1> HIDE DEF r
  <1>5. /\ receipt' \in [Events -> Receipt]
        /\ receipt'[e].status = "sending"
        /\ \A d \in Events \ {e} : receipt'[d] = receipt[d]
    BY <1>1, <1>2, <1>3, <1>4, SetReceipt
  <1>6. ReceiptInv(e)'
    BY <1>5 DEF ReceiptInv
  <1>7. TypeOK'
    BY <1>1, <1>2, <1>5, DataTyped DEF TypeOK
  <1>8. Grow /\ tasks' = tasks /\ NoOrphanThread'
    BY <1>1, <1>2, SameGrows, SameThreads DEF data
  <1>9. \A d \in Events : copies'[d] >= copies[d]
    BY <1>1, <1>2
  <1> QED BY <1>2, <1>5, <1>6, <1>7, <1>8, <1>9, EnvKeeps

----
\* Deliveries and claims

LEMMA StepReceive ==
    ASSUME IInv, NEW w \in Workers, NEW e \in Events, Receive(w, e)
    PROVE  IInv'
  <1>1. TypeOK /\ CopiesInv /\ WorkerInv(w) /\ copies \in [Events -> Nat]
    BY DEF IInv, TypeOK
  <1>2. PICK b \in Threads \cup {None} :
          /\ worker[w].pc = "idle" /\ e \in Arrived
          /\ Cardinality(Holders(e)) < copies[e]
          /\ \/ copies' = [copies EXCEPT ![e] = copies[e] - 1] /\ UNCHANGED worker
             \/ /\ worker' = [worker EXCEPT ![w] = [IdleWorker EXCEPT !.pc = "claim",
                                  !.ev = e, !.bound = b]]
                /\ UNCHANGED copies
    <2> DEFINE b == IF Kind(e) \in {"message", "link"} THEN binding[info[e].surface] ELSE None
    <2>1. e \in Arrived
      BY DEF Receive
    <2>2. b \in Threads \cup {None}
      BY <1>1, <2>1, ArrivedInput DEF TypeOK
    <2> QED BY <2>1, <2>2 DEF Receive, Holders
  <1>3. UNCHANGED <<data, receipt, info, faults>>
    BY DEF Receive
  <1>4. \A d \in Events : /\ IsFiniteSet(Holders(d)) /\ Cardinality(Holders(d)) \in Nat
                          /\ Cardinality(Holders(d)) <= copies[d]
    BY <1>1, HoldersFinite DEF CopiesInv
  <1>5. CASE copies' = [copies EXCEPT ![e] = copies[e] - 1] /\ UNCHANGED worker
    <2>1. copies[e] - 1 \in Nat /\ Cardinality(Holders(e)) <= copies[e] - 1
      BY <1>1, <1>2, <1>4
    <2>2. /\ copies' \in [Events -> Nat] /\ copies'[e] = copies[e] - 1
          /\ \A d \in Events \ {e} : copies'[d] = copies[d]
      BY <1>1, <1>5, <2>1
    <2>3. \A d \in Events : Holders(d)' = Holders(d)
      BY <1>5 DEF Holders
    <2>4. CopiesInv'
      BY <1>4, <2>1, <2>2, <2>3 DEF CopiesInv
    <2>5. WorkerInv(w)'
      BY <1>1, <1>3, <1>5, SameGrows, WorkerStays
    <2> QED BY <1>1, <1>3, <1>5, <2>2, <2>4, <2>5, MoveKeeps DEF TypeOK
  <1>6. CASE /\ worker' = [worker EXCEPT ![w] = [IdleWorker EXCEPT !.pc = "claim",
                               !.ev = e, !.bound = b]]
             /\ UNCHANGED copies
    <2> DEFINE l == [IdleWorker EXCEPT !.pc = "claim", !.ev = e, !.bound = b]
    <2>1. /\ l \in Worker /\ l.pc = "claim" /\ l.ev = e /\ l.thread = None
      BY IdleIsWorker DEF IdleWorker, Worker, Pcs
    <2>2. worker' = [worker EXCEPT ![w] = l]
      BY <1>6
    <2> HIDE DEF l
    <2>3. /\ worker' \in [Workers -> Worker]
          /\ worker'[w].pc = "claim" /\ worker'[w].ev = e /\ worker'[w].thread = None
          /\ \A v \in Workers \ {w} : worker'[v] = worker[v]
      BY <1>1, <2>1, <2>2, SetWorker
    <2>4. worker[w].ev = None
      BY <1>1, <1>2, IdleIsWorker DEF WorkerInv, KindInv
    <2>5. /\ Holders(e)' = Holders(e) \cup {w} /\ w \notin Holders(e)
          /\ \A d \in Events \ {e} : Holders(d)' = Holders(d)
      BY <2>3, <2>4, IngressAssumption DEF Holders
    <2>6. Cardinality(Holders(e)') = Cardinality(Holders(e)) + 1
      BY <1>4, <2>5, FS_AddElement
    <2>7. \A d \in Events : copies'[d] = copies[d] /\ copies[d] \in Nat
      BY <1>1, <1>6
    <2>8. CopiesInv'
      BY <1>2, <1>4, <2>5, <2>6, <2>7 DEF CopiesInv
    <2>9. e \in Arrived'
      BY <1>2, <1>3 DEF Arrived
    <2>10. WorkerInv(w)'
      BY <2>3, <2>9 DEF WorkerInv, KindInv, ProgressInv, MessagePcs
    <2> QED BY <1>1, <1>3, <1>6, <2>3, <2>8, <2>10, MoveKeeps
  <1> QED BY <1>2, <1>5, <1>6

\* The handler's first step fits the kind of its event.
LEMMA FirstStepIs ==
    ASSUME NEW e
    PROVE  \/ FirstStep(e) = "authorize" /\ Kind(e) \in {"message", "link"}
           \/ FirstStep(e) = "stop" /\ Kind(e) = "stop"
           \/ FirstStep(e) = "look" /\ Kind(e) \notin {"message", "link", "stop"}
  BY DEF FirstStep

\* A handler that raises, or returns without a word, only leaves.
LEMMA LeaveKeeps ==
    ASSUME IInv, NEW w \in Workers, worker[w].pc # "idle", UNCHANGED <<data, info, receipt>>,
           faults' = faults \/ Fault, Raise(w) \/ Return(w)
    PROVE  IInv'
  <1>1. TypeOK /\ CopiesInv /\ worker[w].ev \in Events
    BY AtWork DEF IInv
  <1>2. /\ worker' \in [Workers -> Worker] /\ copies' \in [Events -> Nat] /\ CopiesInv'
        /\ worker'[w] = IdleWorker
        /\ \A v \in Workers \ {w} : worker'[v] = worker[v]
    BY <1>1, RaiseQueue, ReturnQueue
  <1> QED BY <1>2, IdleInv, MoveKeeps

LEMMA StepClaim ==
    ASSUME IInv, NEW w \in Workers, claim_ingress(w)
    PROVE  IInv'
  <1>1. PICK e \in Events : e = worker[w].ev
    BY AtWork DEF claim_ingress
  <1>2. /\ TypeOK /\ WorkerInv(w) /\ worker[w] \in Worker /\ e \in Arrived
        /\ worker[w].pc = "claim" /\ receipt[e] \in Receipt /\ NoOrphanThread
    BY <1>1, AtWork DEF claim_ingress, IInv, TypeOK
  <1>3. UNCHANGED <<data, info, faults>>
    BY DEF claim_ingress
  <1>4. CASE /\ receipt' = [receipt EXCEPT ![e] = [receipt[e] EXCEPT !.status = "sending",
                                !.claim = w, !.live = TRUE]]
             /\ Goto(w, FirstStep(e))
             /\ UNCHANGED copies
    <2> DEFINE r == [receipt[e] EXCEPT !.status = "sending", !.claim = w, !.live = TRUE]
    <2>1. r \in Receipt /\ r.status = "sending"
      BY <1>2 DEF Receipt
    <2>2. receipt' = [receipt EXCEPT ![e] = r]
      BY <1>4
    <2> HIDE DEF r
    <2>3. /\ receipt' \in [Events -> Receipt] /\ receipt'[e].status = "sending"
          /\ \A d \in Events \ {e} : receipt'[d] = receipt[d]
      BY <1>2, <2>1, <2>2, SetReceipt
    <2>4. PICK p \in Pcs : p = FirstStep(e)
      BY FirstStepIs DEF Pcs
    <2>5. /\ worker' \in [Workers -> Worker]
          /\ \A v \in Workers \ {w} : worker'[v] = worker[v]
          /\ worker'[w].pc = p /\ worker'[w].ev = e /\ worker'[w].thread = worker[w].thread
      BY <1>1, <1>2, <1>4, <2>4, GotoWorker
    <2>6. worker[w].thread = None
      BY <1>2 DEF WorkerInv, ProgressInv
    <2>7. e \in Arrived' /\ Kind(e)' = Kind(e)
      BY <1>2, <1>3 DEF Arrived, Kind
    <2>8. WorkerInv(w)'
      BY <2>4, <2>5, <2>6, <2>7, FirstStepIs DEF WorkerInv, KindInv, ProgressInv, MessagePcs
    <2>9. CopiesInv' /\ copies' \in [Events -> Nat]
      BY <1>1, <1>4, <2>5, EventKept
    <2>10. TypeOK'
      BY <1>2, <1>3, <2>3, <2>5, <2>9, DataTyped
    <2>11. ReceiptInv(e)'
      BY <2>3 DEF ReceiptInv
    <2>12. Grow /\ tasks' = tasks /\ NoOrphanThread'
      BY <1>2, <1>3, SameGrows, SameThreads DEF data
    <2> QED BY <2>3, <2>5, <2>8, <2>9, <2>10, <2>11, <2>12, StepKeeps
  <1>5. CASE (Raise(w) \/ Return(w)) /\ UNCHANGED receipt
    BY <1>2, <1>3, <1>5, LeaveKeeps
  <1> QED BY <1>1, <1>4, <1>5 DEF claim_ingress

LEMMA StepComplete ==
    ASSUME IInv, NEW w \in Workers, complete_ingress(w)
    PROVE  IInv'
  <1>1. PICK e \in Events : e = worker[w].ev
    BY AtWork DEF complete_ingress
  <1>2. /\ TypeOK /\ CopiesInv /\ WorkerInv(w) /\ worker[w] \in Worker /\ e \in Arrived
        /\ worker[w].pc = "complete" /\ NoOrphanThread
    BY <1>1, AtWork DEF complete_ingress, IInv
  <1>3. UNCHANGED <<data, info, faults>>
    BY DEF complete_ingress
  <1>4. PICK t \in Threads \cup {None}, k \in Tasks \cup {None} :
          t = worker[w].thread /\ k = worker[w].task
    BY <1>2 DEF Worker
  <1> DEFINE r == [status |-> "sent", claim |-> None, live |-> FALSE, thread |-> t, task |-> k]
  <1>5. CASE receipt' = [receipt EXCEPT ![e] = r] /\ Return(w)
    <2>1. r \in Receipt /\ r.claim = None /\ r.thread = t /\ r.task = k
      BY DEF Receipt
    <2> HIDE DEF r
    <2>2. /\ receipt' \in [Events -> Receipt]
          /\ receipt'[e].claim = None /\ receipt'[e].thread = t /\ receipt'[e].task = k
          /\ \A d \in Events \ {e} : receipt'[d] = receipt[d]
      BY <1>2, <1>5, <2>1, SetReceipt
    <2>3. /\ worker' \in [Workers -> Worker] /\ copies' \in [Events -> Nat] /\ CopiesInv'
          /\ worker'[w] = IdleWorker
          /\ \A v \in Workers \ {w} : worker'[v] = worker[v]
      BY <1>1, <1>2, <1>5, ReturnQueue
    <2>4. TypeOK'
      BY <1>2, <1>3, <2>2, <2>3, DataTyped
    <2>5. Grow /\ tasks' = tasks /\ NoOrphanThread'
      BY <1>2, <1>3, SameGrows, SameThreads DEF data
    <2>6. Done(e, t, k)
      BY <1>1, <1>2, <1>4 DEF WorkerInv, ProgressInv
    <2>7. Done(e, t, k)' /\ e \in Arrived'
      BY <1>2, <2>5, <2>6, DoneStays, EventStays
    <2>8. ReceiptInv(e)'
      BY <2>2, <2>7 DEF ReceiptInv
    <2> QED BY <2>2, <2>3, <2>4, <2>5, <2>8, IdleInv, StepKeeps
  <1>6. CASE Raise(w) /\ UNCHANGED receipt
    BY <1>2, <1>3, <1>6, LeaveKeeps
  <1> QED BY <1>1, <1>4, <1>5, <1>6 DEF complete_ingress

LEMMA StepFail ==
    ASSUME IInv, NEW w \in Workers, fail_ingress(w)
    PROVE  IInv'
  <1>1. PICK e \in Events : e = worker[w].ev
    BY AtWork DEF fail_ingress
  <1>2. /\ TypeOK /\ CopiesInv /\ receipt[e] \in Receipt /\ NoOrphanThread
        /\ worker[w].pc = "fail"
    BY <1>1 DEF fail_ingress, IInv, TypeOK
  <1>3. UNCHANGED <<data, info, faults>> /\ Raise(w)
    BY DEF fail_ingress
  <1> DEFINE r == [receipt[e] EXCEPT !.status = "failed", !.claim = None, !.live = FALSE]
  <1>4. CASE receipt' = [receipt EXCEPT ![e] = r]
    <2>1. r \in Receipt /\ r.status = "failed"
      BY <1>2 DEF Receipt
    <2> HIDE DEF r
    <2>2. /\ receipt' \in [Events -> Receipt] /\ receipt'[e].status = "failed"
          /\ \A d \in Events \ {e} : receipt'[d] = receipt[d]
      BY <1>2, <1>4, <2>1, SetReceipt
    <2>3. /\ worker' \in [Workers -> Worker] /\ copies' \in [Events -> Nat] /\ CopiesInv'
          /\ worker'[w] = IdleWorker
          /\ \A v \in Workers \ {w} : worker'[v] = worker[v]
      BY <1>2, <1>3, RaiseQueue
    <2>4. TypeOK'
      BY <1>2, <1>3, <2>2, <2>3, DataTyped
    <2>5. Grow /\ tasks' = tasks /\ NoOrphanThread'
      BY <1>2, <1>3, SameGrows, SameThreads DEF data
    <2>6. ReceiptInv(e)'
      BY <2>2 DEF ReceiptInv
    <2> QED BY <2>2, <2>3, <2>4, <2>5, <2>6, IdleInv, StepKeeps
  <1>5. CASE UNCHANGED receipt
    BY <1>2, <1>3, <1>5, LeaveKeeps
  <1> QED BY <1>1, <1>4, <1>5 DEF fail_ingress

LEMMA StepCrash ==
    ASSUME IInv, NEW w \in Workers, Crash(w)
    PROVE  IInv'
  BY LeaveKeeps DEF Crash

----
\* Messages and links

\* A step of a handler on its event that leaves the receipts, the queue and the data.
LEMMA GoOnKeeps ==
    ASSUME IInv, NEW w \in Workers, UNCHANGED <<data, info, receipt, copies, faults>>,
           worker' \in [Workers -> Worker], worker'[w].ev = worker[w].ev,
           \A v \in Workers \ {w} : worker'[v] = worker[v],
           WorkerInv(w)'
    PROVE  IInv'
  BY EventKept, MoveKeeps

\* ... or changes the data.
LEMMA ChangeKeeps ==
    ASSUME IInv, NEW w \in Workers, UNCHANGED <<info, receipt, copies>>,
           worker'[w].ev = worker[w].ev,
           \A v \in Workers \ {w} : worker'[v] = worker[v],
           TypeOK', Grow, WorkerInv(w)', NoOrphanThread',
           \A k \in tasks' : k \in tasks \/ TaskInv(k)'
    PROVE  IInv'
  BY EventKept, StepKeeps

LEMMA StepAuthorize ==
    ASSUME IInv, NEW w \in Workers, Authorize(w)
    PROVE  IInv'
  <1>1. PICK e \in Arrived : e = worker[w].ev
    BY AtWork DEF Authorize
  <1>2. /\ TypeOK /\ worker[w].pc = "authorize" /\ worker[w].thread = None
        /\ Kind(e) \in {"message", "link"}
        /\ UNCHANGED <<data, info, receipt, copies, faults>>
    BY <1>1, AtWork DEF Authorize, WorkerInv, KindInv, ProgressInv
  <1>3. PICK p \in {"complete", "link", "select"} :
          /\ Goto(w, p)
          /\ p = "link" => Kind(e) = "link"
          /\ p = "select" => info[e].user # None /\ Kind(e) # "link"
    BY <1>1 DEF Authorize, Ev
  <1>4. /\ worker' \in [Workers -> Worker]
        /\ \A v \in Workers \ {w} : worker'[v] = worker[v]
        /\ worker'[w].pc = p /\ worker'[w].ev = e /\ worker'[w].thread = None
    BY <1>1, <1>2, <1>3, GotoWorker DEF Pcs
  <1>5. e \in Arrived' /\ Kind(e)' = Kind(e) /\ info' = info
    BY <1>2 DEF Arrived, Kind
  <1>6. KindInv(w)'
    BY <1>2, <1>3, <1>4, <1>5 DEF KindInv, MessagePcs, Ev
  <1>7. ProgressInv(w)'
    BY <1>2, <1>3, <1>4, <1>5 DEF ProgressInv, Done
  <1> QED BY <1>1, <1>2, <1>4, <1>6, <1>7, GoOnKeeps DEF WorkerInv

LEMMA StepLink ==
    ASSUME IInv, NEW w \in Workers, _link_existing(w)
    PROVE  IInv'
  <1>1. PICK e \in Arrived : e = worker[w].ev
    BY AtWork DEF _link_existing
  <1>2. /\ TypeOK /\ NoOrphanThread /\ Kind(e) = "link" /\ Surface(w) \in Surfaces
    BY <1>1, AtWork DEF _link_existing, WorkerInv, KindInv, IInv
  <1>3. PICK s \in Surfaces : s = Surface(w)
    BY <1>2
  <1>4. UNCHANGED <<threads, webThread, receipt, copies, info, tasks, canceled, ruling,
                    projected, announced, faults, archivals>>
    BY DEF _link_existing
  <1>5. PICK t \in Threads \cup {None} :
          /\ worker' = [worker EXCEPT ![w] = [worker[w] EXCEPT !.pc = "complete", !.thread = t]]
          /\ \/ binding' = binding
             \/ /\ t \in Threads /\ binding[s] \in {None, t}
                /\ binding' = [binding EXCEPT ![s] = t]
    BY <1>2, <1>3 DEF _link_existing, owns_thread, TypeOK
  <1>6. /\ worker' \in [Workers -> Worker]
        /\ \A v \in Workers \ {w} : worker'[v] = worker[v]
        /\ worker'[w].pc = "complete" /\ worker'[w].ev = e
    BY <1>1, <1>2, <1>5, ThreadWorker DEF Pcs
  <1>7. /\ binding' \in [Surfaces -> Threads \cup {None}]
        /\ \A r \in Surfaces : binding[r] # None => binding'[r] = binding[r]
    BY <1>2, <1>5 DEF TypeOK
  <1>8. e \in Arrived' /\ Kind(e)' = Kind(e) /\ Messages' = Messages
    BY <1>4 DEF Arrived, Kind, Messages
  <1>9. WorkerInv(w)'
    BY <1>2, <1>6, <1>8 DEF WorkerInv, KindInv, ProgressInv, MessagePcs, Done
  <1>10. TypeOK'
    BY <1>2, <1>4, <1>6, <1>7, <1>8 DEF TypeOK
  <1>11. Grow
    BY <1>4, <1>7 DEF Grow, Arrived
  <1>12. NoOrphanThread'
    BY <1>2, <1>4, <1>7, IngressAssumption DEF NoOrphanThread
  <1> QED BY <1>1, <1>4, <1>6, <1>9, <1>10, <1>11, <1>12, ChangeKeeps

\* The thread that the surface is bound to is taken when the author owns it.
LEMMA CheckBinding ==
    ASSUME IInv, NEW w \in Workers, worker[w].pc \in {"select", "insert"},
           binding[Surface(w)] # None, _check_binding(w, binding[Surface(w)]),
           UNCHANGED <<threads, binding, tasks, info>>
    PROVE  /\ worker' \in [Workers -> Worker] /\ worker'[w].ev = worker[w].ev
           /\ \A v \in Workers \ {w} : worker'[v] = worker[v]
           /\ WorkerInv(w)'
  <1>1. PICK e \in Arrived : e = worker[w].ev
    BY AtWork
  <1>2. /\ TypeOK /\ Kind(e) = "message" /\ info[e].user # None /\ info[e].surface \in Surfaces
        /\ worker[w] \in Worker
    BY <1>1, AtWork DEF WorkerInv, KindInv, MessagePcs, Ev, Surface
  <1>3. PICK t \in Threads : t = binding[info[e].surface]
    BY <1>1, <1>2 DEF TypeOK, Surface, Ev
  <1>4. e \in Arrived' /\ Kind(e)' = Kind(e)
    BY <1>2 DEF Arrived, Kind
  <1>5. CASE owns_thread(info[e].user, t)
    <2>1. worker' = [worker EXCEPT ![w] = [worker[w] EXCEPT !.pc = "send", !.thread = t]]
      BY <1>1, <1>3, <1>5 DEF _check_binding, Surface, Ev
    <2>2. /\ worker' \in [Workers -> Worker]
          /\ \A v \in Workers \ {w} : worker'[v] = worker[v]
          /\ worker'[w].pc = "send" /\ worker'[w].ev = e /\ worker'[w].thread = t
      BY <1>1, <1>2, <2>1, ThreadWorker DEF Pcs
    <2>3. t # None /\ threads[t].owner = info[e].user
      BY <1>5 DEF owns_thread
    <2>4. KindInv(w)'
      BY <1>2, <1>4, <2>2 DEF KindInv, MessagePcs, Ev
    <2>5. ProgressInv(w)'
      BY <1>3, <2>2, <2>3 DEF ProgressInv, Surface, Ev
    <2> QED BY <1>1, <2>2, <2>4, <2>5 DEF WorkerInv
  <1>6. CASE ~owns_thread(info[e].user, t)
    <2>1. Goto(w, "fail")
      BY <1>1, <1>3, <1>6 DEF _check_binding, Goto, Surface, Ev
    <2>2. /\ worker' \in [Workers -> Worker]
          /\ \A v \in Workers \ {w} : worker'[v] = worker[v]
          /\ worker'[w].pc = "fail" /\ worker'[w].ev = e
      BY <1>1, <1>2, <2>1, GotoWorker DEF Pcs
    <2>3. WorkerInv(w)'
      BY <1>4, <2>2 DEF WorkerInv, KindInv, ProgressInv, MessagePcs
    <2> QED BY <1>1, <2>2, <2>3
  <1> QED BY <1>5, <1>6

LEMMA StepSelect ==
    ASSUME IInv, NEW w \in Workers, SelectBinding(w)
    PROVE  IInv'
  <1>1. PICK e \in Arrived : e = worker[w].ev
    BY AtWork DEF SelectBinding
  <1>2. /\ worker[w].pc = "select" /\ UNCHANGED <<data, receipt, copies, info, faults>>
        /\ TypeOK /\ Kind(e) = "message" /\ info[e].user # None
    BY <1>1, AtWork DEF SelectBinding, WorkerInv, KindInv, MessagePcs, Ev
  <1>3. CASE binding[Surface(w)] # None
    <2>1. /\ worker' \in [Workers -> Worker] /\ worker'[w].ev = worker[w].ev
          /\ \A v \in Workers \ {w} : worker'[v] = worker[v]
          /\ WorkerInv(w)'
      BY <1>2, <1>3, CheckBinding DEF SelectBinding, data
    <2> QED BY <1>2, <2>1, GoOnKeeps
  <1>4. CASE binding[Surface(w)] = None
    <2>1. /\ worker' \in [Workers -> Worker]
          /\ \A v \in Workers \ {w} : worker'[v] = worker[v]
          /\ worker'[w].pc = "insert" /\ worker'[w].ev = e
      BY <1>1, <1>2, <1>4, GotoWorker DEF SelectBinding, Pcs
    <2>2. e \in Arrived' /\ Kind(e)' = Kind(e) /\ info' = info
      BY <1>2 DEF Arrived, Kind
    <2>3. WorkerInv(w)'
      BY <1>2, <2>1, <2>2 DEF WorkerInv, KindInv, ProgressInv, MessagePcs, Ev
    <2> QED BY <1>1, <1>2, <2>1, <2>3, GoOnKeeps
  <1> QED BY <1>3, <1>4

LEMMA StepInsert ==
    ASSUME IInv, NEW w \in Workers, NEW t \in Threads, get_or_create_surface_thread(w, t)
    PROVE  IInv'
  <1>1. PICK e \in Arrived : e = worker[w].ev
    BY AtWork DEF get_or_create_surface_thread
  <1>2. /\ worker[w].pc = "insert"
        /\ UNCHANGED <<webThread, receipt, copies, info, tasks, canceled, ruling,
                       projected, announced, faults, archivals>>
        /\ TypeOK /\ Kind(e) = "message" /\ info[e].user \in Users /\ NoOrphanThread
        /\ info[e].surface \in Surfaces
    BY <1>1, AtWork DEF get_or_create_surface_thread, WorkerInv, KindInv, MessagePcs, Ev, IInv,
                        Surface
  <1>3. PICK s \in Surfaces : s = info[e].surface /\ s = Surface(w)
    BY <1>1, <1>2 DEF Surface, Ev
  <1>4. e \in Arrived' /\ Kind(e)' = Kind(e) /\ Messages' = Messages
    BY <1>2 DEF Arrived, Kind, Messages
  <1>5. CASE binding[s] # None
    <2>1. UNCHANGED <<threads, binding>> /\ _check_binding(w, binding[Surface(w)])
      BY <1>3, <1>5 DEF get_or_create_surface_thread
    <2>2. /\ worker' \in [Workers -> Worker] /\ worker'[w].ev = worker[w].ev
          /\ \A v \in Workers \ {w} : worker'[v] = worker[v]
          /\ WorkerInv(w)'
      BY <1>2, <1>3, <1>5, <2>1, CheckBinding
    <2> QED BY <1>2, <2>1, <2>2, GoOnKeeps DEF data
  <1>6. CASE binding[s] = None
    <2>1. /\ Fresh(t) /\ NewThread(t, info[e].user)
          /\ binding' = [binding EXCEPT ![s] = t]
          /\ worker' = [worker EXCEPT ![w] = [worker[w] EXCEPT !.pc = "send", !.thread = t]]
      BY <1>1, <1>3, <1>6 DEF get_or_create_surface_thread, Ev
    <2>2. [owner |-> info[e].user, archived |-> FALSE] \in ThreadRow
      BY <1>2 DEF ThreadRow
    <2>3. /\ threads' \in [Threads -> ThreadRow]
          /\ threads'[t].owner = info[e].user
          /\ \A r \in Threads \ {t} : threads'[r] = threads[r]
          /\ threads[t].owner = None
      BY <1>2, <2>1, <2>2 DEF NewThread, Fresh, TypeOK
    <2>4. /\ binding' \in [Surfaces -> Threads \cup {None}]
          /\ binding'[s] = t
          /\ \A r \in Surfaces \ {s} : binding'[r] = binding[r]
      BY <1>2, <2>1 DEF TypeOK
    <2>5. /\ worker' \in [Workers -> Worker]
          /\ \A v \in Workers \ {w} : worker'[v] = worker[v]
          /\ worker'[w].pc = "send" /\ worker'[w].ev = e /\ worker'[w].thread = t
      BY <1>1, <1>2, <2>1, ThreadWorker DEF Pcs
    <2>6. TypeOK'
      BY <1>2, <1>4, <2>3, <2>4, <2>5 DEF TypeOK
    <2>7. Grow
      BY <1>2, <1>6, <2>3, <2>4 DEF Grow, Arrived
    <2>8. NoOrphanThread'
      BY <1>2, <1>6, <2>3, <2>4, IngressAssumption DEF NoOrphanThread
    <2>9. KindInv(w)'
      BY <1>2, <1>4, <2>5, IngressAssumption DEF KindInv, MessagePcs, Ev
    <2>10. ProgressInv(w)'
      BY <1>2, <1>3, <2>3, <2>4, <2>5, IngressAssumption DEF ProgressInv, Surface, Ev
    <2> QED BY <1>1, <1>2, <2>5, <2>6, <2>7, <2>8, <2>9, <2>10, ChangeKeeps DEF WorkerInv
  <1> QED BY <1>5, <1>6

LEMMA StepSend ==
    ASSUME IInv, NEW w \in Workers, Send(w)
    PROVE  IInv'
  <1>1. PICK e \in Arrived : e = worker[w].ev
    BY AtWork DEF Send
  <1>2. /\ worker[w].pc = "send"
        /\ UNCHANGED <<threads, webThread, binding, receipt, copies, info, canceled, ruling,
                       projected, announced, archivals>>
        /\ TypeOK /\ Kind(e) = "message" /\ info[e].user # None /\ NoOrphanThread
        /\ info[e].surface \in Surfaces /\ e \in Events
    BY <1>1, AtWork DEF Send, WorkerInv, KindInv, MessagePcs, Ev, IInv, Surface
  <1>3. PICK t \in Threads : /\ t = worker[w].thread /\ t # None
                             /\ binding[info[e].surface] = t
                             /\ threads[t].owner = info[e].user
    BY <1>1, <1>2, AtWork DEF WorkerInv, ProgressInv, Surface, Ev, Worker
  <1> DEFINE k == <<t, e>>
  <1>4. k \in Tasks /\ k[1] = t /\ k[2] = e
    BY <1>2 DEF Tasks
  <1>5. \/ /\ tasks' = tasks \cup {k} /\ faults' = faults
           /\ worker' = [worker EXCEPT ![w] = [worker[w] EXCEPT !.pc = "project", !.task = k]]
        \/ Fault /\ tasks' \in {tasks, tasks \cup {k}} /\ Goto(w, "fail")
    BY <1>1, <1>3 DEF Send
  <1> HIDE DEF k
  <1>6. e \in Arrived' /\ Kind(e)' = Kind(e) /\ Messages' = Messages
    BY <1>2 DEF Arrived, Kind, Messages
  <1>7. /\ worker' \in [Workers -> Worker]
        /\ \A v \in Workers \ {w} : worker'[v] = worker[v]
        /\ worker'[w].ev = e
        /\ \/ worker'[w].pc = "fail"
           \/ /\ worker'[w].pc = "project" /\ worker'[w].thread = t /\ worker'[w].task = k
              /\ k \in tasks'
    <2>1. CASE worker' = [worker EXCEPT ![w] = [worker[w] EXCEPT !.pc = "project", !.task = k]]
               /\ k \in tasks'
      <3> DEFINE l == [worker[w] EXCEPT !.pc = "project", !.task = k]
      <3>1. worker[w] \in Worker /\ worker' = [worker EXCEPT ![w] = l]
        BY <1>2, <2>1 DEF TypeOK
      <3>2. /\ l \in Worker
            /\ l.pc = "project" /\ l.ev = e /\ l.thread = t /\ l.task = k
        BY <1>1, <1>3, <1>4, <3>1 DEF Worker, Pcs
      <3> HIDE DEF l
      <3> QED BY <1>2, <2>1, <3>1, <3>2, SetWorker
    <2>2. CASE Goto(w, "fail")
      BY <1>1, <1>2, <2>2, GotoWorker DEF Pcs
    <2> QED BY <1>5, <2>1, <2>2
  <1>8. tasks \subseteq tasks' /\ tasks' \subseteq tasks \cup {k}
    BY <1>5
  <1>9. faults' \in 0..MaxFaults /\ archivals' \in 0..faults'
    BY <1>2, <1>5, IngressAssumption DEF TypeOK, Fault
  <1>10. TypeOK'
    BY <1>2, <1>4, <1>6, <1>7, <1>8, <1>9 DEF TypeOK
  <1>11. Grow
    BY <1>2, <1>8 DEF Grow, Arrived
  <1>12. NoOrphanThread'
    BY <1>2, SameThreads
  <1>13. TaskInv(k)'
    BY <1>2, <1>3, <1>4, <1>6 DEF TaskInv, Arrived
  <1>14. \A j \in tasks' : j \in tasks \/ TaskInv(j)'
    BY <1>8, <1>13
  <1>15. KindInv(w)'
    BY <1>2, <1>6, <1>7 DEF KindInv, MessagePcs, Ev
  <1>16. ProgressInv(w)'
    BY <1>2, <1>3, <1>7 DEF ProgressInv, Surface, Ev
  <1> QED BY <1>1, <1>2, <1>7, <1>10, <1>11, <1>12, <1>14, <1>15, <1>16, ChangeKeeps DEF WorkerInv

LEMMA StepEnsure ==
    ASSUME IInv, NEW w \in Workers, ensure_projection(w)
    PROVE  IInv'
  <1>1. PICK e \in Arrived : e = worker[w].ev
    BY AtWork DEF ensure_projection
  <1>2. /\ worker[w].pc = "project" /\ projected' = projected \cup {e} /\ Goto(w, "publish")
        /\ UNCHANGED <<threads, webThread, binding, receipt, copies, info, tasks, canceled,
                       ruling, announced, faults, archivals>>
        /\ TypeOK /\ Kind(e) = "message" /\ info[e].user # None /\ NoOrphanThread
    BY <1>1, AtWork DEF ensure_projection, WorkerInv, KindInv, MessagePcs, Ev, IInv
  <1>3. /\ worker[w].task \in tasks /\ worker[w].thread # None
        /\ binding[info[e].surface] = worker[w].thread
        /\ threads[worker[w].thread].owner = info[e].user
    BY <1>1, <1>2, AtWork DEF WorkerInv, ProgressInv, Surface, Ev
  <1>4. /\ worker' \in [Workers -> Worker]
        /\ \A v \in Workers \ {w} : worker'[v] = worker[v]
        /\ worker'[w].pc = "publish" /\ worker'[w].ev = e
        /\ worker'[w].thread = worker[w].thread /\ worker'[w].task = worker[w].task
    BY <1>1, <1>2, GotoWorker DEF Pcs
  <1>5. e \in Arrived' /\ Kind(e)' = Kind(e) /\ Messages' = Messages
    BY <1>2 DEF Arrived, Kind, Messages
  <1>6. e \in Messages
    BY <1>2 DEF Messages
  <1>7. TypeOK'
    BY <1>2, <1>4, <1>5, <1>6 DEF TypeOK
  <1>8. Grow
    BY <1>2 DEF Grow, Arrived
  <1>9. NoOrphanThread'
    BY <1>2, SameThreads
  <1>10. KindInv(w)'
    BY <1>2, <1>4, <1>5 DEF KindInv, MessagePcs, Ev
  <1>11. ProgressInv(w)'
    BY <1>2, <1>3, <1>4 DEF ProgressInv, Surface, Ev
  <1> QED BY <1>1, <1>2, <1>4, <1>7, <1>8, <1>9, <1>10, <1>11, ChangeKeeps DEF WorkerInv

LEMMA StepProjection ==
    ASSUME IInv, NEW w \in Workers, _projection(w)
    PROVE  IInv'
  <1>1. PICK e \in Arrived : e = worker[w].ev
    BY AtWork DEF _projection
  <1>2. /\ worker[w].pc = "publish"
        /\ UNCHANGED <<threads, webThread, binding, receipt, copies, info, tasks, canceled,
                       ruling, projected, archivals>>
        /\ TypeOK /\ Kind(e) = "message" /\ NoOrphanThread
        /\ worker[w].task \in tasks /\ e \in projected
    BY <1>1, AtWork DEF _projection, WorkerInv, KindInv, ProgressInv, MessagePcs, IInv
  <1>3. \/ announced' = announced \cup {e} /\ Goto(w, "complete") /\ faults' = faults
        \/ announced' = announced /\ Goto(w, "fail") /\ Fault
    BY <1>1 DEF _projection
  <1>4. PICK p \in {"complete", "fail"} : /\ Goto(w, p)
                                          /\ p = "complete" => e \in announced'
    BY <1>3
  <1>5. /\ worker' \in [Workers -> Worker]
        /\ \A v \in Workers \ {w} : worker'[v] = worker[v]
        /\ worker'[w].pc = p /\ worker'[w].ev = e /\ worker'[w].task = worker[w].task
    BY <1>1, <1>2, <1>4, GotoWorker DEF Pcs
  <1>6. announced \subseteq announced' /\ announced' \subseteq projected
    BY <1>2, <1>3 DEF TypeOK
  <1>7. faults' \in 0..MaxFaults /\ archivals' \in 0..faults'
    BY <1>2, <1>3, IngressAssumption DEF TypeOK, Fault
  <1>8. e \in Arrived' /\ Kind(e)' = Kind(e) /\ Messages' = Messages
    BY <1>2 DEF Arrived, Kind, Messages
  <1>9. TypeOK'
    BY <1>2, <1>5, <1>6, <1>7, <1>8 DEF TypeOK
  <1>10. Grow
    BY <1>2, <1>6 DEF Grow, Arrived
  <1>11. NoOrphanThread'
    BY <1>2, SameThreads
  <1>12. WorkerInv(w)'
    BY <1>2, <1>4, <1>5, <1>8 DEF WorkerInv, KindInv, ProgressInv, MessagePcs, Done
  <1> QED BY <1>1, <1>2, <1>5, <1>9, <1>10, <1>11, <1>12, ChangeKeeps

----
\* Stops and confirmations

LEMMA OwnedThread ==
    ASSUME IInv, NEW w \in Workers, worker[w].pc # "idle"
    PROVE  _owned_thread(w) \in Threads \cup {None}
  BY AtWork DEF _owned_thread, TypeOK

LEMMA StepStop ==
    ASSUME IInv, NEW w \in Workers, _stop(w)
    PROVE  IInv'
  <1>1. PICK e \in Arrived : e = worker[w].ev
    BY AtWork DEF _stop
  <1>2. /\ worker[w].pc = "stop"
        /\ UNCHANGED <<threads, webThread, binding, receipt, copies, info, tasks, ruling,
                       projected, announced, archivals>>
        /\ TypeOK /\ Kind(e) = "stop" /\ NoOrphanThread
    BY <1>1, AtWork DEF _stop, WorkerInv, KindInv, IInv
  <1>3. PICK t \in Threads \cup {None} : t = _owned_thread(w)
    BY <1>2, OwnedThread
  <1>4. \/ \E k \in tasks : /\ canceled' = canceled \cup {k}
                            /\ Finish(w, t, k) /\ faults' = faults
        \/ Finish(w, t, None) /\ canceled' = canceled /\ faults' = faults
        \/ Goto(w, "fail") /\ canceled' = canceled /\ Fault
    BY <1>3 DEF _stop
  <1>5. /\ canceled \subseteq canceled' /\ canceled' \subseteq tasks
        /\ faults' \in 0..MaxFaults /\ archivals' \in 0..faults'
    BY <1>2, <1>4, IngressAssumption DEF TypeOK, Fault
  <1>6. e \in Arrived' /\ Kind(e)' = Kind(e) /\ Messages' = Messages
    BY <1>2 DEF Arrived, Kind, Messages
  <1>7. /\ worker' \in [Workers -> Worker]
        /\ \A v \in Workers \ {w} : worker'[v] = worker[v]
        /\ worker'[w].ev = e
        /\ \/ worker'[w].pc = "fail"
           \/ worker'[w].pc = "complete" /\ worker'[w].task \in canceled' \cup {None}
    <2>1. ASSUME NEW k \in tasks, Finish(w, t, k), canceled' = canceled \cup {k}
          PROVE  /\ worker' \in [Workers -> Worker]
                 /\ \A v \in Workers \ {w} : worker'[v] = worker[v]
                 /\ worker'[w].ev = e /\ worker'[w].pc = "complete" /\ worker'[w].task \in canceled'
      <3>1. k \in Tasks
        BY <1>2 DEF TypeOK
      <3> QED BY <1>1, <1>2, <2>1, <3>1, FinishWorker
    <2>2. CASE Finish(w, t, None)
      BY <1>1, <1>2, <2>2, FinishWorker
    <2>3. CASE Goto(w, "fail")
      BY <1>1, <1>2, <2>3, GotoWorker DEF Pcs
    <2> QED BY <1>4, <2>1, <2>2, <2>3
  <1>8. TypeOK'
    BY <1>2, <1>5, <1>6, <1>7 DEF TypeOK
  <1>9. Grow
    BY <1>2, <1>5 DEF Grow, Arrived
  <1>10. NoOrphanThread'
    BY <1>2, SameThreads
  <1>11. WorkerInv(w)'
    BY <1>2, <1>6, <1>7 DEF WorkerInv, KindInv, ProgressInv, MessagePcs, Done
  <1> QED BY <1>1, <1>2, <1>7, <1>8, <1>9, <1>10, <1>11, ChangeKeeps

LEMMA StepLookUp ==
    ASSUME IInv, NEW w \in Workers, LookUp(w)
    PROVE  IInv'
  <1>1. PICK e \in Arrived : e = worker[w].ev
    BY AtWork DEF LookUp
  <1>2. /\ worker[w].pc = "look"
        /\ UNCHANGED <<data, receipt, copies, info, faults>>
        /\ TypeOK /\ Kind(e) \notin {"message", "link", "stop"}
    BY <1>1, AtWork DEF LookUp, WorkerInv, KindInv
  <1>3. PICK t \in Threads \cup {None} : t = _owned_thread(w)
    BY <1>2, OwnedThread
  <1>4. PICK p \in {"complete", "answer"} :
          /\ worker' = [worker EXCEPT ![w] = [worker[w] EXCEPT !.thread = t, !.pc = p]]
          /\ p = "complete" => t = None \/ ruling[info[e].request] # "pending"
    BY <1>1, <1>3 DEF LookUp, Ev
  <1> DEFINE l == [worker[w] EXCEPT !.thread = t, !.pc = p]
  <1>5. worker[w] \in Worker /\ worker' = [worker EXCEPT ![w] = l]
    BY <1>2, <1>4 DEF TypeOK
  <1>6. l \in Worker /\ l.pc = p /\ l.ev = e /\ l.thread = t
    BY <1>1, <1>5 DEF Worker, Pcs
  <1> HIDE DEF l
  <1>7. /\ worker' \in [Workers -> Worker]
        /\ \A v \in Workers \ {w} : worker'[v] = worker[v]
        /\ worker'[w].pc = p /\ worker'[w].ev = e /\ worker'[w].thread = t
    BY <1>2, <1>5, <1>6, SetWorker
  <1>8. e \in Arrived' /\ Kind(e)' = Kind(e) /\ info' = info /\ ruling' = ruling
    BY <1>2 DEF Arrived, Kind, data
  <1>9. WorkerInv(w)'
    BY <1>2, <1>4, <1>7, <1>8 DEF WorkerInv, KindInv, ProgressInv, MessagePcs, Done
  <1> QED BY <1>1, <1>2, <1>7, <1>9, GoOnKeeps

LEMMA StepContinue ==
    ASSUME IInv, NEW w \in Workers, continue_human_input(w)
    PROVE  IInv'
  <1>1. PICK e \in Arrived : e = worker[w].ev
    BY AtWork DEF continue_human_input
  <1>2. /\ worker[w].pc = "answer"
        /\ UNCHANGED <<threads, webThread, binding, receipt, copies, info, tasks, canceled,
                       projected, announced, archivals>>
        /\ TypeOK /\ Kind(e) \notin {"message", "link", "stop"} /\ NoOrphanThread
    BY <1>1, AtWork DEF continue_human_input, WorkerInv, KindInv, IInv
  <1>3. PICK q : q = info[e].request
    OBVIOUS
  <1>4. PICK p \in {"complete", "recheck"} :
          /\ Goto(w, p) /\ (faults' = faults \/ Fault)
          /\ \/ ruling' = [ruling EXCEPT ![q] = "ruled"]
             \/ p = "recheck" /\ ruling' = ruling
    BY <1>1, <1>3 DEF continue_human_input, Ev
  <1>5. Kind(e) = "confirm" => q \in Requests
    BY <1>2, <1>3, ConfirmRequest
  <1>6. /\ ruling' \in [Requests -> {"pending", "ruled"}]
        /\ \A r \in Requests : ruling[r] # "pending" => ruling'[r] # "pending"
        /\ p = "complete" /\ Kind(e) = "confirm" => ruling'[q] # "pending"
    BY <1>2, <1>4, <1>5 DEF TypeOK
  <1>7. /\ worker' \in [Workers -> Worker]
        /\ \A v \in Workers \ {w} : worker'[v] = worker[v]
        /\ worker'[w].pc = p /\ worker'[w].ev = e
    BY <1>1, <1>2, <1>4, GotoWorker DEF Pcs
  <1>8. e \in Arrived' /\ Kind(e)' = Kind(e) /\ Messages' = Messages
    BY <1>2 DEF Arrived, Kind, Messages
  <1>9. faults' \in 0..MaxFaults /\ archivals' \in 0..faults'
    BY <1>2, <1>4, IngressAssumption DEF TypeOK, Fault
  <1>10. TypeOK'
    BY <1>2, <1>6, <1>7, <1>8, <1>9 DEF TypeOK
  <1>11. Grow
    BY <1>2, <1>6 DEF Grow, Arrived
  <1>12. NoOrphanThread'
    BY <1>2, SameThreads
  <1>13. WorkerInv(w)'
    BY <1>2, <1>3, <1>6, <1>7, <1>8 DEF WorkerInv, KindInv, ProgressInv, MessagePcs, Done
  <1> QED BY <1>1, <1>2, <1>7, <1>10, <1>11, <1>12, <1>13, ChangeKeeps

LEMMA StepRecheck ==
    ASSUME IInv, NEW w \in Workers, _tool_confirmation(w)
    PROVE  IInv'
  <1>1. PICK e \in Arrived : e = worker[w].ev
    BY AtWork DEF _tool_confirmation
  <1>2. /\ worker[w].pc = "recheck"
        /\ UNCHANGED <<data, receipt, copies, info, faults>>
        /\ TypeOK /\ Kind(e) \notin {"message", "link", "stop"}
    BY <1>1, AtWork DEF _tool_confirmation, WorkerInv, KindInv
  <1>3. PICK p \in {"complete", "fail"} :
          Goto(w, p) /\ (p = "complete" => ruling[info[e].request] # "pending")
    BY <1>1 DEF _tool_confirmation, Ev
  <1>4. /\ worker' \in [Workers -> Worker]
        /\ \A v \in Workers \ {w} : worker'[v] = worker[v]
        /\ worker'[w].pc = p /\ worker'[w].ev = e
    BY <1>1, <1>2, <1>3, GotoWorker DEF Pcs
  <1>5. e \in Arrived' /\ Kind(e)' = Kind(e) /\ info' = info /\ ruling' = ruling
    BY <1>2 DEF Arrived, Kind, data
  <1>6. WorkerInv(w)'
    BY <1>2, <1>3, <1>4, <1>5 DEF WorkerInv, KindInv, ProgressInv, MessagePcs, Done
  <1> QED BY <1>1, <1>2, <1>4, <1>6, GoOnKeeps

----
\* The theorems

LEMMA InitInv == Init => IInv
  <1> SUFFICES ASSUME Init PROVE IInv
    OBVIOUS
  <1>1. /\ \A v \in Workers : worker[v] = IdleWorker
        /\ worker \in [Workers -> Worker]
    BY IdleIsWorker DEF Init
  <1>2. TypeOK
    BY <1>1, IngressAssumption DEF Init, TypeOK, ThreadRow, Receipt
  <1>3. \A e \in Events : Holders(e) = {}
    BY <1>1, IdleIsWorker, IngressAssumption DEF Holders
  <1>4. CopiesInv
    <2>1. \A e \in Events : Cardinality(Holders(e)) = 0
      BY <1>3, FS_EmptySet
    <2>2. \A e \in Events : copies[e] = 0
      BY DEF Init
    <2> QED BY <2>1, <2>2 DEF CopiesInv
  <1>5. \A w \in Workers : WorkerInv(w)
    BY <1>1 DEF WorkerInv, KindInv, ProgressInv, IdleWorker, MessagePcs
  <1>6. /\ \A k \in tasks : TaskInv(k)
        /\ \A e \in Events : ReceiptInv(e)
        /\ NoOrphanThread
    BY DEF Init, ReceiptInv, NoOrphanThread
  <1> QED BY <1>2, <1>4, <1>5, <1>6 DEF IInv

LEMMA StepInv == IInv /\ [Next]_vars => IInv'
  <1> SUFFICES ASSUME IInv, [Next]_vars PROVE IInv'
    OBVIOUS
  <1>1. ASSUME NEW w \in Workers, Step(w)
        PROVE  IInv'
    BY <1>1, StepClaim, StepAuthorize, StepLink, StepSelect, StepInsert, StepSend, StepEnsure,
       StepProjection, StepStop, StepLookUp, StepContinue, StepRecheck, StepComplete, StepFail
       DEF Step
  <1>2. CASE Next
    BY <1>1, <1>2, StepPublish, StepExpire, StepReceive, StepCrash, StepArchive, StepCreate,
       StepRule DEF Next
  <1>3. CASE UNCHANGED vars
    <2>1. /\ UNCHANGED <<data, info, faults, worker, receipt, copies, tasks, threads, webThread, binding>>
          /\ TypeOK /\ NoOrphanThread
      BY <1>3 DEF vars, data, IInv
    <2>2. TypeOK'
      BY <2>1, DataTyped DEF TypeOK
    <2>3. Grow /\ NoOrphanThread'
      BY <2>1, SameGrows, SameThreads
    <2>4. \A e \in Events : copies'[e] >= copies[e]
      BY <2>1 DEF TypeOK
    <2> QED BY <2>1, <2>2, <2>3, <2>4, EnvKeeps
  <1> QED BY <1>2, <1>3

\* The inductive invariant holds in every state of the specification.
THEOREM IngressInvariant == Spec => []IInv
  BY InitInv, StepInv, PTL DEF Spec

\* Every variable keeps its type: no delivery count goes below zero (the queue of
\* slack_ingress.py), only messages have a projection row.
THEOREM IngressTypeCorrect == Spec => []TypeOK
  <1>1. IInv => TypeOK
    BY DEF IInv
  <1> QED BY <1>1, IngressInvariant, PTL

\* Two tasks of one event run in the thread its Slack thread is bound to.
LEMMA TasksAreOwn == IInv => OneOwnTask
  <1> SUFFICES ASSUME IInv PROVE OneOwnTask
    OBVIOUS
  <1>1. ASSUME NEW k \in tasks, NEW l \in tasks, k[2] = l[2]
        PROVE  k = l
    <2>1. k \in Threads \X Events /\ l \in Threads \X Events
      BY DEF IInv, TypeOK, Tasks
    <2>2. k[1] = l[1]
      BY <1>1 DEF IInv, TaskInv
    <2> QED BY <1>1, <2>1, <2>2
  <1>2. \A k \in tasks : threads[k[1]].owner = info[k[2]].user
    BY DEF IInv, TaskInv
  <1> QED BY <1>1, <1>2 DEF OneOwnTask

\* However often, by however many handlers and with whatever crashes a Slack event is
\* delivered, it gives one task, in a thread of its author (_message(), claim_ingress(),
\* get_or_create_surface_thread()).
THEOREM OneTaskPerEvent == Spec => []OneOwnTask
  BY TasksAreOwn, IngressInvariant, PTL

\* A receipt that complete_ingress() marked as sent stays true: the task and its
\* projection request, the cancellation, or the ruling are there.
THEOREM SentIsTrue == Spec => []SentIsDone
  <1>1. IInv => SentIsDone
    BY DEF IInv, ReceiptInv, Done, SentIsDone, Messages, Arrived
  <1> QED BY <1>1, IngressInvariant, PTL

\* Racing first messages of a Slack thread leave no thread without a surface: the loser
\* of get_or_create_surface_thread() leaves no row.
THEOREM NoThreadOrphaned == Spec => []NoOrphanThread
  <1>1. IInv => NoOrphanThread
    BY DEF IInv
  <1> QED BY <1>1, IngressInvariant, PTL

====
