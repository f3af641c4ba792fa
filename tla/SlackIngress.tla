---- MODULE SlackIngress ----
(***************************************************************************)
(* Slack input: slack_ingress.py publishes an event, agent_input.py handles *)
(* it under the ingress receipt of slack_a2a_repository.py, over the thread *)
(* and surface rows of thread_repository.py.                                *)
(*                                                                         *)
(* The controller is seen as in ThreadBinding: a turn gives its message the *)
(* one task <<thread, event>>, a repeated turn gives the same task.         *)
(* One database transaction or call is one step.                            *)
(***************************************************************************)
EXTENDS Integers, FiniteSets

CONSTANTS
    Surfaces,     \* Slack threads
    Users,        \* application principals
    Threads,      \* thread ids, numbered in the order they are handed out
    Events,       \* Slack event ids, numbered in the order they first arrive
    Requests,     \* human-input requests of the controller
    Inputs,       \* what an event may say: kind, surface, user, and what it is about
    Workers,      \* concurrent handler invocations
    None,         \* NULL
    MaxFaults     \* bound on crashes, failed calls, slow workers, resends, archivals

\* type: the Slack event ("im" is a message in a direct channel); thread: it has a
\* thread_ts; bot: it is another app's, or an edit; link: its text is a link command
\* for the thread the Web created.  user is None for an identity that is not linked
\* to a principal.
ASSUME IngressAssumption ==
    /\ Inputs \subseteq [type: {"app_mention", "im", "message", "agent_session_stopped",
                                "block_actions"},
                         thread: BOOLEAN, bot: BOOLEAN, link: BOOLEAN,
                         surface: Surfaces, user: Users \cup {None},
                         request: Requests \cup {None}]
    /\ Threads \subseteq Nat /\ Events \subseteq Nat
    /\ None \notin Inputs /\ None \notin Surfaces \cup Users \cup Threads \cup Events \cup Requests
    /\ None \notin Workers /\ IsFiniteSet(Workers)
    /\ MaxFaults \in Nat

VARIABLES
    threads,     \* agent_threads: owner and archived_at
    webThread,   \* the thread the Web created (creation_request_id)
    binding,     \* thread_surface_bindings: the thread of each surface
    receipt,     \* surface_ingress_events
    copies,      \* deliveries of each event still in the queue
    info,        \* what each event that was published says; None before
    tasks,       \* the controller's tasks <<thread, event>>
    canceled,    \* tasks whose cancellation was requested
    ruling,      \* controller: the ruling of each human-input request
    projected,   \* events whose task has a projection row
    announced,   \* events whose projection was requested on the bus
    worker,      \* per worker: program counter and what it read
    archivals,   \* archivals so far
    faults       \* faults so far

vars == <<threads, webThread, binding, receipt, copies, info, tasks, canceled,
          ruling, projected, announced, worker, archivals, faults>>

data == <<threads, webThread, binding, tasks, canceled, ruling, projected, announced,
          archivals>>

----
\* Rows and values

normalize_event(i) ==
    CASE i.bot \/ (i.type = "message" /\ ~i.thread) -> "ignored"
      [] i.type = "agent_session_stopped" -> "stop"
      [] OTHER -> IF i.link THEN "link" ELSE "message"

normalize_interaction(i) == IF i.request = None THEN "ignored" ELSE "confirm"

normalize(i) == IF i.type = "block_actions" THEN normalize_interaction(i)
                                            ELSE normalize_event(i)

Arrived == {e \in Events : info[e] # None}
Kind(e) == normalize(info[e])
Messages == {e \in Arrived : Kind(e) = "message"}
Tasks == Threads \X Events

ThreadRow == [owner: Users \cup {None}, archived: BOOLEAN]

Receipt == [status: {"none", "sending", "failed", "sent"}, claim: Workers \cup {None},
            live: BOOLEAN, thread: Threads \cup {None}, task: Tasks \cup {None}]

Pcs == {"idle", "claim", "authorize", "link", "select", "insert", "send", "project",
        "publish", "stop", "look", "answer", "recheck", "complete", "fail"}

\* bound: the binding as read before the claim.
Worker == [pc: Pcs, ev: Events \cup {None}, bound: Threads \cup {None},
           thread: Threads \cup {None}, task: Tasks \cup {None}]

IdleWorker == [pc |-> "idle", ev |-> None, bound |-> None,
               thread |-> None, task |-> None]

TypeOK ==
    /\ threads \in [Threads -> ThreadRow]
    /\ webThread \in Threads \cup {None}
    /\ binding \in [Surfaces -> Threads \cup {None}]
    /\ receipt \in [Events -> Receipt]
    /\ copies \in [Events -> Nat]
    /\ info \in [Events -> Inputs \cup {None}]
    /\ tasks \subseteq Tasks
    /\ canceled \subseteq tasks
    /\ ruling \in [Requests -> {"pending", "ruled"}]
    /\ projected \subseteq Messages
    /\ announced \subseteq projected
    /\ worker \in [Workers -> Worker]
    /\ archivals \in 0..faults
    /\ faults \in 0..MaxFaults

Init ==
    /\ threads = [t \in Threads |-> [owner |-> None, archived |-> FALSE]]
    /\ webThread = None
    /\ binding = [s \in Surfaces |-> None]
    /\ receipt = [e \in Events |-> [status |-> "none", claim |-> None, live |-> FALSE,
                                    thread |-> None, task |-> None]]
    /\ copies = [e \in Events |-> 0]
    /\ info = [e \in Events |-> None]
    /\ tasks = {} /\ canceled = {}
    /\ ruling = [q \in Requests |-> "pending"]
    /\ projected = {} /\ announced = {}
    /\ worker = [w \in Workers |-> IdleWorker]
    /\ archivals = 0 /\ faults = 0

Fault == faults < MaxFaults /\ faults' = faults + 1

Ev(w) == info[worker[w].ev]
Surface(w) == Ev(w).surface

Goto(w, there) == worker' = [worker EXCEPT ![w] = [worker[w] EXCEPT !.pc = there]]

\* The handler raises: the queue keeps the delivery.
Raise(w) == worker' = [worker EXCEPT ![w] = IdleWorker] /\ UNCHANGED copies

\* The handler returns: the queue deletes the delivery.
Return(w) ==
    /\ worker' = [worker EXCEPT ![w] = IdleWorker]
    /\ copies' = [copies EXCEPT ![worker[w].ev] = copies[worker[w].ev] - 1]

----
\* Threads

\* owns_thread()
owns_thread(u, t) ==
    /\ t # None /\ u # None
    /\ threads[t].owner = u
    /\ ~threads[t].archived

\* The next thread id.
Fresh(t) ==
    /\ threads[t].owner = None
    /\ \A r \in Threads : r < t => threads[r].owner # None

NewThread(t, u) == threads' = [threads EXCEPT ![t] = [owner |-> u, archived |-> FALSE]]

\* create_thread_idempotent(): a repeated creation request returns its thread.
create_thread_idempotent(u, t) ==
    /\ webThread = None /\ Fresh(t)
    /\ NewThread(t, u)
    /\ webThread' = t
    /\ UNCHANGED <<binding, receipt, copies, info, tasks, canceled, ruling,
                   projected, announced, worker, faults, archivals>>

\* archive_thread() by the owner
archive_thread(t) ==
    /\ threads[t].owner # None /\ ~threads[t].archived
    /\ Fault /\ archivals' = archivals + 1
    /\ threads' = [threads EXCEPT ![t] = [owner |-> threads[t].owner, archived |-> TRUE]]
    /\ UNCHANGED <<webThread, binding, receipt, copies, info, tasks, canceled, ruling,
                   projected, announced, worker>>

\* restore_thread() by the owner
restore_thread(t) ==
    /\ threads[t].archived
    /\ threads' = [threads EXCEPT ![t] = [owner |-> threads[t].owner, archived |-> FALSE]]
    /\ UNCHANGED <<webThread, binding, receipt, copies, info, tasks, canceled, ruling,
                   projected, announced, worker, faults, archivals>>

\* Another surface rules on a request of a task.
RuleElsewhere(q) ==
    /\ tasks # {} /\ ruling[q] = "pending"
    /\ ruling' = [ruling EXCEPT ![q] = "ruled"]
    /\ UNCHANGED <<threads, webThread, binding, receipt, copies, info, tasks, canceled,
                   projected, announced, worker, faults, archivals>>

----
\* Receiving

\* handle_request(): the event is published.  Slack may send it again.  The button
\* of a request is on the projection of a task.
handle_request(e, i) ==
    /\ normalize(i) # "ignored"
    /\ i.request # None => announced # {}
    /\ \A d \in Events : d < e => d \in Arrived
    /\ IF e \in Arrived THEN i = info[e] /\ Fault ELSE UNCHANGED faults
    /\ info' = [info EXCEPT ![e] = i]
    /\ copies' = [copies EXCEPT ![e] = copies[e] + 1]
    /\ UNCHANGED <<data, receipt, worker>>

\* The queue hands out an event.  _message() reads the binding before the claim
\* and drops a message without a mention in a Slack thread that is not bound.
Receive(w, e) ==
    LET bound == IF Kind(e) \in {"message", "link"}
                 THEN binding[info[e].surface] ELSE None
    IN
    /\ worker[w].pc = "idle"
    /\ e \in Arrived
    /\ Cardinality({v \in Workers : worker[v].ev = e}) < copies[e]
    /\ IF info[e].type = "message" /\ bound = None
       THEN copies' = [copies EXCEPT ![e] = copies[e] - 1] /\ UNCHANGED worker
       ELSE /\ worker' = [worker EXCEPT ![w] = [IdleWorker EXCEPT !.pc = "claim",
                              !.ev = e, !.bound = bound]]
            /\ UNCHANGED copies
    /\ UNCHANGED <<data, receipt, info, faults>>

FirstStep(e) == CASE Kind(e) \in {"message", "link"} -> "authorize"
                  [] Kind(e) = "stop" -> "stop"
                  [] OTHER -> "look"

\* The receipt can be handed out.
Available(r) == r.status \in {"none", "failed"} \/ (r.status = "sending" /\ ~r.live)

\* claim_ingress(): new and failed receipts and expired claims are handed out; a
\* live claim of another delivery raises, a receipt that is sent ends it.
claim_ingress(w) ==
    LET e == worker[w].ev
        r == receipt[e]
    IN
    /\ worker[w].pc = "claim"
    /\ \/ /\ Available(r)
          /\ receipt' = [receipt EXCEPT ![e] = [r EXCEPT !.status = "sending",
                             !.claim = w, !.live = TRUE]]
          /\ Goto(w, FirstStep(e))
          /\ UNCHANGED copies
       \/ /\ ~Available(r) /\ r.status # "sent"
          /\ Raise(w)
          /\ UNCHANGED receipt
       \/ /\ r.status = "sent"
          /\ Return(w)
          /\ UNCHANGED receipt
    /\ UNCHANGED <<data, info, faults>>

----
\* Messages and links: _message(), _link_existing()

\* Refusals are complete with no thread; the reply to the user is left out.
Authorize(w) ==
    /\ worker[w].pc = "authorize"
    /\ Goto(w, CASE Ev(w).user = None -> "complete"
                 [] Ev(w).user # None /\ Kind(worker[w].ev) = "link" -> "link"
                 [] Ev(w).user # None /\ Kind(worker[w].ev) # "link" /\ worker[w].bound # None
                    /\ ~owns_thread(Ev(w).user, worker[w].bound) -> "complete"
                 [] OTHER -> "select")
    /\ UNCHANGED <<data, receipt, copies, info, faults>>

\* Mutant: bind_surface() takes the surface over.
LinkOver(w) ==
    /\ worker[w].pc = "link"
    /\ IF owns_thread(Ev(w).user, webThread)
       THEN /\ binding' = [binding EXCEPT ![Surface(w)] = webThread]
            /\ worker' = [worker EXCEPT ![w] = [worker[w] EXCEPT !.pc = "complete",
                                                                 !.thread = webThread]]
       ELSE Goto(w, "complete") /\ UNCHANGED binding
    /\ UNCHANGED <<threads, webThread, receipt, copies, info, tasks, canceled, ruling,
                   projected, announced, faults, archivals>>

\* bind_surface(): the existing row wins, and another thread's row is a conflict.
_link_existing(w) ==
    LET t == webThread
        s == Surface(w)
        linked == owns_thread(Ev(w).user, t) /\ binding[s] \in {None, t}
    IN
    /\ worker[w].pc = "link"
    /\ binding' = IF linked THEN [binding EXCEPT ![s] = t] ELSE binding
    /\ worker' = [worker EXCEPT ![w] = [worker[w] EXCEPT !.pc = "complete",
                                            !.thread = IF linked THEN t ELSE None]]
    /\ UNCHANGED <<threads, webThread, receipt, copies, info, tasks, canceled, ruling,
                   projected, announced, faults, archivals>>

\* _check_binding(): another owner or an archived thread raises BindingConflict.
_check_binding(w, t) ==
    worker' = [worker EXCEPT ![w] =
        IF owns_thread(Ev(w).user, t)
        THEN [worker[w] EXCEPT !.pc = "send", !.thread = t]
        ELSE [worker[w] EXCEPT !.pc = "fail"]]

\* get_or_create_surface_thread(): the first read
SelectBinding(w) ==
    /\ worker[w].pc = "select"
    /\ IF binding[Surface(w)] # None THEN _check_binding(w, binding[Surface(w)])
                                     ELSE Goto(w, "insert")
    /\ UNCHANGED <<data, receipt, copies, info, faults>>

\* Mutant: the thread of a losing creator is not rolled back.
InsertBothKept(w, t) ==
    /\ worker[w].pc = "insert" /\ Fresh(t)
    /\ NewThread(t, Ev(w).user)
    /\ IF binding[Surface(w)] = None
       THEN /\ binding' = [binding EXCEPT ![Surface(w)] = t]
            /\ worker' = [worker EXCEPT ![w] = [worker[w] EXCEPT !.pc = "send",
                                                                 !.thread = t]]
       ELSE _check_binding(w, binding[Surface(w)]) /\ UNCHANGED binding
    /\ UNCHANGED <<webThread, receipt, copies, info, tasks, canceled, ruling,
                   projected, announced, faults, archivals>>

\* ... and the inserts, in one transaction: when the surface was bound meanwhile
\* the new thread is rolled back and the winner's binding is used.
get_or_create_surface_thread(w, t) ==
    /\ worker[w].pc = "insert"
    /\ IF binding[Surface(w)] = None
       THEN /\ Fresh(t)
            /\ NewThread(t, Ev(w).user)
            /\ binding' = [binding EXCEPT ![Surface(w)] = t]
            /\ worker' = [worker EXCEPT ![w] = [worker[w] EXCEPT !.pc = "send",
                                                                 !.thread = t]]
       ELSE /\ _check_binding(w, binding[Surface(w)])
            /\ UNCHANGED <<threads, binding>>
    /\ UNCHANGED <<webThread, receipt, copies, info, tasks, canceled, ruling,
                   projected, announced, faults, archivals>>

\* send_turn(): the task, or an exception with or without it.
Send(w) ==
    LET k == <<worker[w].thread, worker[w].ev>> IN
    /\ worker[w].pc = "send"
    /\ \/ /\ tasks' = tasks \cup {k}
          /\ worker' = [worker EXCEPT ![w] = [worker[w] EXCEPT !.pc = "project",
                                                               !.task = k]]
          /\ UNCHANGED faults
       \/ /\ Fault
          /\ tasks' \in {tasks, tasks \cup {k}}
          /\ Goto(w, "fail")
    /\ UNCHANGED <<threads, webThread, binding, receipt, copies, info, canceled, ruling,
                   projected, announced, archivals>>

\* Mutant: the receipt is completed right after the row is written.
ProjectOnly(w) ==
    /\ worker[w].pc = "project"
    /\ projected' = projected \cup {worker[w].ev}
    /\ Goto(w, "complete")
    /\ UNCHANGED <<threads, webThread, binding, receipt, copies, info, tasks, canceled,
                   ruling, announced, faults, archivals>>

\* _projection(): ensure_projection() ...
ensure_projection(w) ==
    /\ worker[w].pc = "project"
    /\ projected' = projected \cup {worker[w].ev}
    /\ Goto(w, "publish")
    /\ UNCHANGED <<threads, webThread, binding, receipt, copies, info, tasks, canceled,
                   ruling, announced, faults, archivals>>

\* ... and the request on the bus.
_projection(w) ==
    /\ worker[w].pc = "publish"
    /\ \/ announced' = announced \cup {worker[w].ev} /\ Goto(w, "complete")
          /\ UNCHANGED faults
       \/ Fault /\ Goto(w, "fail") /\ UNCHANGED announced
    /\ UNCHANGED <<threads, webThread, binding, receipt, copies, info, tasks, canceled,
                   ruling, projected, archivals>>

----
\* _stop() and _tool_confirmation()

\* The thread of the surface when the user owns it.
_owned_thread(w) ==
    IF owns_thread(Ev(w).user, binding[Surface(w)]) THEN binding[Surface(w)] ELSE None

Finish(w, t, k) ==
    worker' = [worker EXCEPT ![w] = [worker[w] EXCEPT !.pc = "complete", !.thread = t,
                                                      !.task = k]]

\* cancel_active_task(): one of the thread's tasks, if any, or an exception.
_stop(w) ==
    LET t == _owned_thread(w) IN
    /\ worker[w].pc = "stop"
    /\ \/ \E k \in {j \in tasks : j[1] = t} :
              /\ canceled' = canceled \cup {k}
              /\ Finish(w, t, k)
              /\ UNCHANGED faults
       \/ /\ Finish(w, t, None)
          /\ UNCHANGED <<canceled, faults>>
       \/ Fault /\ Goto(w, "fail") /\ UNCHANGED canceled
    /\ UNCHANGED <<threads, webThread, binding, receipt, copies, info, tasks, ruling,
                   projected, announced, archivals>>

\* get_task(): a request that is no longer pending is resolved.
LookUp(w) ==
    /\ worker[w].pc = "look"
    /\ worker' = [worker EXCEPT ![w] = [worker[w] EXCEPT !.thread = _owned_thread(w),
           !.pc = IF _owned_thread(w) = None \/ ruling[Ev(w).request] # "pending"
                  THEN "complete" ELSE "answer"]]
    /\ UNCHANGED <<data, receipt, copies, info, faults>>

\* continue_human_input(): a pending request takes the ruling; the call fails when
\* it is no longer pending, or fails with the ruling taken or not.
continue_human_input(w) ==
    LET q == Ev(w).request IN
    /\ worker[w].pc = "answer"
    /\ \/ /\ ruling[q] = "pending"
          /\ ruling' = [ruling EXCEPT ![q] = "ruled"]
          /\ Goto(w, "complete") /\ UNCHANGED faults
       \/ /\ ruling[q] # "pending"
          /\ Goto(w, "recheck") /\ UNCHANGED <<ruling, faults>>
       \/ /\ Fault
          /\ ruling' \in {ruling, [ruling EXCEPT ![q] = "ruled"]}
          /\ Goto(w, "recheck")
    /\ UNCHANGED <<threads, webThread, binding, receipt, copies, info, tasks, canceled,
                   projected, announced, archivals>>

\* The exception is passed on only while the request is still pending.
_tool_confirmation(w) ==
    /\ worker[w].pc = "recheck"
    /\ Goto(w, IF ruling[Ev(w).request] = "pending" THEN "fail" ELSE "complete")
    /\ UNCHANGED <<data, receipt, copies, info, faults>>

----
\* Receipts

\* The invocation stands for its claim token: it claims before it uses it.
OwnsReceipt(w) == worker[w].pc # "claim" /\ receipt[worker[w].ev].claim = w

\* complete_ingress(): a stale token raises.
complete_ingress(w) ==
    LET e == worker[w].ev IN
    /\ worker[w].pc = "complete"
    /\ IF OwnsReceipt(w)
       THEN /\ receipt' = [receipt EXCEPT ![e] = [status |-> "sent", claim |-> None,
                   live |-> FALSE, thread |-> worker[w].thread, task |-> worker[w].task]]
            /\ Return(w)
       ELSE Raise(w) /\ UNCHANGED receipt
    /\ UNCHANGED <<data, info, faults>>

\* Mutant: a failed receipt is not handed out again.
FailForGood(w) ==
    LET e == worker[w].ev IN
    /\ worker[w].pc = "fail"
    /\ receipt' = IF OwnsReceipt(w)
                  THEN [receipt EXCEPT ![e] = [receipt[e] EXCEPT !.status = "sent",
                            !.claim = None, !.live = FALSE]]
                  ELSE receipt
    /\ Raise(w)
    /\ UNCHANGED <<data, info, faults>>

\* fail_ingress(), then the exception goes on.
fail_ingress(w) ==
    LET e == worker[w].ev IN
    /\ worker[w].pc = "fail"
    /\ receipt' = IF OwnsReceipt(w)
                  THEN [receipt EXCEPT ![e] = [receipt[e] EXCEPT !.status = "failed",
                            !.claim = None, !.live = FALSE]]
                  ELSE receipt
    /\ Raise(w)
    /\ UNCHANGED <<data, info, faults>>

Crash(w) ==
    /\ worker[w].pc # "idle"
    /\ Fault
    /\ Raise(w)
    /\ UNCHANGED <<data, receipt, info>>

\* The lease of a receipt runs out; with its worker still at work, that is slow.
LeaseExpires(e) ==
    /\ receipt[e].status = "sending" /\ receipt[e].live
    /\ IF \E w \in Workers : worker[w].ev = e /\ OwnsReceipt(w)
       THEN Fault ELSE UNCHANGED faults
    /\ receipt' = [receipt EXCEPT ![e] = [receipt[e] EXCEPT !.live = FALSE]]
    /\ UNCHANGED <<data, copies, info, worker>>

----
Step(w) ==
    \/ claim_ingress(w) \/ Authorize(w) \/ _link_existing(w) \/ SelectBinding(w)
    \/ \E t \in Threads : get_or_create_surface_thread(w, t)
    \/ Send(w) \/ ensure_projection(w) \/ _projection(w)
    \/ _stop(w) \/ LookUp(w) \/ continue_human_input(w) \/ _tool_confirmation(w)
    \/ complete_ingress(w) \/ fail_ingress(w)

Next ==
    \/ \E e \in Events, i \in Inputs : handle_request(e, i)
    \/ \E e \in Events : LeaseExpires(e)
    \/ \E w \in Workers, e \in Events : Receive(w, e)
    \/ \E w \in Workers : Step(w) \/ Crash(w)
    \/ \E t \in Threads : archive_thread(t) \/ restore_thread(t)
    \/ \E u \in Users, t \in Threads : create_thread_idempotent(u, t)
    \/ \E q \in Requests : RuleElsewhere(q)

Spec == Init /\ [][Next]_vars

\* The queue delivers what it holds, workers go on, leases run out.
Fairness ==
    /\ \A w \in Workers : WF_vars(Step(w))
    /\ \A e \in Events : /\ WF_vars(\E w \in Workers : Receive(w, e))
                         /\ WF_vars(LeaseExpires(e))

FairSpec == Spec /\ Fairness

----
\* Properties

\* A Slack event gives at most one controller task, however often it is delivered,
\* and the task runs in a thread of its author, although the binding is read before
\* the claim and the Slack thread may be bound or linked by someone else meanwhile.
OneOwnTask ==
    /\ \A k, l \in tasks : k[2] = l[2] => k = l
    /\ \A k \in tasks : threads[k[1]].owner = info[k[2]].user

\* A receipt that is sent tells the truth after any crash or takeover: its task
\* exists and its projection was requested (a message), or the cancellation was
\* requested (a stop), or the request is ruled on (a confirmation).
SentIsDone ==
    \A e \in Arrived : receipt[e].status = "sent" =>
        /\ e \in Messages /\ receipt[e].thread # None =>
               receipt[e].task \in tasks /\ e \in announced
        /\ Kind(e) = "stop" /\ receipt[e].task # None => receipt[e].task \in canceled
        /\ Kind(e) = "confirm" /\ receipt[e].thread # None =>
               ruling[info[e].request] # "pending"

\* Racing first messages of a Slack thread leave one thread: every thread that the
\* Web did not create is the thread of a surface.
NoOrphanThread ==
    \A t \in Threads : threads[t].owner # None /\ t # webThread => \E s \in Surfaces : binding[s] = t

\* A thread was archived, so that a repeated turn of it is refused; or the turn of
\* the event did not reach the controller, or its Slack projection is requested.
Announced(e) ==
    \/ archivals > 0
    \/ \A t \in Threads : <<t, e>> \notin tasks
    \/ e \in announced

\* Every delivery of an event that was accepted is used up in the end, and a turn
\* that reached the controller is announced to Slack by then: no crash, refusal or
\* takeover between the two loses the answer (handle_domain_event(), _projection()).
EventSettles == \A e \in Events : e \in Arrived ~> copies[e] = 0 /\ Announced(e)

====
