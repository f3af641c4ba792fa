---- MODULE ThreadContext ----
(***************************************************************************)
(* A turn of an application thread: ThreadAgentService.send_turn over the   *)
(* agent_threads and agent_tasks rows (Python, for Slack) and               *)
(* ThreadService.send over the same rows (TypeScript, for the Web), with     *)
(* the controller's idempotent admission behind a connection that loses      *)
(* requests and answers.                                                    *)
(*                                                                         *)
(* A context is named by the message that created it (creation_message_id   *)
(* is unique) and a task by <<context, message>> (that pair is unique).      *)
(* One database transaction or one side of an HTTP call is one step.        *)
(***************************************************************************)
EXTENDS Integers, FiniteSets

CONSTANTS
    Threads,      \* application threads
    Msgs,         \* client messages; a message id is used in one thread only
    ThreadOf,     \* the thread of each message
    PyProcs,      \* Slack input workers (service.py)
    TsProcs,      \* Web Function invocations (service.ts)
    None,         \* NULL
    MaxFaults     \* bound on lost requests, crashes, slow holders, duplicates

Procs == PyProcs \cup TsProcs

ASSUME ThreadAssumption ==
    /\ ThreadOf \in [Msgs -> Threads]
    /\ None \notin Msgs \cup (Msgs \X Msgs)
    /\ MaxFaults \in Nat

VARIABLES
    thread,     \* agent_threads: the context columns
    logical,    \* agent_tasks: the submission of each message
    contexts,   \* controller: contexts that exist
    tasks,      \* controller: tasks that exist
    pushed,     \* controller: tasks with the application's push configuration
    wire,       \* requests <<context or None, message>> on their way
    turn,       \* per worker: program counter and what it read
    claims,     \* claim ids handed out
    expired,    \* claim ids whose lease ran out
    acked,      \* messages for which send returned the task
    faults      \* faults so far

vars == <<thread, logical, contexts, tasks, pushed, wire, turn, claims, expired,
          acked, faults>>

----
\* Rows and values

Tasks == Msgs \X Msgs

ThreadRow == [state: {"uninitialized", "initializing", "ready"},
              context: Msgs \cup {None}, claim: Nat, live: BOOLEAN]

\* submission_status with task_id; "none" is no row.
LogicalRow == [status: {"none", "pending", "bound"}, task: Tasks \cup {None}]

\* From the claim on, a worker may hold one.
Holding == {"send", "wait", "bindContext", "release"}

Pcs == {"idle", "record", "claim", "bindTask", "push"} \cup Holding

\* context: as read or claimed; claim: the claim id held, 0 for none; task: the
\* controller's answer.
Turn == [pc: Pcs, msg: Msgs \cup {None}, context: Msgs \cup {None}, claim: Nat,
         task: Tasks \cup {None}]

IdleTurn == [pc |-> "idle", msg |-> None, context |-> None, claim |-> 0, task |-> None]

TypeOK ==
    /\ thread \in [Threads -> ThreadRow]
    /\ logical \in [Msgs -> LogicalRow]
    /\ contexts \subseteq Msgs
    /\ tasks \subseteq Tasks
    /\ pushed \subseteq tasks
    /\ wire \subseteq (Msgs \cup {None}) \X Msgs
    /\ turn \in [Procs -> Turn]
    /\ claims \in Nat
    /\ expired \subseteq 1..claims
    /\ acked \subseteq Msgs
    /\ faults \in 0..MaxFaults

Init ==
    /\ thread = [t \in Threads |-> [state |-> "uninitialized", context |-> None,
                                    claim |-> 0, live |-> FALSE]]
    /\ logical = [m \in Msgs |-> [status |-> "none", task |-> None]]
    /\ contexts = {} /\ tasks = {} /\ pushed = {} /\ wire = {}
    /\ turn = [p \in Procs |-> IdleTurn]
    /\ claims = 0 /\ expired = {} /\ acked = {} /\ faults = 0

Fault == faults < MaxFaults /\ faults' = faults + 1

\* The worker's thread.
Of(p) == ThreadOf[turn[p].msg]

Goto(p, there) == turn' = [turn EXCEPT ![p] = [turn[p] EXCEPT !.pc = there]]

End(p) == turn' = [turn EXCEPT ![p] = IdleTurn]

----
\* The turn: send_turn() and send()

\* get_thread() reads the context.  A message is sent until its sender has the
\* task; one more delivery after that is a fault of the queue or the client.
Start(p, m) ==
    /\ turn[p].pc = "idle"
    /\ \/ m \notin acked /\ UNCHANGED faults
       \/ m \in acked /\ Fault
    /\ turn' = [turn EXCEPT ![p] = [pc |-> "record", msg |-> m, claim |-> 0,
                    context |-> thread[ThreadOf[m]].context, task |-> None]]
    /\ UNCHANGED <<thread, logical, contexts, tasks, pushed, wire, claims, expired, acked>>

\* record_logical_send(): the row is inserted once.
record_logical_send(p) ==
    LET m == turn[p].msg IN
    /\ turn[p].pc = "record"
    /\ logical' = IF logical[m].status = "none"
                  THEN [logical EXCEPT ![m] = [status |-> "pending", task |-> None]]
                  ELSE logical
    /\ Goto(p, IF turn[p].context = None THEN "claim" ELSE "send")
    /\ UNCHANGED <<thread, contexts, tasks, pushed, wire, claims, expired, acked, faults>>

\* Mutant: a claim is never taken over.
ClaimableOnce(t) == thread[t].state = "uninitialized"

\* The row can be claimed: never claimed, released, or the lease ran out.
Claimable(t) ==
    \/ thread[t].state = "uninitialized"
    \/ thread[t].state = "initializing" /\ ~thread[t].live

ClaimAcquired(p) ==
    LET t == Of(p) IN
    /\ turn[p].pc = "claim"
    /\ Claimable(t)
    /\ claims' = claims + 1
    /\ thread' = [thread EXCEPT ![t] = [state |-> "initializing", context |-> None,
                                        claim |-> claims + 1, live |-> TRUE]]
    /\ turn' = [turn EXCEPT ![p] = [turn[p] EXCEPT !.pc = "send", !.claim = claims + 1]]
    /\ UNCHANGED <<logical, contexts, tasks, pushed, wire, expired, acked, faults>>

ClaimReady(p) ==
    LET t == Of(p) IN
    /\ turn[p].pc = "claim"
    /\ ~Claimable(t)
    /\ thread[t].state = "ready"
    /\ turn' = [turn EXCEPT ![p] = [turn[p] EXCEPT !.pc = "send",
                                                   !.context = thread[t].context]]
    /\ UNCHANGED <<thread, logical, contexts, tasks, pushed, wire, claims, expired,
                   acked, faults>>

\* After eleven busy answers the turn fails and its sender retries it.
ClaimBusy(p) ==
    /\ turn[p].pc = "claim"
    /\ ~Claimable(Of(p))
    /\ thread[Of(p)].state # "ready"
    /\ End(p)
    /\ UNCHANGED <<thread, logical, contexts, tasks, pushed, wire, claims, expired,
                   acked, faults>>

\* claim_context_initialization() and its loop.
claim_context_initialization(p) == ClaimAcquired(p) \/ ClaimReady(p) \/ ClaimBusy(p)

\* The request is on its way; equal requests need not be told apart, for
\* admission is idempotent.
send_message(p) ==
    /\ turn[p].pc = "send"
    /\ wire' = wire \cup {<<turn[p].context, turn[p].msg>>}
    /\ Goto(p, "wait")
    /\ UNCHANGED <<thread, logical, contexts, tasks, pushed, claims, expired, acked, faults>>

\* The context admit() uses for a request and the task it returns.
ContextFor(r) == IF r[1] = None THEN r[2] ELSE r[1]

TaskFor(r) == <<ContextFor(r), r[2]>>

\* admit() at the controller: create the context or look it up, return the
\* existing task of this context and message or create it.
AdmitRequest(r) ==
    /\ r \in wire
    /\ wire' = wire \ {r}
    /\ contexts' = contexts \cup {ContextFor(r)}
    /\ tasks' = tasks \cup {TaskFor(r)}
    /\ UNCHANGED <<thread, logical, pushed, turn, claims, expired, acked, faults>>

\* The answer arrives: the controller has admitted the request.
Answer(p) ==
    LET r == <<turn[p].context, turn[p].msg>> IN
    /\ turn[p].pc = "wait"
    /\ r \notin wire
    /\ TaskFor(r) \in tasks
    /\ turn' = [turn EXCEPT ![p] = [turn[p] EXCEPT !.task = TaskFor(r),
                    !.pc = IF turn[p].claim # 0 THEN "bindContext" ELSE "bindTask"]]
    /\ UNCHANGED <<thread, logical, contexts, tasks, pushed, wire, claims, expired,
                   acked, faults>>

\* The controller refuses the request before admission.
Refuse(p) ==
    LET r == <<turn[p].context, turn[p].msg>> IN
    /\ turn[p].pc = "wait"
    /\ r \in wire
    /\ Fault
    /\ wire' = wire \ {r}
    /\ IF turn[p].claim # 0 THEN Goto(p, "release") ELSE End(p)
    /\ UNCHANGED <<thread, logical, contexts, tasks, pushed, claims, expired, acked>>

\* Mutant: any failed send releases the claim.
TimeoutReleases(p) ==
    /\ turn[p].pc = "wait"
    /\ Fault
    /\ IF turn[p].claim # 0 THEN Goto(p, "release") ELSE End(p)
    /\ UNCHANGED <<thread, logical, contexts, tasks, pushed, wire, claims, expired, acked>>

\* No answer ever comes: the request was lost.
Unanswered(p) ==
    LET r == <<turn[p].context, turn[p].msg>> IN
    /\ turn[p].pc = "wait"
    /\ r \notin wire
    /\ TaskFor(r) \notin tasks

\* The client gives up waiting.  The request may still be admitted, so the
\* claim stays until its lease runs out.
Timeout(p) ==
    /\ turn[p].pc = "wait"
    /\ IF Unanswered(p) THEN UNCHANGED faults ELSE Fault
    /\ End(p)
    /\ UNCHANGED <<thread, logical, contexts, tasks, pushed, wire, claims, expired, acked>>

\* A request never reaches the controller.
LoseRequest(r) ==
    /\ r \in wire
    /\ Fault
    /\ wire' = wire \ {r}
    /\ UNCHANGED <<thread, logical, contexts, tasks, pushed, turn, claims, expired, acked>>

OwnsClaim(p) ==
    /\ thread[Of(p)].state = "initializing"
    /\ thread[Of(p)].claim = turn[p].claim

\* release_context_initialization(), then the exception goes on.
release_context_initialization(p) ==
    /\ turn[p].pc = "release"
    /\ thread' = IF OwnsClaim(p)
                 THEN [thread EXCEPT ![Of(p)] = [state |-> "uninitialized",
                           context |-> None, claim |-> 0, live |-> FALSE]]
                 ELSE thread
    /\ End(p)
    /\ UNCHANGED <<logical, contexts, tasks, pushed, wire, claims, expired, acked, faults>>

\* UNIQUE (agent_id, context_id)
Unbound(c) == \A u \in Threads : thread[u].context # c

\* A stale claim is fine when the thread has this very context already.
BoundTo(t, c) == thread[t].state = "ready" /\ thread[t].context = c

\* Mutant: a late answer replaces the context of a thread that is ready.
BindContextOver(p) ==
    LET t == Of(p) IN
    /\ turn[p].pc = "bindContext"
    /\ IF (OwnsClaim(p) /\ thread[t].live) \/ thread[t].state = "ready"
       THEN /\ thread' = [thread EXCEPT ![t] = [state |-> "ready",
                             context |-> turn[p].task[1], claim |-> 0, live |-> FALSE]]
            /\ Goto(p, "bindTask")
       ELSE End(p) /\ UNCHANGED thread
    /\ UNCHANGED <<logical, contexts, tasks, pushed, wire, claims, expired, acked, faults>>

\* bind_context(): only under the claim and before its lease runs out.
bind_context(p) ==
    LET t == Of(p)
        c == turn[p].task[1]
    IN
    /\ turn[p].pc = "bindContext"
    /\ \/ /\ OwnsClaim(p) /\ thread[t].live /\ Unbound(c)
          /\ thread' = [thread EXCEPT ![t] = [state |-> "ready", context |-> c,
                                              claim |-> 0, live |-> FALSE]]
          /\ turn' = [turn EXCEPT ![p] = [turn[p] EXCEPT !.pc = "bindTask",
                                                         !.claim = 0]]
       \/ /\ ~(OwnsClaim(p) /\ thread[t].live)
          /\ BoundTo(t, c)
          /\ turn' = [turn EXCEPT ![p] = [turn[p] EXCEPT !.pc = "bindTask",
                                                         !.claim = 0]]
          /\ UNCHANGED thread
       \/ /\ ~(OwnsClaim(p) /\ thread[t].live /\ Unbound(c))
          /\ ~BoundTo(t, c)
          /\ End(p)                                        \* BindingConflict
          /\ UNCHANGED thread
    /\ UNCHANGED <<logical, contexts, tasks, pushed, wire, claims, expired, acked, faults>>

\* bind_task_id(): NULL to a task once; the same task again is fine.
bind_task_id(p) ==
    LET m == turn[p].msg
        k == turn[p].task
    IN
    /\ turn[p].pc = "bindTask"
    /\ \/ /\ logical[m].status = "pending"
          /\ \A n \in Msgs : logical[n].task # k           \* UNIQUE (agent_id, task_id)
          /\ logical' = [logical EXCEPT ![m] = [status |-> "bound", task |-> k]]
          /\ Goto(p, "push")
       \/ /\ logical[m] = [status |-> "bound", task |-> k]
          /\ Goto(p, "push")
          /\ UNCHANGED logical
       \/ /\ logical[m] # [status |-> "bound", task |-> k]
          /\ ~(logical[m].status = "pending" /\ \A n \in Msgs : logical[n].task # k)
          /\ End(p)                                        \* BindingConflict
          /\ UNCHANGED logical
    /\ UNCHANGED <<thread, contexts, tasks, pushed, wire, claims, expired, acked, faults>>

\* Mutant: a failed push setup is taken for success.
PushSwallowed(p) ==
    /\ turn[p].pc = "push"
    /\ \/ pushed' = pushed \cup {turn[p].task} /\ UNCHANGED faults
       \/ Fault /\ UNCHANGED pushed
    /\ acked' = acked \cup {turn[p].msg}
    /\ End(p)
    /\ UNCHANGED <<thread, logical, contexts, tasks, wire, claims, expired>>

\* create_push_config(); a failure fails the turn although its task is bound.
create_push_config(p) ==
    /\ turn[p].pc = "push"
    /\ \/ /\ pushed' = pushed \cup {turn[p].task}
          /\ acked' = acked \cup {turn[p].msg}
          /\ UNCHANGED faults
       \/ Fault /\ UNCHANGED <<pushed, acked>>
    /\ End(p)
    /\ UNCHANGED <<thread, logical, contexts, tasks, wire, claims, expired>>

----
\* Python and TypeScript run the same steps on the same rows.

send_turn(p) ==
    \/ record_logical_send(p) \/ claim_context_initialization(p)
    \/ send_message(p) \/ Answer(p) \/ bind_context(p)
    \/ release_context_initialization(p) \/ bind_task_id(p) \/ create_push_config(p)

logicalSend(p) == record_logical_send(p)
claim(p) == claim_context_initialization(p)
bindContext(p) == bind_context(p)
release(p) == release_context_initialization(p)
bindTask(p) == bind_task_id(p)

send(p) ==
    \/ logicalSend(p) \/ claim(p) \/ send_message(p) \/ Answer(p)
    \/ bindContext(p) \/ release(p) \/ bindTask(p) \/ create_push_config(p)

Step(p) == (p \in PyProcs /\ send_turn(p)) \/ (p \in TsProcs /\ send(p))

----
\* Environment

\* The worker is killed or an exception leaves it; its claim stays.
Crash(p) ==
    /\ turn[p].pc # "idle"
    /\ Fault
    /\ End(p)
    /\ UNCHANGED <<thread, logical, contexts, tasks, pushed, wire, claims, expired, acked>>

HolderOf(t) ==
    {p \in Procs : /\ turn[p].pc \in Holding /\ Of(p) = t
                   /\ turn[p].claim = thread[t].claim}

\* The lease runs out; while its holder is at work that is a slow holder.
ClaimExpires(t) ==
    /\ thread[t].state = "initializing" /\ thread[t].live
    /\ \/ HolderOf(t) = {} /\ UNCHANGED faults
       \/ HolderOf(t) # {} /\ Fault
    /\ thread' = [thread EXCEPT ![t] = [thread[t] EXCEPT !.live = FALSE]]
    /\ expired' = expired \cup {thread[t].claim}
    /\ UNCHANGED <<logical, contexts, tasks, pushed, wire, turn, claims, acked>>

Next ==
    \/ \E p \in Procs, m \in Msgs : Start(p, m)
    \/ \E p \in Procs : Step(p) \/ Refuse(p) \/ Timeout(p) \/ Crash(p)
    \/ \E r \in (Msgs \cup {None}) \X Msgs : AdmitRequest(r) \/ LoseRequest(r)
    \/ \E t \in Threads : ClaimExpires(t)

Spec == Init /\ [][Next]_vars

\* Workers go on, requests arrive, leases run out, and a message is sent again
\* (by the queue or the browser) until its sender has the task.
Fairness ==
    /\ \A p \in Procs : WF_vars(Step(p) \/ (Unanswered(p) /\ Timeout(p)))
    /\ WF_vars(\E p \in Procs, m \in Msgs : m \notin acked /\ Start(p, m))
    /\ WF_vars(\E r \in (Msgs \cup {None}) \X Msgs : AdmitRequest(r))
    /\ \A t \in Threads : WF_vars(ClaimExpires(t))

FairSpec == Spec /\ Fairness

----
\* Properties

\* A task bound to a message is the controller's task for this message in the
\* context the thread has, whatever claims expired and answers came late.
BoundTaskInContext ==
    \A m \in Msgs : logical[m].status = "bound" =>
        /\ thread[ThreadOf[m]].state = "ready"
        /\ logical[m].task = <<thread[ThreadOf[m]].context, m>>
        /\ logical[m].task \in tasks

\* Nobody takes an initialization claim away before its lease has run out: its
\* holder can still bind the context the controller gave it.
LiveClaimKept ==
    \A p \in Procs : turn[p].pc \in Holding /\ turn[p].claim # 0
                     /\ turn[p].claim \notin expired => OwnsClaim(p)

\* A conversation splits, that is a thread has two controller contexts or a message
\* two tasks, only when an initialization claim ran out: failed and repeated sends
\* alone never do it.
SplitOnlyAfterExpiry ==
    expired = {} =>
        /\ \A c, d \in contexts : ThreadOf[c] = ThreadOf[d] => c = d
        /\ \A k, l \in tasks : k[2] = l[2] => k = l

\* When send returned a task, the row of the message is bound to it and the
\* controller will notify the application of it.
AckedIsComplete ==
    \A m \in acked : logical[m].status = "bound" /\ logical[m].task \in pushed

\* The rows implement ThreadBinding: one context per thread and one task per
\* message, bound once and never changed.
Bindings == INSTANCE ThreadBinding WITH
    Contexts <- Msgs,
    context <- [t \in Threads |-> thread[t].context],
    task <- [m \in Msgs |-> logical[m].task]

BindingSpec == Bindings!AbstractSpec

\* Every message ends with its sender holding the task, whatever the bounded
\* faults: a retry with the same message id always gets through.
EveryTurnAcked == \A m \in Msgs : <>(m \in acked)

====
