---- MODULE CmaScheduler ----
(***************************************************************************)
(* The durable scheduler of one A2A context: cma_controller/scheduler.py    *)
(* over runtime_repository.py, against the CMA provider.                    *)
(*                                                                         *)
(* Grain of atomicity.  One database transaction is one step, one provider  *)
(* call is one step, and what a worker read earlier and uses later is kept  *)
(* in loc[w].  Reads that only the lease holder can invalidate are taken    *)
(* together with the step that uses them: a worker that lost its lease      *)
(* fails its next fenced update whatever it read.  What other actors can    *)
(* change (the cancellation mark, the queue, the provider history) is       *)
(* latched at the read.  A provider event id is the event's position in the *)
(* append-only history; 0 stands for NULL.                                  *)
(*                                                                         *)
(* Simplifications.  A task has at most one open tool review at a time, and *)
(* the rulings inside a review are the choice of the environment.  Message  *)
(* text, pending-input objects, push and preview hints are left out.        *)
(***************************************************************************)
EXTENDS Integers, Sequences, FiniteSets

CONSTANTS
    Tasks,        \* client messages; each becomes at most one A2A task
    Workers,      \* scheduler invocations that can run at the same time
    None,         \* NULL of a task or worker column
    MaxAttempts,  \* bound on dispatches of one task (operator retries)
    MaxCancels,   \* bound on the tasks that are cancelled
    MaxReviews,   \* bound on requires_action events in the session
    Failures,     \* statuses with which the provider may fail the session
    MaxFaults,    \* bound on crashes, unexpected exceptions and stalls of workers
    LateEffects   \* TRUE: a worker can outlive its lease, and the first
                  \* message of a session can be listed late.  FALSE is what
                  \* the deployment provides: a 60 s invocation limit under a
                  \* 60 s lease.

ASSUME NoneAssumption == None \notin Tasks /\ None \notin Workers

ASSUME BoundsAssumption ==
    /\ MaxAttempts \in Nat
    /\ MaxCancels \in Nat
    /\ MaxReviews \in Nat
    /\ MaxFaults \in Nat
    /\ Failures \subseteq {"idle_budget", "terminated", "budget_reached"}
    /\ LateEffects \in BOOLEAN

VARIABLES
    ctx,      \* the cma_contexts row
    task,     \* the cma_tasks rows; "absent" until admitted
    hist,     \* provider: the session's event history
    cma,      \* provider: sessions created, first message not yet listed
    loc,      \* per worker: program counter and values read earlier
    faults    \* crashes, exceptions and stalls so far

vars == <<ctx, task, hist, cma, loc, faults>>

----
\* Rows and values

InternalStates == {"absent", "queued", "dispatching", "waiting",
                   "input_required", "interrupting", "terminal"}

\* The task holds the context: activated and not yet finished.
Running == {"dispatching", "waiting", "input_required", "interrupting"}

A2aStates == {"absent", "SUBMITTED", "WORKING", "INPUT_REQUIRED",
              "COMPLETED", "FAILED", "CANCELED", "REJECTED"}

HeldReasons == {"none", "context-failed", "input-required",
                "ambiguous-create", "ambiguous-send", "ambiguous-dispatch",
                "ambiguous-confirmation", "ambiguous-interrupt",
                "initial-input-not-visible", "input-event-not-returned",
                "policy-unavailable"}

\* The tool review of a task: its row's status, decision and attempt mark.
RequestStates == {"none", "pending", "resolving", "resolved"}

Decisions == {"none", "allow", "deny"}

TaskRow == [internal_state: InternalStates, a2a_state: A2aStates,
            sequence: Nat, input_event: Nat, predecessor: Nat,
            cancel_requested: BOOLEAN, cancel_attempted: BOOLEAN,
            held_reason: HeldReasons, dispatch_attempts: Nat,
            request: RequestStates, asked: Nat, decision: Decisions,
            attempted: BOOLEAN]

NoTask == [internal_state |-> "absent", a2a_state |-> "absent",
           sequence |-> 0, input_event |-> 0, predecessor |-> 0,
           cancel_requested |-> FALSE, cancel_attempted |-> FALSE,
           held_reason |-> "none", dispatch_attempts |-> 0,
           request |-> "none", asked |-> 0, decision |-> "none",
           attempted |-> FALSE]

ContextRow == [cma_session: BOOLEAN,
               lifecycle_state: {"initializing", "ready", "failed"},
               active_task: Tasks \cup {None}, next_sequence: Nat,
               claim: Workers \cup {None}, lease_live: BOOLEAN]

\* Session and thread statuses, with the stop reason of an idle status.
\* "still_blocked" is a later requires_action status for the same tool use.
Statuses == {"running", "end_turn", "requires_action", "still_blocked",
             "idle_budget", "terminated", "budget_reached"}

\* user.message, user.interrupt and user.tool_confirmation with its result.
EventKinds == Statuses \cup {"message", "interrupt", "allow", "deny"}

\* task: whose message or confirmation it is; answers: the tool use, named by the event
\* that asks for it, that a confirmation answers (tool_use_id).
Event == [kind: EventKinds, task: Tasks \cup {None}, answers: Nat]

Pcs == {"idle", "reconcile", "activate", "find", "create", "attach",
        "initial", "send", "bind_sent", "bind_initial", "bind_found",
        "active", "recover", "confirmations", "mark_confirm", "confirm",
        "confirm_held", "confirm_lost", "resolve", "settle", "status",
        "running", "discover", "review", "policy", "recheck", "wait",
        "cancel", "mark", "interrupt", "fail_context", "finish", "clear",
        "hold", "release"}

\* snap: length of the last event listing; ev: an event id to store or to answer;
\* cancel: the cancellation mark as read; says: the decision to confirm;
\* out: the state or reason to store.
Local == [pc: Pcs, task: Tasks \cup {None}, snap: Nat, ev: Nat,
          cancel: BOOLEAN, says: Decisions, out: A2aStates \cup HeldReasons]

IdleLocal == [pc |-> "idle", task |-> None, snap |-> 0, ev |-> 0,
              cancel |-> FALSE, says |-> "none", out |-> "none"]

Init ==
    /\ ctx = [cma_session |-> FALSE, lifecycle_state |-> "initializing",
              active_task |-> None, next_sequence |-> 1,
              claim |-> None, lease_live |-> FALSE]
    /\ task = [t \in Tasks |-> NoTask]
    /\ hist = <<>>
    /\ cma = [sessions |-> 0, unlisted |-> None]
    /\ loc = [w \in Workers |-> IdleLocal]
    /\ faults = 0

----
\* Reading the provider history

\* Mutant: _after() keeps the cursor event itself.
EventsFrom(kinds, lo, hi) ==
    {i \in 1..Len(hist) : lo <= i /\ i <= hi /\ hist[i].kind \in kinds}

\* Positions lo+1 .. hi of the history that hold an event of one of the kinds.
EventsOf(kinds, lo, hi) ==
    {i \in 1..Len(hist) : lo < i /\ i <= hi /\ hist[i].kind \in kinds}

\* The first and the last of a set of positions; 0 (NULL) when it is empty.
FirstOf(S) ==
    IF \E i \in S : \A j \in S : i <= j THEN CHOOSE i \in S : \A j \in S : i <= j ELSE 0

LastOf(S) ==
    IF \E i \in S : \A j \in S : j <= i THEN CHOOSE i \in S : \A j \in S : j <= i ELSE 0

\* _latest_status over the events after lo of a listing of length hi.
LatestStatus(lo, hi) ==
    LET i == LastOf(EventsOf(Statuses, lo, hi))
    IN  IF i = 0 THEN "none" ELSE hist[i].kind

\* The session takes no more input.
Stopped == \E i \in 1..Len(hist) : hist[i].kind \in {"terminated", "budget_reached"}

\* The decision on the task's review is confirmed in the listing.
Confirmed(t, hi) ==
    \E i \in EventsOf({task[t].decision}, 0, hi) : hist[i].answers = task[t].asked

Answer(k, t, asked) == hist' = Append(hist, [kind |-> k, task |-> t, answers |-> asked])

Append1(k, t) == Answer(k, t, 0)

----
\* The A2A service: admission and cancellation

Queued(t) == task[t].internal_state = "queued"

\* Why admit() stores the new row as REJECTED, or "none".
Rejection ==
    IF /\ ctx.active_task # None
       /\ task[ctx.active_task].internal_state = "input_required"
    THEN "input-required"
    ELSE IF ctx.lifecycle_state = "failed" THEN "context-failed" ELSE "none"

\* admit(): one transaction takes the next sequence number and inserts the
\* row.  The first admission also creates the context row.  A repeated send
\* of the same message finds the row and changes nothing.
Admit(t) ==
    /\ task[t].internal_state = "absent"
    /\ task' = [task EXCEPT ![t] = [@ EXCEPT
           !.internal_state = IF Rejection = "none" THEN "queued" ELSE "terminal",
           !.a2a_state = IF Rejection = "none" THEN "SUBMITTED" ELSE "REJECTED",
           !.sequence = ctx.next_sequence,
           !.held_reason = Rejection]]
    /\ ctx' = [ctx EXCEPT !.next_sequence = @ + 1]
    /\ UNCHANGED <<hist, cma, loc, faults>>

\* cancel_task(): a queued task ends here; a running one gets the mark that
\* the scheduler acts on.
CancelTask(t) ==
    /\ Cardinality({u \in Tasks : task[u].cancel_requested \/ task[u].a2a_state = "CANCELED"})
          < MaxCancels
    /\ \/ /\ Queued(t)
          /\ task' = [task EXCEPT ![t] = [@ EXCEPT
                 !.internal_state = "terminal", !.a2a_state = "CANCELED"]]
       \/ /\ task[t].internal_state \in Running
          /\ ~task[t].cancel_requested
          /\ task' = [task EXCEPT ![t].cancel_requested = TRUE]
    /\ UNCHANGED <<ctx, hist, cma, loc, faults>>

----
\* The lease

\* Mutant: a claim is only taken from a worker that released it.
LeaseReleased == ctx.claim = None

LeaseFree == ctx.claim = None \/ ~ctx.lease_live

Owns(w) == ctx.claim = w /\ ctx.lease_live

At(w, p) == loc[w].pc = p

Goto(w, p) == loc' = [loc EXCEPT ![w].pc = p]

\* Go on with an outcome that a later step stores.
GotoWith(w, p, outcome) ==
    loc' = [loc EXCEPT ![w] = [@ EXCEPT !.pc = p, !.out = outcome]]

\* The task is to be held for the operator: the worker cannot tell whether a
\* provider call took effect.
Hold(w, reason) == GotoWith(w, "hold", reason)

ClaimScheduler(w) ==
    /\ At(w, "idle")
    /\ ctx.next_sequence > 1
    /\ LeaseFree
    /\ ctx' = [ctx EXCEPT !.claim = w, !.lease_live = TRUE]
    /\ Goto(w, "reconcile")
    /\ UNCHANGED <<task, hist, cma, faults>>

\* The finally clause of run_once(); it only clears the worker's own claim.
ReleaseScheduler(w) ==
    /\ At(w, "release")
    /\ ctx' = IF ctx.claim = w
              THEN [ctx EXCEPT !.claim = None, !.lease_live = FALSE]
              ELSE ctx
    /\ loc' = [loc EXCEPT ![w] = IdleLocal]
    /\ UNCHANGED <<task, hist, cma, faults>>

\* The lease runs out, of a dead worker or (a fault) of one that stalls.
LeaseExpires ==
    /\ ctx.claim # None
    /\ ctx.lease_live
    /\ \/ At(ctx.claim, "idle") /\ UNCHANGED faults
       \/ LateEffects /\ ~At(ctx.claim, "idle") /\ faults < MaxFaults /\ faults' = faults + 1
    /\ ctx' = [ctx EXCEPT !.lease_live = FALSE]
    /\ UNCHANGED <<task, hist, cma, loc>>

\* _fenced_update() found no live lease of this worker: LostSchedulerClaim
\* ends the run.  These are the steps whose next database write is fenced.
FencedPcs == {"activate", "attach", "bind_sent", "bind_initial", "bind_found",
              "recover", "confirm_held", "confirm_lost", "settle", "running",
              "policy", "wait", "mark", "fail_context", "finish", "clear", "hold"}

LoseClaim(w) ==
    /\ loc[w].pc \in FencedPcs
    /\ ~Owns(w)
    /\ Goto(w, "release")
    /\ UNCHANGED <<ctx, task, hist, cma, faults>>

\* Any read, write or provider listing may raise: the run ends and releases.
Raise(w) ==
    /\ loc[w].pc \notin {"idle", "release"}
    /\ faults < MaxFaults
    /\ faults' = faults + 1
    /\ Goto(w, "release")
    /\ UNCHANGED <<ctx, task, hist, cma>>

\* The process dies; the lease stays until it expires.
Crash(w) ==
    /\ ~At(w, "idle")
    /\ faults < MaxFaults
    /\ faults' = faults + 1
    /\ loc' = [loc EXCEPT ![w] = IdleLocal]
    /\ UNCHANGED <<ctx, task, hist, cma>>

----
\* _reconcile(): pick the active task or activate the next queued one

ReconcileActive(w) ==
    /\ At(w, "reconcile")
    /\ ctx.active_task # None
    /\ loc' = [loc EXCEPT ![w] = [@ EXCEPT
           !.pc = "active", !.task = ctx.active_task,
           !.cancel = task[ctx.active_task].cancel_requested]]
    /\ UNCHANGED <<ctx, task, hist, cma, faults>>

\* Mutant: next_queued() without its ORDER BY.
AnyQueued(t) == Queued(t)

\* next_queued(): the queued task with the lowest sequence number.
NextQueued(t) ==
    /\ Queued(t)
    /\ \A u \in Tasks : Queued(u) => task[t].sequence <= task[u].sequence

\* A failed context finishes its queued tasks without the provider; otherwise
\* the last listed event becomes the predecessor of the dispatch.
ReconcileQueued(w) ==
    /\ At(w, "reconcile")
    /\ ctx.active_task = None
    /\ \E t \in Tasks :
         /\ NextQueued(t)
         /\ loc' = [loc EXCEPT ![w] =
                IF ctx.lifecycle_state = "failed"
                THEN [@ EXCEPT !.pc = "finish", !.task = t, !.out = "FAILED"]
                ELSE [@ EXCEPT !.pc = "activate", !.task = t,
                               !.snap = IF ctx.cma_session THEN Len(hist) ELSE 0]]
    /\ UNCHANGED <<ctx, task, hist, cma, faults>>

ReconcileNothing(w) ==
    /\ At(w, "reconcile")
    /\ ctx.active_task = None
    /\ \A t \in Tasks : ~Queued(t)
    /\ Goto(w, "release")
    /\ UNCHANGED <<ctx, task, hist, cma, faults>>

\* Mutant: activate_task() does not ask whether the task is still queued.
ActivateAnyway(w) ==
    LET t == loc[w].task IN
    /\ At(w, "activate")
    /\ Owns(w)
    /\ ctx' = [ctx EXCEPT !.active_task = t]
    /\ task' = [task EXCEPT ![t] = [@ EXCEPT
           !.internal_state = "dispatching", !.predecessor = loc[w].snap,
           !.dispatch_attempts = task[t].dispatch_attempts + 1]]
    /\ Goto(w, IF ctx.cma_session THEN "send" ELSE "find")
    /\ UNCHANGED <<hist, cma, faults>>

\* activate_task(): pointer, marker and attempt count in one transaction; it
\* rolls back when the task left the queue since next_queued() read it.
ActivateTask(w) ==
    LET t == loc[w].task IN
    /\ At(w, "activate")
    /\ Owns(w)
    /\ \/ /\ ctx.active_task = None /\ Queued(t)
          /\ ctx' = [ctx EXCEPT !.active_task = t]
          /\ task' = [task EXCEPT ![t] = [@ EXCEPT
                 !.internal_state = "dispatching", !.predecessor = loc[w].snap,
                 !.dispatch_attempts = task[t].dispatch_attempts + 1]]
          /\ Goto(w, IF ctx.cma_session THEN "send" ELSE "find")
       \/ /\ ~(ctx.active_task = None /\ Queued(t))
          /\ Goto(w, "release")
          /\ UNCHANGED <<ctx, task>>
    /\ UNCHANGED <<hist, cma, faults>>

----
\* _dispatch(): the provider calls behind an activation

FindSession(w) ==
    /\ At(w, "find")
    /\ Goto(w, IF cma.sessions > 0 THEN "attach" ELSE "create")
    /\ UNCHANGED <<ctx, task, hist, cma, faults>>

\* A created session starts with the task's message, listed at once or late.
CreateSession(w) ==
    /\ At(w, "create")
    /\ \/ /\ \/ /\ Append1("message", loc[w].task)
                /\ cma' = [cma EXCEPT !.sessions = @ + 1]
             \/ /\ LateEffects
                /\ cma' = [sessions |-> cma.sessions + 1, unlisted |-> loc[w].task]
                /\ UNCHANGED hist
          /\ Goto(w, "attach") \/ Hold(w, "ambiguous-create")
       \/ /\ Hold(w, "ambiguous-create") \/ GotoWith(w, "fail_context", "FAILED")
          /\ UNCHANGED <<hist, cma>>
    /\ UNCHANGED <<ctx, task, faults>>

AttachSession(w) ==
    /\ loc[w].pc \in {"attach", "recover"}
    /\ Owns(w)
    /\ ctx' = [ctx EXCEPT !.cma_session = TRUE, !.lifecycle_state = "ready"]
    /\ Goto(w, IF At(w, "attach") THEN "initial" ELSE "active")
    /\ UNCHANGED <<task, hist, cma, faults>>

InitialInput(w) ==
    LET found == FirstOf(EventsOf({"message"}, 0, Len(hist))) IN
    /\ At(w, "initial")
    /\ IF found = 0
       THEN Hold(w, "initial-input-not-visible")
       ELSE loc' = [loc EXCEPT ![w] = [@ EXCEPT
                !.pc = "bind_initial", !.ev = found]]
    /\ UNCHANGED <<ctx, task, hist, cma, faults>>

\* Mutant: a send without an answer is simply sent again.
SendAgain(w) ==
    /\ At(w, "send")
    /\ ~Stopped
    /\ Append1("message", loc[w].task)
    /\ UNCHANGED <<ctx, task, cma, loc, faults>>

SendMessage(w) ==
    /\ At(w, "send")
    /\ \/ /\ ~Stopped
          /\ Append1("message", loc[w].task)
          /\ \/ loc' = [loc EXCEPT ![w] = [@ EXCEPT
                    !.pc = "bind_sent", !.ev = Len(hist) + 1]]
             \/ Hold(w, "input-event-not-returned")
             \/ Hold(w, "ambiguous-send")
       \/ /\ Hold(w, "ambiguous-send") \/ GotoWith(w, "finish", "FAILED")
          /\ UNCHANGED hist
    /\ UNCHANGED <<ctx, task, cma, faults>>

\* _bind_input(), with the re-read of the task that follows it.
BindInput(w) ==
    LET t == loc[w].task IN
    /\ loc[w].pc \in {"bind_sent", "bind_initial", "bind_found"}
    /\ Owns(w)
    /\ task' = [task EXCEPT ![t] = [@ EXCEPT
           !.input_event = loc[w].ev, !.internal_state = "waiting",
           !.a2a_state = "WORKING", !.held_reason = "none"]]
    /\ loc' = [loc EXCEPT ![w] = [@ EXCEPT
           !.cancel = task[t].cancel_requested,
           !.pc = CASE At(w, "bind_sent") -> "release"
                    [] At(w, "bind_initial") -> "active"
                    [] At(w, "bind_found") ->
                         IF task[t].cancel_requested THEN "cancel" ELSE "confirmations"]]
    /\ UNCHANGED <<ctx, hist, cma, faults>>

----
\* _reconcile_active(): recover the session, the input, then act on the status

\* Mutant: a session that is not found is created again.
CreateMissing(w) ==
    /\ At(w, "active")
    /\ ~ctx.cma_session
    /\ Goto(w, IF cma.sessions > 0 THEN "recover" ELSE "create")
    /\ UNCHANGED <<ctx, task, hist, cma, faults>>

RecoverSession(w) ==
    /\ At(w, "active")
    /\ ~ctx.cma_session
    /\ IF cma.sessions > 0 THEN Goto(w, "recover") ELSE Hold(w, "ambiguous-create")
    /\ UNCHANGED <<ctx, task, hist, cma, faults>>

\* Mutant: an unbound task whose message is not listed is sent again.
ResendMissing(w) ==
    /\ At(w, "active")
    /\ ctx.cma_session
    /\ Goto(w, IF task[loc[w].task].input_event = 0 THEN "send" ELSE "status")
    /\ UNCHANGED <<ctx, task, hist, cma, faults>>

\* An unbound task takes the first message after its predecessor.
ListActive(w) ==
    LET t == loc[w].task
        candidate == FirstOf(EventsOf({"message"}, task[t].predecessor, Len(hist)))
    IN
    /\ At(w, "active")
    /\ ctx.cma_session
    /\ IF task[t].input_event = 0 /\ candidate = 0
       THEN Hold(w, "ambiguous-dispatch")
       ELSE loc' = [loc EXCEPT ![w] = [@ EXCEPT
                !.snap = Len(hist),
                !.ev = IF task[t].input_event = 0 THEN candidate ELSE 0,
                !.pc = IF task[t].input_event = 0 THEN "bind_found"
                       ELSE IF loc[w].cancel THEN "cancel" ELSE "confirmations"]]
    /\ UNCHANGED <<ctx, task, hist, cma, faults>>

\* The second listing and the decision taken on its latest status.
ReadStatus(w) ==
    LET t == loc[w].task
        status == LatestStatus(task[t].input_event, Len(hist))
        unresolved == task[t].request \in {"pending", "resolving"}
    IN
    /\ At(w, "status")
    /\ CASE status = "none" -> Goto(w, "release")
         [] unresolved /\ status \in {"running", "end_turn", "idle_budget"} ->
              loc' = [loc EXCEPT ![w] = [@ EXCEPT !.pc = "review", !.snap = Len(hist)]]
         [] status \in {"requires_action", "still_blocked"} ->
              loc' = [loc EXCEPT ![w] = [@ EXCEPT !.pc = "discover", !.snap = Len(hist)]]
         [] status \in {"terminated", "budget_reached"}
            \/ (~unresolved /\ status = "idle_budget") ->
              GotoWith(w, "fail_context", "FAILED")
         [] ~unresolved /\ status = "end_turn" -> GotoWith(w, "finish", "COMPLETED")
         [] ~unresolved /\ status = "running" -> Goto(w, "running")
    /\ UNCHANGED <<ctx, task, hist, cma, faults>>

\* Mutant: the update is not fenced by the lease.
SetRunningUnfenced(w) ==
    /\ At(w, "running")
    /\ task' = [task EXCEPT ![loc[w].task] = [@ EXCEPT
           !.internal_state = "waiting", !.a2a_state = "WORKING"]]
    /\ Goto(w, "release")
    /\ UNCHANGED <<ctx, hist, cma, faults>>

SetRunning(w) ==
    /\ At(w, "running")
    /\ Owns(w)
    /\ task' = [task EXCEPT ![loc[w].task] = [@ EXCEPT
           !.internal_state = "waiting", !.a2a_state = "WORKING"]]
    /\ Goto(w, "release")
    /\ UNCHANGED <<ctx, hist, cma, faults>>

\* Mutant: the insert replaces a row that exists.
ReopenReview(w) ==
    /\ At(w, "discover")
    /\ task' = [task EXCEPT ![loc[w].task] = [@ EXCEPT
           !.request = "pending", !.decision = "none", !.attempted = FALSE,
           !.asked = LastOf(EventsOf({"requires_action"}, 0, loc[w].snap))]]
    /\ Goto(w, "review")
    /\ UNCHANGED <<ctx, hist, cma, faults>>

\* add_input_request(): a no-op without the lease or when the row exists.
DiscoverReview(w) ==
    LET t == loc[w].task
        asked == LastOf(EventsOf({"requires_action"}, 0, loc[w].snap))
    IN
    /\ At(w, "discover")
    /\ task' = IF Owns(w) /\ task[t].asked # asked
               THEN [task EXCEPT ![t] = [@ EXCEPT !.request = "pending", !.asked = asked,
                                         !.decision = "none", !.attempted = FALSE]]
               ELSE task
    /\ Goto(w, "review")
    /\ UNCHANGED <<ctx, hist, cma, faults>>

\* The guards under which a review row may be decided or offered.
MayDecide(w, t) ==
    /\ Owns(w)
    /\ ctx.active_task = t
    /\ task[t].internal_state # "terminal"
    /\ ~task[t].cancel_requested

\* _evaluate_policy() short of a decision.  A cancelled task ends the pass, and
\* so does a policy failure, which is stored first; a reviewer is asked; a pass
\* short of lease time leaves the row as it is.  Publishing under lost guards
\* raises LostSchedulerClaim.
EvaluateReview(w) ==
    LET t == loc[w].task
        pending == task[t].request = "pending"
        Then(p, outs) == \E o \in outs : GotoWith(w, p, o)
    IN
    /\ At(w, "review")
    /\ \/ ~pending /\ Then("recheck", {"WORKING"})
       \/ pending /\ task[t].cancel_requested /\ Then("wait", {"WORKING", "INPUT_REQUIRED"})
       \/ /\ pending /\ ~task[t].cancel_requested
          /\ \/ Then("recheck", {"WORKING", "INPUT_REQUIRED"})
             \/ Then("policy", {"INPUT_REQUIRED", "policy-unavailable"})
       \/ pending /\ ~MayDecide(w, t) /\ Goto(w, "release")
    /\ UNCHANGED <<ctx, task, hist, cma, faults>>

\* record_policy_decision(): the decision is committed before the provider is
\* told.
RecordDecision(w) ==
    LET t == loc[w].task IN
    /\ At(w, "review")
    /\ task[t].request = "pending"
    /\ MayDecide(w, t)
    /\ \E d \in {"allow", "deny"} :
         task' = [task EXCEPT ![t] = [@ EXCEPT !.request = "resolving", !.decision = d]]
    /\ GotoWith(w, "policy", "WORKING")
    /\ UNCHANGED <<ctx, hist, cma, faults>>

\* The hold that an evaluation sets or clears.
StorePolicyHold(w) ==
    LET failed == loc[w].out = "policy-unavailable" IN
    /\ At(w, "policy")
    /\ Owns(w)
    /\ task' = [task EXCEPT ![loc[w].task].held_reason =
                    IF failed THEN "policy-unavailable" ELSE "none"]
    /\ IF failed THEN GotoWith(w, "wait", "WORKING") ELSE Goto(w, "recheck")
    /\ UNCHANGED <<ctx, hist, cma, faults>>

\* The task is read again before its confirmations are sent.
Recheck(w) ==
    /\ At(w, "recheck")
    /\ Goto(w, IF task[loc[w].task].cancel_requested THEN "release" ELSE "confirmations")
    /\ UNCHANGED <<ctx, task, hist, cma, faults>>

\* _set_waiting_state(): a review is still open to its human, or was ruled on
\* since it was offered.
SetWaiting(w) ==
    LET t == loc[w].task IN
    /\ At(w, "wait")
    /\ Owns(w)
    /\ \E human \in {FALSE, loc[w].out = "INPUT_REQUIRED" /\ task[t].request = "pending"} :
         task' = [task EXCEPT ![t] = [@ EXCEPT
             !.internal_state = IF human THEN "input_required" ELSE "waiting",
             !.a2a_state = IF human THEN "INPUT_REQUIRED" ELSE "WORKING"]]
    /\ Goto(w, "release")
    /\ UNCHANGED <<ctx, hist, cma, faults>>

----
\* _reconcile_confirmations(): run before the status is read, after a review
\* pass, and for a cancelled task whose session still waits for a review

\* A resolving review is settled by evidence in the listing, held when its one
\* confirmation was attempted without evidence, else attempted now.
ReconcileConfirmations(w) ==
    LET t == loc[w].task IN
    /\ At(w, "confirmations")
    /\ Goto(w, IF task[t].request # "resolving" THEN "settle"
               ELSE IF Confirmed(t, loc[w].snap) THEN "resolve"
               ELSE IF ~task[t].attempted THEN "mark_confirm"
               ELSE IF task[t].held_reason = "ambiguous-confirmation" THEN "settle"
               ELSE "confirm_held")
    /\ UNCHANGED <<ctx, task, hist, cma, faults>>

\* mark_confirmation_attempted(): the attempt is committed before the call, and
\* an allow only while the task is not cancelled.
MarkConfirmation(w) ==
    LET t == loc[w].task
        may == /\ Owns(w)
               /\ ctx.active_task = t
               /\ task[t].internal_state # "terminal"
               /\ task[t].request = "resolving" /\ ~task[t].attempted
               /\ \/ task[t].decision = "deny"
                  \/ task[t].decision = "allow" /\ ~task[t].cancel_requested
    IN
    /\ At(w, "mark_confirm")
    /\ task' = IF may THEN [task EXCEPT ![t].attempted = TRUE] ELSE task
    /\ loc' = [loc EXCEPT ![w] = IF may THEN [@ EXCEPT !.pc = "confirm", !.says = task[t].decision,
                                                              !.ev = task[t].asked]
                                  ELSE [@ EXCEPT !.pc = "settle"]]
    /\ UNCHANGED <<ctx, hist, cma, faults>>

ConfirmTool(w) ==
    /\ At(w, "confirm")
    /\ \/ /\ ~Stopped
          /\ Answer(loc[w].says, loc[w].task, loc[w].ev)
          /\ Goto(w, "resolve") \/ Goto(w, "confirm_lost")
       \/ /\ Goto(w, "confirm_lost") \/ GotoWith(w, "fail_context", "FAILED")
          /\ UNCHANGED hist
    /\ UNCHANGED <<ctx, task, cma, faults>>

\* An attempted confirmation without evidence holds the task; after a lost
\* answer the history is listed once more.
HoldConfirmation(w) ==
    LET t == loc[w].task IN
    /\ loc[w].pc \in {"confirm_held", "confirm_lost"}
    /\ Owns(w)
    /\ task' = [task EXCEPT ![t].held_reason = "ambiguous-confirmation"]
    /\ Goto(w, IF At(w, "confirm_lost") /\ Confirmed(t, Len(hist)) THEN "resolve" ELSE "settle")
    /\ UNCHANGED <<ctx, hist, cma, faults>>

\* resolve_input_request(): a no-op without the lease.
ResolveReview(w) ==
    LET t == loc[w].task IN
    /\ At(w, "resolve")
    /\ task' = IF Owns(w) /\ task[t].request = "resolving"
               THEN [task EXCEPT ![t].request = "resolved"] ELSE task
    /\ Goto(w, "settle")
    /\ UNCHANGED <<ctx, hist, cma, faults>>

\* A hold on a review that is settled by now is cleared.  Then the run of a
\* cancelled task ends, the first pass reads the status, the second waits.
SettleHold(w) ==
    LET t == loc[w].task
        settled == \/ /\ task[t].held_reason = "ambiguous-confirmation"
                      /\ task[t].request # "resolving"
                   \/ /\ task[t].held_reason = "policy-unavailable"
                      /\ task[t].request \in {"none", "resolved"}
    IN
    /\ At(w, "settle")
    /\ settled => Owns(w)
    /\ task' = IF settled THEN [task EXCEPT ![t].held_reason = "none"] ELSE task
    /\ Goto(w, IF loc[w].cancel THEN "release"
               ELSE IF loc[w].out \in {"WORKING", "INPUT_REQUIRED"} THEN "wait" ELSE "status")
    /\ UNCHANGED <<ctx, hist, cma, faults>>

----
\* _reconcile_cancel(): interrupt once, then wait for the session to go idle

\* The first interrupt after the task's input in the worker's listing, or 0.
InterruptAt(w) ==
    FirstOf(EventsOf({"interrupt"}, task[loc[w].task].input_event, loc[w].snap))

\* The latest status after that interrupt.
AfterInterrupt(w) ==
    IF InterruptAt(w) = 0 THEN "none" ELSE LatestStatus(InterruptAt(w), loc[w].snap)

CancelSettled(w) ==
    /\ At(w, "cancel")
    /\ AfterInterrupt(w) \in {"end_turn", "idle_budget", "terminated"}
    /\ GotoWith(w, "finish", "CANCELED")
    /\ UNCHANGED <<ctx, task, hist, cma, faults>>

\* The interrupted session still waits for a review: deny a stored one that
\* was not attempted, then send or look up its confirmation.
CancelBlocked(w) ==
    LET t == loc[w].task
        deny == /\ \/ task[t].request = "pending"
                   \/ task[t].request = "resolving" /\ ~task[t].attempted
                /\ Owns(w)
                /\ ctx.active_task = t
                /\ task[t].internal_state # "terminal"
    IN
    /\ At(w, "cancel")
    /\ AfterInterrupt(w) \in {"requires_action", "still_blocked"}
    /\ task' = IF deny
               THEN [task EXCEPT ![t] = [@ EXCEPT !.request = "resolving", !.decision = "deny"]]
               ELSE task
    /\ Goto(w, "confirmations")
    /\ UNCHANGED <<ctx, hist, cma, faults>>

\* Mutant: a marked interrupt that was not seen is not held.
ReleaseMarked(w) ==
    /\ At(w, "cancel")
    /\ AfterInterrupt(w) \in {"none", "running", "budget_reached"}
    /\ Goto(w, IF task[loc[w].task].cancel_attempted THEN "release" ELSE "mark")
    /\ UNCHANGED <<ctx, task, hist, cma, faults>>

\* No idle status yet: mark the one interrupt, or hold on the marked one.
CancelOpen(w) ==
    LET t == loc[w].task IN
    /\ At(w, "cancel")
    /\ AfterInterrupt(w) \in {"none", "running", "budget_reached"}
    /\ IF task[t].cancel_attempted
       THEN IF task[t].held_reason = "ambiguous-interrupt"
            THEN Goto(w, "release")
            ELSE Hold(w, "ambiguous-interrupt")
       ELSE Goto(w, "mark")
    /\ UNCHANGED <<ctx, task, hist, cma, faults>>

MarkInterrupt(w) ==
    /\ At(w, "mark")
    /\ Owns(w)
    /\ task' = [task EXCEPT ![loc[w].task] = [@ EXCEPT
           !.cancel_attempted = TRUE, !.internal_state = "interrupting"]]
    /\ Goto(w, "interrupt")
    /\ UNCHANGED <<ctx, hist, cma, faults>>

Interrupt(w) ==
    /\ At(w, "interrupt")
    /\ \/ /\ ~Stopped
          /\ Append1("interrupt", None)
          /\ Goto(w, "release") \/ Hold(w, "ambiguous-interrupt")
       \/ /\ Hold(w, "ambiguous-interrupt") \/ GotoWith(w, "fail_context", "FAILED")
          /\ UNCHANGED hist
    /\ UNCHANGED <<ctx, task, cma, faults>>

----
\* Fenced updates that end a run

HoldTask(w) ==
    /\ At(w, "hold")
    /\ Owns(w)
    /\ task' = [task EXCEPT ![loc[w].task].held_reason = loc[w].out]
    /\ Goto(w, "release")
    /\ UNCHANGED <<ctx, hist, cma, faults>>

\* Mutant: the task's state is written to the context's column.
FailContextMisspelt(w) ==
    /\ At(w, "fail_context")
    /\ Owns(w)
    /\ ctx' = [ctx EXCEPT !.lifecycle_state = loc[w].out]
    /\ Goto(w, "finish")
    /\ UNCHANGED <<task, hist, cma, faults>>

FailContext(w) ==
    /\ At(w, "fail_context")
    /\ Owns(w)
    /\ ctx' = [ctx EXCEPT !.lifecycle_state = "failed"]
    /\ Goto(w, "finish")
    /\ UNCHANGED <<task, hist, cma, faults>>

\* _finish() is two transactions: the task row first ...
FinishTask(w) ==
    /\ At(w, "finish")
    /\ Owns(w)
    /\ task' = [task EXCEPT ![loc[w].task] = [@ EXCEPT
           !.internal_state = "terminal", !.a2a_state = loc[w].out,
           !.held_reason = "none"]]
    /\ Goto(w, "clear")
    /\ UNCHANGED <<ctx, hist, cma, faults>>

\* ... then the context's pointer to it.
ClearActive(w) ==
    /\ At(w, "clear")
    /\ Owns(w)
    /\ ctx' = [ctx EXCEPT !.active_task = None]
    /\ Goto(w, "release")
    /\ UNCHANGED <<task, hist, cma, faults>>

----
\* The operator: ControllerAdmin.resolve() claims, resolves and releases.

Held(t) ==
    /\ ctx.active_task = t
    /\ task[t].held_reason # "none"
    /\ task[t].internal_state # "terminal"

AdminFail(t) ==
    /\ LeaseFree
    /\ Held(t)
    /\ task' = [task EXCEPT ![t] = [@ EXCEPT
           !.internal_state = "terminal", !.a2a_state = "FAILED", !.held_reason = "none"]]
    /\ ctx' = [ctx EXCEPT
           !.active_task = None, !.claim = None, !.lease_live = FALSE,
           !.lifecycle_state = IF ctx.cma_session THEN @ ELSE "failed"]
    /\ UNCHANGED <<hist, cma, loc, faults>>

\* The operator looked at the provider: the task's message is not in the
\* history.
VerifiedAbsent(t) == \A i \in 1..Len(hist) : hist[i].kind = "message" => hist[i].task # t

AdminRetry(t) ==
    /\ LeaseFree
    /\ Held(t)
    /\ task[t].held_reason \in {"ambiguous-send", "ambiguous-dispatch"}
    /\ task[t].input_event = 0
    /\ ctx.cma_session
    /\ ~task[t].cancel_requested
    /\ VerifiedAbsent(t)
    /\ task[t].dispatch_attempts < MaxAttempts
    /\ task' = [task EXCEPT ![t] = [@ EXCEPT
           !.internal_state = "queued", !.a2a_state = "SUBMITTED",
           !.held_reason = "none", !.predecessor = 0]]
    /\ ctx' = [ctx EXCEPT !.active_task = None, !.claim = None, !.lease_live = FALSE]
    /\ UNCHANGED <<hist, cma, loc, faults>>

----
\* The provider (external): what the scheduler may find in the history

ProviderListsInitial ==
    /\ cma.unlisted # None
    /\ Append1("message", cma.unlisted)
    /\ cma' = [cma EXCEPT !.unlisted = None]
    /\ UNCHANGED <<ctx, task, loc, faults>>

LastKind == IF hist = <<>> THEN "none" ELSE hist[Len(hist)].kind

ProviderRuns ==
    /\ LastKind \in {"message", "allow", "deny"}
    /\ Append1("running", None)
    /\ UNCHANGED <<ctx, task, cma, loc, faults>>

\* A started or resumed turn comes to rest.
ProviderRests(stop) ==
    /\ LastKind \in {"message", "running", "allow", "deny"}
    /\ stop = "requires_action" =>
          Cardinality(EventsOf({"requires_action"}, 0, Len(hist))) < MaxReviews
    /\ Append1(stop, None)
    /\ UNCHANGED <<ctx, task, cma, loc, faults>>

\* An interrupted session goes idle; one that was waiting for a review may
\* still wait for it.
ProviderYields ==
    /\ LastKind = "interrupt"
    /\ \/ Append1("end_turn", None)
       \/ /\ LatestStatus(0, Len(hist)) = "requires_action"
          /\ Append1("still_blocked", None)
    /\ UNCHANGED <<ctx, task, cma, loc, faults>>

ProviderStops ==
    /\ hist # <<>>
    /\ ~Stopped
    /\ \E kind \in Failures \ {"idle_budget"} : Append1(kind, None)
    /\ UNCHANGED <<ctx, task, cma, loc, faults>>

----

\* One step of a worker that is not a fault.
Step(w) ==
    \/ ReleaseScheduler(w) \/ LoseClaim(w)
    \/ ReconcileActive(w) \/ ReconcileQueued(w) \/ ReconcileNothing(w)
    \/ ActivateTask(w) \/ FindSession(w) \/ CreateSession(w)
    \/ AttachSession(w) \/ InitialInput(w) \/ SendMessage(w) \/ BindInput(w)
    \/ RecoverSession(w) \/ ListActive(w)
    \/ ReadStatus(w) \/ SetRunning(w) \/ DiscoverReview(w)
    \/ EvaluateReview(w) \/ RecordDecision(w) \/ StorePolicyHold(w)
    \/ Recheck(w) \/ SetWaiting(w)
    \/ ReconcileConfirmations(w) \/ MarkConfirmation(w) \/ ConfirmTool(w)
    \/ HoldConfirmation(w) \/ ResolveReview(w) \/ SettleHold(w)
    \/ CancelSettled(w) \/ CancelBlocked(w) \/ CancelOpen(w)
    \/ MarkInterrupt(w) \/ Interrupt(w)
    \/ HoldTask(w) \/ FailContext(w) \/ FinishTask(w) \/ ClearActive(w)

Provider ==
    \/ ProviderListsInitial
    \/ ProviderRuns
    \/ \E stop \in {"end_turn", "requires_action"} \cup (Failures \cap {"idle_budget"}) :
          ProviderRests(stop)
    \/ ProviderYields
    \/ ProviderStops

Next ==
    \/ \E t \in Tasks : Admit(t) \/ CancelTask(t) \/ AdminFail(t) \/ AdminRetry(t)
    \/ \E w \in Workers : ClaimScheduler(w) \/ Step(w) \/ Raise(w) \/ Crash(w)
    \/ LeaseExpires
    \/ Provider

Spec == Init /\ [][Next]_vars

\* Fairness.  A started run goes on, and runs keep being started (the
\* delayed wakeup of a run with an active task and SQS redelivery); a dead worker's lease expires; the
\* provider brings a turn to rest; reviews that stay open are eventually
\* decided; the operator resolves what list-held shows, retrying the command
\* while the lease is busy.
FairSpec ==
    /\ Spec
    /\ \A w \in Workers : WF_vars(ClaimScheduler(w)) /\ WF_vars(Step(w))
    /\ \A w \in Workers : SF_vars(RecordDecision(w))
    /\ WF_vars(LeaseExpires)
    /\ WF_vars(ProviderListsInitial)
    /\ WF_vars(ProviderRests("end_turn")) /\ WF_vars(ProviderYields)
    /\ \A t \in Tasks : SF_vars(AdminFail(t))

----
\* Properties

\* A worker past its first read has a task in hand, and what it is about to
\* store fits the column.
LocalFits(r) ==
    /\ r.pc \notin {"idle", "reconcile", "release"} => r.task \in Tasks
    /\ r.pc = "confirm" => r.says \in {"allow", "deny"}
    /\ r.pc = "hold" => r.out \in HeldReasons
    /\ r.pc \in {"fail_context", "finish"} => r.out \in A2aStates

LocalOK ==
    /\ loc \in [Workers -> Local]
    /\ \A w \in Workers : LocalFits(loc[w])

\* Every row, event and worker-local value stays in its column's domain.
TypeOK ==
    /\ ctx \in ContextRow
    /\ task \in [Tasks -> TaskRow]
    /\ hist \in Seq(Event)
    /\ cma \in [sessions: Nat, unlisted: Tasks \cup {None}]
    /\ LocalOK
    /\ faults \in Nat

\* A task that is dispatching, waiting, asking or interrupting is the one the
\* context points to, so at most one task runs: activate_task() and _finish()
\* keep the two tables in step across crashes and lost leases.
RunningIsActive ==
    \A t \in Tasks : task[t].internal_state \in Running => ctx.active_task = t

\* No queued task is older than the active one ("the earliest nonterminal Task
\* is active"), through cancellations, operator retries and lease takeovers.
EarliestActive ==
    ctx.active_task # None =>
        \A u \in Tasks : Queued(u) => task[ctx.active_task].sequence < task[u].sequence

\* The messages the provider accepted for a task.
Sent(t) == {i \in 1..Len(hist) : hist[i].kind = "message" /\ hist[i].task = t}

\* Write-ahead markers of the calls that must not be repeated: the provider never
\* holds more messages of a task than activate_task() committed attempts, so a task
\* cancelled in the queue is never sent and a crash never resends; and never more
\* interrupts than tasks whose cancel_attempted was committed.
CallsMarked ==
    /\ \A t \in Tasks :
          Cardinality(Sent(t)) + (IF cma.unlisted = t THEN 1 ELSE 0)
              <= task[t].dispatch_attempts
    /\ Cardinality(EventsOf({"interrupt"}, 0, Len(hist)))
           <= Cardinality({t \in Tasks : task[t].cancel_attempted})

\* _dispatch() creates at most one CMA session for a context, whatever creates
\* fail, time out or are recovered by find_session().
OneSession == cma.sessions <= 1

\* With retries only after a verified absence, a task's message is accepted
\* at most once.
AcceptedOnce == \A t \in Tasks : Cardinality(Sent(t)) <= 1

\* The input event a task is bound to, by answer or by recovery from history,
\* is that task's own message.
InputIsOwn ==
    \A t \in Tasks :
        task[t].input_event # 0 =>
            /\ task[t].input_event \in 1..Len(hist)
            /\ hist[task[t].input_event].kind = "message"
            /\ hist[task[t].input_event].task = t

\* No review of a task is confirmed twice, after lost answers and crashes too, and
\* what was confirmed is the decision on file: a stop that turns a decision into a
\* denial comes before the attempt or not at all.
ConfirmedAsDecided ==
    LET sent == EventsOf({"allow", "deny"}, 0, Len(hist))
    IN  /\ \A i, j \in sent :
               hist[i].task = hist[j].task /\ hist[i].answers = hist[j].answers => i = j
        /\ \A i \in sent, t \in Tasks :
               hist[i].task = t /\ hist[i].answers = task[t].asked =>
                   hist[i].kind = task[t].decision

\* A task that is finished and released by the context is never reopened, by
\* no late worker and no operator command.
SettledStays ==
    [][\A t \in Tasks :
         task[t].internal_state = "terminal" /\ ctx.active_task # t
             => task'[t].internal_state = "terminal"]_vars

\* The task that was admitted under a number.
AdmittedAt(n) ==
    CHOOSE t \in Tasks : task[t].internal_state # "absent" /\ task[t].sequence = n

\* The rows implement ContextQueue: the sequence numbers are the order of admission, and
\* the context's pointer is the turn.  However crashes, lost leases, cancellations and
\* operator retries interleave, no task overtakes, has its turn beside another or comes
\* back after its end.
Queue == INSTANCE ContextQueue WITH
    admitted <- [n \in 1..(ctx.next_sequence - 1) |-> AdmittedAt(n)],
    waiting <- {t \in Tasks : Queued(t)},
    turn <- ctx.active_task

QueueSpec == Queue!Spec

\* The context points to a finished task that carries a hold: the scheduler
\* waits for the operator, and list_held_tasks() does not show the task.
Wedged ==
    \E t \in Tasks :
        /\ ctx.active_task = t
        /\ task[t].internal_state = "terminal"
        /\ task[t].held_reason # "none"

\* A cancelled task whose interrupted session still asks, or asks again, for a
\* review that was never stored: _reconcile_cancel() has nothing to deny and never holds.
Unanswerable ==
    \E t \in Tasks :
        /\ ctx.active_task = t
        /\ task[t].cancel_requested
        /\ LatestStatus(0, Len(hist)) \in {"still_blocked", "requires_action"}
        /\ task[t].request \in {"none", "resolved"}

\* Every queued task leaves the queue, unless a crash inside _finish() left the
\* context wedged for good.
QueueMoves == \A t \in Tasks : Queued(t) ~> (~Queued(t) \/ []Wedged)

\* A running task that the user cancelled ends, through lost answers, crashes
\* and open reviews, unless its review can never be answered.
CancelMoves ==
    \A t \in Tasks :
        task[t].cancel_requested
            ~> (task[t].internal_state = "terminal" \/ []Unanswerable)

\* Every queued task leaves the queue.
QueueDrains == \A t \in Tasks : Queued(t) ~> ~Queued(t)

====
