---- MODULE TaskView ----
(***************************************************************************)
(* What a client sees of a task: ControllerService.get_task (service.py)    *)
(* reads the row and then the provider's history, build_task (task_view.py) *)
(* cuts the task's own part out of it, and CmaA2ARequestHandler._watch       *)
(* (request_handler.py) tells a subscriber what is new, while the scheduler, *)
(* the operator and the provider work on the tasks of the context.          *)
(*                                                                         *)
(* A task is named by its sequence number and an event id is the event's    *)
(* position in the history; 0 is NULL.  The row, the history and the marker *)
(* are read in separate steps.  What the scheduler does between activation  *)
(* and its bound input is CmaScheduler's: here it is Dispatch and BindInput. *)
(* The operator fails a held task when its session is at rest.              *)
(***************************************************************************)
EXTENDS Integers, Sequences, FiniteSets

CONSTANTS
    MaxTasks,    \* tasks of the context, all admitted
    MaxTexts,    \* bound on the agent messages of the session
    MaxAsks,     \* bound on the times it asks for input
    MaxFails,    \* bound on held tasks that the operator fails
    Watchers,    \* subscriptions
    Unread       \* no marker was read yet

Tasks == 1..MaxTasks

ASSUME ViewAssumption ==
    /\ MaxTasks \in Nat /\ MaxTexts \in Nat /\ MaxAsks \in Nat /\ MaxFails \in Nat
    /\ Unread \notin [updated : Nat, state : STRING, start : Nat]

VARIABLES
    hist,    \* provider: the session's events
    tasks,   \* the cma_tasks rows
    active,  \* the context's active_task_id
    fails,   \* tasks failed by the operator
    watch    \* per subscription: program counter, what it read and what it told

viewVars == <<hist, tasks, active, fails, watch>>

----
\* Rows and values

Terminal == {"COMPLETED", "FAILED"}
Boundary == Terminal \cup {"INPUT_REQUIRED"}
States == Boundary \cup {"SUBMITTED", "WORKING"}
Kinds == {"user", "agent", "running", "requires_action", "end_turn"}

Event == [kind : Kinds, task : Tasks]

\* updated stands for updated_at.
TaskRow == [state : States, start : Nat, end : Nat, updated : Nat]
NewRow == [state |-> "SUBMITTED", start |-> 0, end |-> 0, updated |-> 0]

Marker == [updated : Nat, state : States, start : Nat]
MarkerOf(r) == [updated |-> r.updated, state |-> r.state, start |-> r.start]

\* The status with the message it carries.
Status == [state : States, message : Nat]

NewWatch == [pc |-> "new", task |-> 0, row |-> NewRow, next |-> Unread, marker |-> Unread,
             due |-> FALSE, view |-> {}, emitted |-> {}, told |-> <<>>,
             status |-> [state |-> "SUBMITTED", message |-> 0]]

ViewInit ==
    /\ hist = <<>>
    /\ tasks = [t \in Tasks |-> NewRow]
    /\ active = 0
    /\ fails = 0
    /\ watch = [c \in Watchers |-> NewWatch]

----
\* The provider (external)

Count(k) == Cardinality({i \in 1..Len(hist) : hist[i].kind = k})

LastKind == hist[Len(hist)].kind
LastTask == hist[Len(hist)].task

InTurn == Len(hist) > 0 /\ LastKind \in {"user", "agent", "running"}

Append1(k, t) == hist' = Append(hist, [kind |-> k, task |-> t])

ProviderSays ==
    /\ InTurn /\ Count("agent") < MaxTexts
    /\ Append1("agent", LastTask)
    /\ UNCHANGED <<tasks, active, fails, watch>>

ProviderRests ==
    /\ InTurn
    /\ \/ Append1("end_turn", LastTask)
       \/ /\ Count("requires_action") < MaxAsks
          /\ Append1("requires_action", LastTask)
    /\ UNCHANGED <<tasks, active, fails, watch>>

\* The answer of a human or of the policy reached the session.
ProviderResumes ==
    /\ Len(hist) > 0 /\ LastKind = "requires_action" /\ active = LastTask
    /\ Append1("running", LastTask)
    /\ UNCHANGED <<tasks, active, fails, watch>>

----
\* The scheduler and the operator, as far as a view can tell

Update(t, r) == tasks' = [tasks EXCEPT ![t] = [r EXCEPT !.updated = @ + 1]]

\* activate_task and send_message: the next task in order.
Dispatch(t) ==
    /\ active = 0 /\ ~InTurn
    /\ tasks[t].state = "SUBMITTED" /\ tasks[t].start = 0
    /\ \A s \in Tasks : s < t => tasks[s].state # "SUBMITTED"
    /\ active' = t
    /\ Append1("user", t)
    /\ Update(t, tasks[t])
    /\ UNCHANGED <<fails, watch>>

_bind_input(t) ==
    /\ active = t /\ tasks[t].start = 0
    /\ \E i \in 1..Len(hist) :
          /\ hist[i] = [kind |-> "user", task |-> t]
          /\ Update(t, [tasks[t] EXCEPT !.start = i, !.state = "WORKING"])
    /\ UNCHANGED <<hist, active, fails, watch>>

\* _latest_status after the task's input: the event of kind k at i.
Latest(t, k, i) ==
    /\ active = t /\ tasks[t].start > 0 /\ i > tasks[t].start
    /\ hist[i].kind = k
    /\ \A j \in (i + 1)..Len(hist) : hist[j].kind \in {"user", "agent"}

\* A repeated update of a row that is WORKING already only moves the marker.
_set_running(t) ==
    /\ tasks[t].state = "INPUT_REQUIRED"
    /\ \E i \in 1..Len(hist) : Latest(t, "running", i)
    /\ Update(t, [tasks[t] EXCEPT !.state = "WORKING"])
    /\ UNCHANGED <<hist, active, fails, watch>>

_set_waiting_state(t) ==
    /\ tasks[t].state = "WORKING"
    /\ \E i \in 1..Len(hist) : Latest(t, "requires_action", i)
    /\ Update(t, [tasks[t] EXCEPT !.state = "INPUT_REQUIRED"])
    /\ UNCHANGED <<hist, active, fails, watch>>

_finish(t) ==
    /\ \E i \in 1..Len(hist) :
          /\ Latest(t, "end_turn", i)
          /\ Update(t, [tasks[t] EXCEPT !.state = "COMPLETED", !.end = i])
    /\ active' = 0
    /\ UNCHANGED <<hist, fails, watch>>

\* resolve_held_task("fail"): any active task may be held; a bound one is when its
\* interrupt or its confirmation was lost.  cma_terminal_event_id is not set.
resolve_held_task(t) ==
    /\ active = t /\ ~InTurn /\ fails < MaxFails
    /\ Update(t, [tasks[t] EXCEPT !.state = "FAILED"])
    /\ active' = 0
    /\ fails' = fails + 1
    /\ UNCHANGED <<hist, watch>>

----
\* get_task and build_task

\* The task's own part of the history: from its input to its last status.
Slice(r, h) ==
    {i \in 1..Len(h) :
        /\ r.start > 0 /\ i >= r.start
        /\ r.end > 0 => i <= r.end
        /\ h[i].kind \in {"user", "agent"}}

Texts(v, h) == {i \in v : h[i].kind = "agent"}

MaxOf(s) == IF s = {} THEN 0 ELSE CHOOSE i \in s : \A j \in s : j <= i

\* A completed task's status carries its last message.
StatusOf(r, v, h) ==
    [state |-> r.state,
     message |-> IF r.state = "COMPLETED" THEN MaxOf(Texts(v, h)) ELSE 0]

----
\* _watch

WatchAt(c, pc) == watch[c].pc = pc

WatchGoto(c, w, pc) == watch' = [watch EXCEPT ![c] = [w EXCEPT !.pc = pc]]

\* on_subscribe_to_task.
Subscribe(c, t) ==
    /\ WatchAt(c, "new")
    /\ WatchGoto(c, [watch[c] EXCEPT !.task = t], "row")
    /\ UNCHANGED <<hist, tasks, active, fails>>

\* _SNAPSHOT_SECONDS have passed since the last full read.
SnapshotDue(c) ==
    /\ WatchAt(c, "marker") /\ ~watch[c].due
    /\ WatchGoto(c, [watch[c] EXCEPT !.due = TRUE], "marker")
    /\ UNCHANGED <<hist, tasks, active, fails>>

\* Mutant: only a changed marker leads to a full read.
MarkerOnly(c) == MarkerOf(tasks[watch[c].task]) # watch[c].marker

FullRead(c) == MarkerOf(tasks[watch[c].task]) # watch[c].marker \/ watch[c].due

watch_marker(c) ==
    /\ WatchAt(c, "marker")
    /\ FullRead(c)
    /\ WatchGoto(c, [watch[c] EXCEPT !.next = MarkerOf(tasks[watch[c].task])], "row")
    /\ UNCHANGED <<hist, tasks, active, fails>>

_get_task(c) ==
    /\ WatchAt(c, "row")
    /\ WatchGoto(c, [watch[c] EXCEPT !.row = tasks[watch[c].task]], "events")
    /\ UNCHANGED <<hist, tasks, active, fails>>

\* Messages of a view that were not told before.
Unseen(w, v) == v \ w.emitted

\* The events of a set in the order of the history.
InOrder(s) ==
    CHOOSE q \in [1..Cardinality(s) -> s] : \A i, j \in DOMAIN q : i < j => q[i] < q[j]

\* Mutant: at a boundary only the status is told.
TellStatusOnly(c, w, v, status) ==
    WatchGoto(c, [w EXCEPT !.view = v, !.marker = w.next, !.row = NewRow, !.next = Unread,
                      !.due = FALSE, !.status = status,
                      !.emitted = IF status.state \in Boundary THEN @
                                  ELSE @ \cup Texts(v, hist)],
         IF status.state \in Boundary THEN "closed" ELSE "marker")

\* The rest of the loop: tell what is new, the messages before the status, and
\* return at a boundary.
Tell(c, w, v, status) ==
    WatchGoto(c, [w EXCEPT !.view = v, !.marker = w.next, !.row = NewRow, !.next = Unread,
                      !.due = FALSE, !.emitted = @ \cup Texts(v, hist), !.status = status,
                      !.told = @ \o InOrder(Unseen(w, Texts(v, hist)))],
         IF status.state \in Boundary THEN "closed" ELSE "marker")

build_task(c) ==
    /\ WatchAt(c, "events")
    /\ LET v == Slice(watch[c].row, hist)
       IN Tell(c, watch[c], v, StatusOf(watch[c].row, v, hist))
    /\ UNCHANGED <<hist, tasks, active, fails>>

\* The deadline of _WATCH_SECONDS, a failed read or a client that left.
Break(c) ==
    /\ watch[c].pc \in {"marker", "row", "events"}
    /\ WatchGoto(c, watch[c], "broken")
    /\ UNCHANGED <<hist, tasks, active, fails>>

----
Provider == ProviderSays \/ ProviderRests \/ ProviderResumes

Controller(t) ==
    \/ Dispatch(t) \/ _bind_input(t) \/ _set_running(t)
    \/ _set_waiting_state(t) \/ _finish(t) \/ resolve_held_task(t)

Watch(c) == watch_marker(c) \/ _get_task(c) \/ build_task(c)

ViewNext ==
    \/ Provider
    \/ \E t \in Tasks : Controller(t)
    \/ \E c \in Watchers :
          \/ \E t \in Tasks : Subscribe(c, t)
          \/ SnapshotDue(c) \/ Watch(c) \/ Break(c)

ViewSpec == ViewInit /\ [][ViewNext]_viewVars

\* A subscription goes on, and its timer of five seconds runs out.
ViewFairSpec ==
    ViewSpec /\ \A c \in Watchers : WF_viewVars(Watch(c)) /\ WF_viewVars(SnapshotDue(c))

----
\* Properties

Open(c) == watch[c].pc \in {"marker", "row", "events"}

OwnTexts(t) == {i \in 1..Len(hist) : hist[i] = [kind |-> "agent", task |-> t]}

ViewTypeOK ==
    /\ hist \in Seq(Event)
    /\ tasks \in [Tasks -> TaskRow]
    /\ \A t \in Tasks : tasks[t].start \in 0..Len(hist) /\ tasks[t].end \in 0..Len(hist)
    /\ active \in {0} \cup Tasks
    /\ fails \in 0..MaxFails
    /\ \A c \in Watchers :
          LET w == watch[c]
          IN /\ w.pc \in {"new", "marker", "row", "events", "closed", "broken"}
             /\ w.task \in {0} \cup Tasks
             /\ w.row \in TaskRow
             /\ w.next \in {Unread} \cup Marker /\ w.marker \in {Unread} \cup Marker
             /\ w.due \in BOOLEAN
             /\ w.view \subseteq 1..Len(hist) /\ w.emitted \subseteq 1..Len(hist)
             /\ w.told \in Seq(1..Len(hist))
             /\ w.status \in Status

\* A subscriber gets the messages in the order of the history and none twice, the
\* ones of its first view included; and a subscription that returns because the task
\* completed has told all of them, and its status carries the last one: nothing that
\* was stored before the row changed is lost between the reads.  Nor is anything of
\* another turn in the view of a completed task, however its neighbours ended.
WatchComplete ==
    \A c \in Watchers :
        /\ watch[c].status.state = "COMPLETED" =>
              \A i \in watch[c].view : hist[i].task = watch[c].task
        /\ \A i, j \in 1..Len(watch[c].told) :
              i < j => watch[c].told[i] < watch[c].told[j]
        /\ WatchAt(c, "closed") /\ watch[c].status.state = "COMPLETED" =>
              /\ OwnTexts(watch[c].task) \subseteq watch[c].emitted
              /\ watch[c].status.message = MaxOf(OwnTexts(watch[c].task))

\* The task is bound and has a message that its subscriber was not told.
Untold(c) ==
    /\ tasks[watch[c].task].start > 0
    /\ ~ (OwnTexts(watch[c].task) \subseteq watch[c].emitted)

\* A message that is stored while the row does not change is told all the same,
\* unless the subscription ends first (the full read after _SNAPSHOT_SECONDS).
WatchTells == \A c \in Watchers : (Open(c) /\ Untold(c)) ~> (~Open(c) \/ ~Untold(c))
====
