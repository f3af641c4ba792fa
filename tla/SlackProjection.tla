---- MODULE SlackProjection ----
(***************************************************************************)
(* Projection of one task into one Slack thread: slack_projector.py over    *)
(* the slack_task_projections row and the slack_projection_items receipts   *)
(* of slack_a2a_repository.py, with the optional preview worker             *)
(* (apps/slack-preview) on the same row.                                    *)
(*                                                                         *)
(* Items are numbered: 1..MaxMsgs are agent messages in their order, the    *)
(* numbers above are human-input requests.  A card is a Slack stream, named *)
(* by its number; 0 is NULL.  A claim token is named by the invocation that *)
(* drew it.  One database transaction or one Slack call is one step.        *)
(***************************************************************************)
EXTENDS Integers, FiniteSets, Sequences

CONSTANTS
    MaxMsgs,      \* bound on the agent messages of the task
    MaxReqs,      \* bound on its human-input requests
    Workers,      \* concurrent projector invocations
    Previews,     \* preview workers
    MaxUpdates,   \* bound on the titles a preview worker writes (40 in the code)
    None,         \* NULL as a claim
    Gone,         \* the claim of an invocation that ended without releasing it
    MaxFaults     \* bound on failed calls, crashes and slow workers

Msgs == 1..MaxMsgs
Reqs == (MaxMsgs + 1)..(MaxMsgs + MaxReqs)
Items == Msgs \cup Reqs

ASSUME ProjectionAssumption ==
    /\ MaxMsgs \in Nat /\ MaxReqs \in Nat /\ MaxFaults \in Nat /\ MaxUpdates \in Nat
    /\ Workers \cap Previews = {}
    /\ None # Gone /\ {None, Gone} \cap (Workers \cup Previews) = {}

VARIABLES
    task,       \* the controller's task, as get_task() returns it
    row,        \* the slack_task_projections row
    item,       \* the slack_projection_items receipts
    cards,      \* Slack: the streams ever started, open or stopped
    posts,      \* Slack: how often each item was posted
    control,    \* Slack: the buttons of each request
    shown,      \* Slack: version of the task behind the last status written
    notices,    \* projection events are still to be delivered
    worker,     \* per projector: program counter and what it read
    preview,    \* per preview worker: the same
    overrun,    \* some worker was slower than its lease
    doubt,      \* some Slack call was made without its outcome being recorded
    faults      \* faults so far

vars == <<task, row, item, cards, posts, control, shown, notices, worker, preview,
          overrun, doubt, faults>>

slackVars == <<cards, posts, control, shown>>

----
\* Rows and values

Working == {"SUBMITTED", "WORKING"}
States == Working \cup {"INPUT_REQUIRED", "COMPLETED"}

\* is_settled()
is_settled(s) == s \notin Working

\* version grows with every change; pending: requests that wait for an answer.
TaskView == [state: States, said: 0..MaxMsgs, asked: 0..MaxReqs,
             pending: SUBSET Reqs, version: Nat]

Claims == Workers \cup Previews \cup {None, Gone}

Row == [status: {"pending", "streaming", "fallback", "completed"},
        last: States \cup {"NULL"}, card: Nat, initiator: BOOLEAN, claim: Claims,
        live: BOOLEAN]

\* ts: slack_message_ts is set (for requests: the buttons are thought open).
Receipt == [status: {"failed", "posting", "posted"}, ts: BOOLEAN, claim: Claims, live: BOOLEAN]

Pcs == {"idle", "claim", "read", "start", "record", "items", "post", "finishItem",
        "failItem", "stop", "status", "finish", "fallback"}

\* late: the lease of the row ran out on it.
Worker == [pc: Pcs, late: BOOLEAN, view: TaskView, last: States \cup {"NULL"}, card: Nat,
           initiator: BOOLEAN, todo: SUBSET Items, at: Items \cup {0}]

NoView == [state |-> "SUBMITTED", said |-> 0, asked |-> 0, pending |-> {}, version |-> 0]

IdleWorker == [pc |-> "idle", late |-> FALSE, view |-> NoView, last |-> "NULL", card |-> 0,
               initiator |-> FALSE, todo |-> {}, at |-> 0]

Preview == [pc: {"idle", "claim", "write", "release"}, card: Nat, late: BOOLEAN, updates: 0..MaxUpdates]

IdlePreview(n) == [pc |-> "idle", card |-> 0, late |-> FALSE, updates |-> n]

TypeOK ==
    /\ task \in TaskView
    /\ row \in Row /\ row.card <= Len(cards)
    /\ item \in [Items -> Receipt]
    /\ cards \in Seq({"working", "draft", "stopped"})
    /\ posts \in [Items -> Nat]
    /\ control \in [Reqs -> {"none", "open", "closed"}]
    /\ shown \in Nat /\ notices \in BOOLEAN
    /\ worker \in [Workers -> Worker]
    /\ preview \in [Previews -> Preview]
    /\ overrun \in BOOLEAN /\ doubt \in BOOLEAN /\ faults \in 0..MaxFaults

Init ==
    /\ task = [NoView EXCEPT !.version = 1]
    /\ row = [status |-> "pending", last |-> "NULL", card |-> 0, initiator |-> FALSE,
              claim |-> None, live |-> FALSE]
    /\ item = [i \in Items |-> [status |-> "failed", ts |-> FALSE, claim |-> None,
                                live |-> FALSE]]
    /\ cards = <<>> /\ posts = [i \in Items |-> 0]
    /\ control = [q \in Reqs |-> "none"] /\ shown = 0 /\ notices = FALSE
    /\ worker = [w \in Workers |-> IdleWorker]
    /\ preview = [v \in Previews |-> IdlePreview(0)]
    /\ overrun = FALSE /\ doubt = FALSE /\ faults = 0

Fault == faults < MaxFaults /\ faults' = faults + 1

Goto(w, there) == worker' = [worker EXCEPT ![w] = [worker[w] EXCEPT !.pc = there]]

----
\* The task goes on at the controller, which notifies of every change.

Change(t) ==
    /\ task' = [t EXCEPT !.version = task.version + 1]
    /\ notices' = TRUE
    /\ UNCHANGED <<row, item, slackVars, worker, preview, overrun, doubt, faults>>

TaskChanges ==
    \/ task.state = "SUBMITTED" /\ Change([task EXCEPT !.state = "WORKING"])
    \/ /\ task.state = "WORKING" /\ task.said < MaxMsgs
       /\ Change([task EXCEPT !.said = task.said + 1])
    \/ /\ task.state = "WORKING" /\ task.asked < MaxReqs
       /\ Change([task EXCEPT !.state = "INPUT_REQUIRED", !.asked = task.asked + 1,
                              !.pending = {MaxMsgs + task.asked + 1}])
    \/ /\ task.state = "INPUT_REQUIRED"
       /\ Change([task EXCEPT !.state = "WORKING", !.pending = {}])
    \/ task.state = "WORKING" /\ Change([task EXCEPT !.state = "COMPLETED"])

\* ensure_projection() by the input handler, with the initiator, and its event.
ensure_projection ==
    /\ ~row.initiator
    /\ row' = [row EXCEPT !.initiator = TRUE]
    /\ notices' = TRUE
    /\ UNCHANGED <<task, item, slackVars, worker, preview, overrun, doubt, faults>>

----
\* The projector: _reconcile_projection()

\* An event is delivered; more may follow, of other changes or of the same one.
Take(w) ==
    /\ worker[w].pc = "idle" /\ notices
    /\ notices' \in BOOLEAN
    /\ Goto(w, "claim")
    /\ UNCHANGED <<task, row, item, slackVars, preview, overrun, doubt, faults>>

\* The handler raises and its event is delivered again.
Raise(w) == worker' = [worker EXCEPT ![w] = IdleWorker] /\ notices' = TRUE

Return(w) == worker' = [worker EXCEPT ![w] = IdleWorker] /\ UNCHANGED notices

\* Mutant: a live claim is taken over.
RowFreeAlways == TRUE

RowFree == row.status # "streaming" \/ ~row.live

\* claim_task_stream(): a busy row raises.
claim_task_stream(w) ==
    /\ worker[w].pc = "claim"
    /\ IF RowFree
       THEN /\ row' = [row EXCEPT !.status = "streaming", !.claim = w, !.live = TRUE]
            /\ worker' = [worker EXCEPT ![w] = [worker[w] EXCEPT !.pc = "read",
                   !.last = row.last, !.card = row.card, !.initiator = row.initiator]]
            /\ UNCHANGED notices
       ELSE Raise(w) /\ UNCHANGED row
    /\ UNCHANGED <<task, item, slackVars, preview, overrun, doubt, faults>>

\* get_task() inside the claim; messages first, then the requests that wait.
get_task(w) ==
    /\ worker[w].pc = "read"
    /\ \/ /\ worker' = [worker EXCEPT ![w] = [worker[w] EXCEPT !.view = task,
                 !.pc = "start", !.todo = 1..task.said \cup task.pending]]
          /\ UNCHANGED faults
       \/ Fault /\ Goto(w, "fallback")
    /\ UNCHANGED <<task, row, item, slackVars, notices, preview, overrun, doubt>>

\* has_human_input_receipt()
has_human_input_receipt == \E q \in Reqs : item[q].status = "posted"

\* Only a task that never settled may start a card.
CanStart(w) ==
    /\ worker[w].last \in Working \cup {"NULL"}
    /\ worker[w].initiator
    /\ worker[w].card = 0
    /\ ~has_human_input_receipt

\* start_stream(): on failure, with or without a card, replies are used.
start_stream(w) ==
    /\ worker[w].pc = "start"
    /\ \/ /\ CanStart(w)
          /\ cards' = Append(cards, "working")
          /\ worker' = [worker EXCEPT ![w] = [worker[w] EXCEPT !.pc = "record",
                 !.card = Len(cards) + 1]]
          /\ UNCHANGED <<doubt, faults>>
       \/ /\ CanStart(w) /\ Fault
          /\ Goto(w, "items")
          /\ \/ cards' = Append(cards, "working") /\ doubt' = TRUE
             \/ UNCHANGED <<cards, doubt>>
       \/ /\ ~CanStart(w)
          /\ Goto(w, "items")
          /\ UNCHANGED <<cards, doubt, faults>>
    /\ UNCHANGED <<task, row, item, posts, control, shown, notices, preview, overrun>>

Owns(w) == row.claim = w

\* update_stream_message()
update_stream_message(w) ==
    /\ worker[w].pc = "record"
    /\ row' = IF Owns(w) THEN [row EXCEPT !.card = worker[w].card] ELSE row
    /\ Goto(w, "items")
    /\ UNCHANGED <<task, item, slackVars, notices, preview, overrun, doubt, faults>>

\* Mutant: the receipt is not looked at.
ClaimItemAlways(w) ==
    LET i == CHOOSE j \in worker[w].todo : \A k \in worker[w].todo : j <= k IN
    /\ worker[w].pc = "items" /\ worker[w].todo # {}
    /\ item' = [item EXCEPT ![i] = [status |-> "posting", ts |-> FALSE,
                                    claim |-> w, live |-> TRUE]]
    /\ worker' = [worker EXCEPT ![w] = [worker[w] EXCEPT !.pc = "post", !.at = i]]
    /\ UNCHANGED <<task, row, slackVars, notices, preview, overrun, doubt, faults>>

\* claim_item(): the next message or request; posted ones are skipped, a live
\* claim of another projector raises.
claim_item(w) ==
    LET i == CHOOSE j \in worker[w].todo : \A k \in worker[w].todo : j <= k IN
    /\ worker[w].pc = "items" /\ worker[w].todo # {}
    /\ \/ /\ item[i].status = "failed" \/ (item[i].status = "posting" /\ ~item[i].live)
          /\ item' = [item EXCEPT ![i] = [status |-> "posting", ts |-> item[i].ts,
                                          claim |-> w, live |-> TRUE]]
          /\ worker' = [worker EXCEPT ![w] = [worker[w] EXCEPT !.pc = "post", !.at = i]]
       \/ /\ item[i].status = "posting" /\ item[i].live
          /\ Goto(w, "fallback")
          /\ UNCHANGED item
       \/ /\ item[i].status = "posted"
          /\ worker' = [worker EXCEPT ![w] = [worker[w] EXCEPT !.todo = @ \ {i}]]
          /\ UNCHANGED item
    /\ UNCHANGED <<task, row, slackVars, notices, preview, overrun, doubt, faults>>

\* A message goes to the card, if there is one; Slack refuses a stopped card.
Accepted(w) ==
    worker[w].at \in Msgs /\ worker[w].card # 0 => cards[worker[w].card] # "stopped"

Appears(i) ==
    /\ posts' = [posts EXCEPT ![i] = posts[i] + 1]
    /\ control' = IF i \in Reqs THEN [control EXCEPT ![i] = "open"] ELSE control

\* append_stream_chunks() or post_reply(), and _project_human_input().
Post(w) ==
    /\ worker[w].pc = "post"
    /\ \/ /\ Accepted(w)
          /\ Appears(worker[w].at)
          /\ Goto(w, "finishItem")
          /\ UNCHANGED <<doubt, faults>>
       \/ /\ ~Accepted(w)
          /\ Goto(w, "failItem")
          /\ UNCHANGED <<posts, control, doubt, faults>>
       \/ /\ Accepted(w) /\ Fault
          /\ Goto(w, "failItem")
          /\ \/ Appears(worker[w].at) /\ doubt' = TRUE
             \/ UNCHANGED <<posts, control, doubt>>
    /\ UNCHANGED <<task, row, item, cards, shown, notices, preview, overrun>>

OwnsItem(w) == item[worker[w].at].claim = w

SetItem(w, status) ==
    item' = IF OwnsItem(w)
            THEN [item EXCEPT ![worker[w].at] = [status |-> status, claim |-> None,
                      ts |-> status = "posted", live |-> FALSE]]
            ELSE item

\* finish_item() after the call succeeded
finish_item(w) ==
    /\ worker[w].pc = "finishItem"
    /\ SetItem(w, "posted")
    /\ worker' = [worker EXCEPT ![w] = [worker[w] EXCEPT !.pc = "items",
                      !.todo = @ \ {worker[w].at}, !.at = 0]]
    /\ UNCHANGED <<task, row, slackVars, notices, preview, overrun, doubt, faults>>

\* finish_item() with the error; the projection fails.
FailItem(w) ==
    /\ worker[w].pc = "failItem"
    /\ SetItem(w, "failed")
    /\ Goto(w, "fallback")
    /\ UNCHANGED <<task, row, slackVars, notices, preview, overrun, doubt, faults>>

\* human_input_messages(): buttons thought open of requests that do not wait.
Stale(w) == {q \in Reqs : item[q].status = "posted" /\ item[q].ts} \ worker[w].view.pending

\* update_message() and close_human_input(), one request at a time.
close_human_input(w) ==
    /\ worker[w].pc = "items" /\ worker[w].todo = {}
    /\ \/ \E q \in Stale(w) :
              /\ control' = [control EXCEPT ![q] = "closed"]
              /\ item' = [item EXCEPT ![q] = [item[q] EXCEPT !.ts = FALSE]]
              /\ UNCHANGED <<worker, faults>>
       \/ /\ Stale(w) = {}
          /\ Goto(w, "stop")
          /\ UNCHANGED <<control, item, faults>>
       \/ /\ Stale(w) # {} /\ Fault
          /\ Goto(w, "fallback")
          /\ UNCHANGED <<control, item>>
    /\ UNCHANGED <<task, row, cards, posts, shown, notices, preview, overrun, doubt>>

\* stop_stream() at a settled boundary; a card that is stopped already is fine.
stop_stream(w) ==
    LET c == worker[w].card IN
    /\ worker[w].pc = "stop"
    /\ \/ /\ cards' = IF c # 0 /\ is_settled(worker[w].view.state)
                      THEN [cards EXCEPT ![c] = "stopped"] ELSE cards
          /\ Goto(w, "status")
          /\ UNCHANGED faults
       \/ /\ c # 0 /\ is_settled(worker[w].view.state)
          /\ Fault
          /\ cards' \in {cards, [cards EXCEPT ![c] = "stopped"]}
          /\ Goto(w, "fallback")
    /\ UNCHANGED <<task, row, item, posts, control, shown, notices, preview, overrun,
                   doubt>>

\* set_agent_status(), then mark_projection(), which only touches a row that no
\* live claim holds.
mark_projection(w) ==
    LET s == worker[w].view.state IN
    /\ worker[w].pc = "status"
    /\ \/ /\ shown' = worker[w].view.version
          /\ row' = IF RowFree
                    THEN [row EXCEPT !.last = s,
                              !.status = IF is_settled(s) THEN "completed" ELSE "pending",
                              !.card = IF is_settled(s) THEN 0 ELSE row.card]
                    ELSE row
          /\ Goto(w, "finish")
          /\ UNCHANGED faults
       \/ Fault /\ Goto(w, "fallback") /\ UNCHANGED <<shown, row>>
    /\ UNCHANGED <<task, item, cards, posts, control, notices, preview, overrun, doubt>>

\* Mutant: the settled card is not forgotten.
FinishKeepsCard(w) ==
    LET s == worker[w].view.state IN
    /\ worker[w].pc = "finish"
    /\ row' = IF Owns(w) THEN [row EXCEPT !.last = s, !.claim = None, !.live = FALSE,
                                   !.status = IF is_settled(s) THEN "completed"
                                              ELSE "pending"]
              ELSE row
    /\ Return(w)
    /\ UNCHANGED <<task, item, slackVars, preview, overrun, doubt, faults>>

\* finish_stream(fallback=False): a settled card is forgotten.
finish_stream(w) ==
    LET s == worker[w].view.state IN
    /\ worker[w].pc = "finish"
    /\ row' = IF Owns(w) THEN [row EXCEPT !.last = s, !.claim = None, !.live = FALSE,
                                   !.status = IF is_settled(s) THEN "completed"
                                              ELSE "pending",
                                   !.card = IF is_settled(s) THEN 0 ELSE row.card]
              ELSE row
    /\ Return(w)
    /\ UNCHANGED <<task, item, slackVars, preview, overrun, doubt, faults>>

\* finish_stream(fallback=True) after an exception; the card is kept.  The state
\* is the one read, or the old one when nothing was read.
FinishFallback(w) ==
    /\ worker[w].pc = "fallback"
    /\ row' = IF Owns(w) THEN [row EXCEPT !.status = "fallback", !.claim = None,
                                   !.live = FALSE,
                                   !.last = IF worker[w].view = NoView THEN worker[w].last
                                            ELSE worker[w].view.state]
              ELSE row
    /\ Raise(w)
    /\ UNCHANGED <<task, item, slackVars, preview, overrun, doubt, faults>>

\* The invocation ends; its claims stay, a Slack call may be left unrecorded.
Crash(w) ==
    /\ worker[w].pc # "idle"
    /\ Fault
    /\ doubt' = (doubt \/ worker[w].pc \in {"record", "finishItem"})
    /\ row' = IF Owns(w) THEN [row EXCEPT !.claim = Gone] ELSE row
    /\ item' = [i \in Items |-> IF item[i].claim = w THEN [item[i] EXCEPT !.claim = Gone]
                                ELSE item[i]]
    /\ Raise(w)
    /\ UNCHANGED <<task, slackVars, preview, overrun>>

\* The lease of the row runs out; with its holder at work, that is slow.
RowExpires ==
    /\ row.status = "streaming" /\ row.live
    /\ row' = [row EXCEPT !.live = FALSE]
    /\ \/ /\ row.claim = Gone
          /\ UNCHANGED <<worker, preview, overrun, faults>>
       \/ /\ row.claim # Gone /\ Fault /\ overrun' = TRUE
          /\ worker' = [w \in Workers |-> [worker[w] EXCEPT !.late = @ \/ Owns(w)]]
          /\ preview' = [v \in Previews |-> [preview[v] EXCEPT !.late = @ \/ Owns(v)]]
    /\ UNCHANGED <<task, item, slackVars, notices, doubt>>

\* The lease of an item runs out.
ItemExpires(i) ==
    /\ item[i].status = "posting" /\ item[i].live
    /\ item' = [item EXCEPT ![i] = [item[i] EXCEPT !.live = FALSE]]
    /\ \/ item[i].claim = Gone /\ UNCHANGED <<faults, overrun, doubt>>
       \/ item[i].claim # Gone /\ Fault /\ overrun' = TRUE /\ doubt' = TRUE
    /\ UNCHANGED <<task, row, slackVars, notices, worker, preview>>

----
\* The preview worker: observe() of apps/slack-preview

\* usable()
usable == row.status \in {"pending", "streaming"} /\ row.last \in Working /\ row.card # 0

\* A hint of the projector, or the next round of the loop: read the row.
observe(v) ==
    /\ preview[v].pc = "idle" /\ usable /\ preview[v].updates < MaxUpdates
    /\ preview' = [preview EXCEPT ![v] = [preview[v] EXCEPT !.pc = "claim", !.card = row.card]]
    /\ UNCHANGED <<task, row, item, slackVars, notices, worker, overrun, doubt, faults>>

\* claim(): never an expired claim, only the card that was read.
claim(v) ==
    /\ preview[v].pc = "claim"
    /\ IF row.status = "pending" /\ row.claim = None /\ row.last \in Working
          /\ row.card = preview[v].card
       THEN /\ row' = [row EXCEPT !.status = "streaming", !.claim = v, !.live = TRUE]
            /\ preview' = [preview EXCEPT ![v] = [preview[v] EXCEPT !.pc = "write"]]
       ELSE preview' = [preview EXCEPT ![v] = IdlePreview(preview[v].updates)] /\ UNCHANGED row
    /\ UNCHANGED <<task, item, slackVars, notices, worker, overrun, doubt, faults>>

\* update(): one title on the card, if Slack takes it.
update(v) ==
    LET c == preview[v].card IN
    /\ preview[v].pc = "write"
    /\ cards' = IF cards[c] # "stopped" THEN [cards EXCEPT ![c] = "draft"] ELSE cards
    /\ preview' = [preview EXCEPT ![v] = [preview[v] EXCEPT !.pc = "release",
                                              !.updates = preview[v].updates + 1]]
    /\ UNCHANGED <<task, row, item, posts, control, shown, notices, worker, overrun,
                   doubt, faults>>

\* release(): only under its own token.
release(v) ==
    /\ preview[v].pc = "release"
    /\ row' = IF row.status = "streaming" /\ Owns(v)
              THEN [row EXCEPT !.status = "pending", !.claim = None, !.live = FALSE] ELSE row
    /\ preview' = [preview EXCEPT ![v] = IdlePreview(preview[v].updates)]
    /\ UNCHANGED <<task, item, slackVars, notices, worker, overrun, doubt, faults>>

PreviewCrash(v) ==
    /\ preview[v].pc # "idle"
    /\ Fault
    /\ row' = IF Owns(v) THEN [row EXCEPT !.claim = Gone] ELSE row
    /\ preview' = [preview EXCEPT ![v] = IdlePreview(preview[v].updates)]
    /\ UNCHANGED <<task, item, slackVars, notices, worker, overrun, doubt>>

----
Step(w) ==
    \/ claim_task_stream(w) \/ get_task(w) \/ start_stream(w) \/ update_stream_message(w)
    \/ claim_item(w) \/ Post(w) \/ finish_item(w) \/ FailItem(w) \/ close_human_input(w)
    \/ stop_stream(w) \/ mark_projection(w) \/ finish_stream(w) \/ FinishFallback(w)

PreviewStep(v) == claim(v) \/ update(v) \/ release(v)

Next ==
    \/ TaskChanges \/ ensure_projection \/ RowExpires
    \/ \E w \in Workers : Take(w) \/ Step(w) \/ Crash(w)
    \/ \E i \in Items : ItemExpires(i)
    \/ \E v \in Previews : observe(v) \/ PreviewStep(v) \/ PreviewCrash(v)

Spec == Init /\ [][Next]_vars

----
\* Properties

\* No message and no request is posted twice, unless the outcome of a Slack call
\* was lost: receipts survive failures, takeovers and duplicated events.  Nor does a
\* late event open a second card after the task settled or asked a human, unless a
\* worker was slower than its lease.
PostedOnce ==
    doubt \/ /\ \A i \in Items : posts[i] <= 1
             /\ overrun \/ Len(cards) <= 1

\* An older delivery never overwrites the status that a newer one showed, unless it
\* was slower than its lease.
NoStaleStatus == [][overrun \/ shown' >= shown]_shown

\* At the end Slack shows all of the task: every message, no card that is known to
\* be open; the final status, if every worker kept to its lease; and no open button,
\* if besides no outcome of a Slack call was lost.
AllShown ==
    /\ \A i \in 1..task.said : posts[i] >= 1
    /\ row.card = 0
    /\ overrun \/ shown = task.version
    /\ overrun \/ doubt \/ \A q \in Reqs : control[q] # "open"

\* When every event was delivered and handled, the answer of a finished task is in
\* Slack, whatever failed, died or was late on the way: no invocation returns
\* without an error and leaves something to show.
AnswerShown ==
    (task.state = "COMPLETED" /\ ~notices /\ \A w \in Workers : worker[w].pc = "idle")
        => AllShown

====
