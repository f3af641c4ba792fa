---- MODULE HumanInput ----
(***************************************************************************)
(* The human input of one active task: a tool use that the policy must      *)
(* allow or a human must review, and an ask_user clarification.             *)
(* Scheduler workers (cma_controller/scheduler.py) evaluate the policy,      *)
(* publish reviews, record decisions and answer the provider, while clients *)
(* (service.py) rule, answer and stop and a deployment replaces the policy. *)
(*                                                                         *)
(* Grain of atomicity.  One database transaction, one policy process and    *)
(* one provider call is one step; the row and the event listing a worker    *)
(* read earlier are kept in loc[w].  A review's fingerprint hashes the call *)
(* and the policy document; the call is fixed, so a fingerprint is the      *)
(* policy it was made under.  A review's text is written once under its own *)
(* key in the update that publishes the fingerprint, so an offer is its     *)
(* request id and its fingerprint.  An answer's text is named by its key:   *)
(* the client that wrote it, or the worker for the cancellation text.       *)
(*                                                                         *)
(* Simplifications.  The interrupt of a stop and its mark are one step (they *)
(* are apart in CmaScheduler), and the provider works on once every tool    *)
(* use it waits for is answered.                                            *)
(***************************************************************************)
EXTENDS Integers, Sequences, FiniteSets

CONSTANTS
    Workers,     \* scheduler invocations that can run at the same time
    Clients,     \* clients that answer the clarification, each with its own text
    Policies,    \* policy documents that may be deployed
    Verdict,     \* what the native policy engine says of the call, per document
    FirstPolicy, \* the document in force at the start
    None,        \* NULL
    Asks,        \* the tool uses the session waits for: "tool", "ask" or both
    MaxIds,      \* bound on the request ids published for the review
    MaxDeploys,  \* bound on policy deployments
    MaxFaults    \* bound on crashes, expired leases, failed calls and timeouts

ASSUME ConstantsAssumption ==
    /\ Verdict \in [Policies -> {"allow", "deny", "review", "unsupported"}]
    /\ FirstPolicy \in Policies
    /\ None \notin Policies \cup Workers \cup Clients \cup {"allow", "deny"}
    /\ Workers \cap Clients = {}
    /\ Asks \subseteq {"tool", "ask"}
    /\ MaxIds \in Nat
    /\ MaxDeploys \in Nat
    /\ MaxFaults \in Nat

VARIABLES
    policy,    \* the policy document in force
    task,      \* the active task's row
    review,    \* its cma_input_requests row
    clar,      \* its cma_clarification_requests row
    store,     \* answer objects in the pending-input store, by key
    offers,    \* reviews that a client was shown: request id and fingerprint
    rulings,   \* rulings the service accepted, with the offer they answer
    basis,     \* what the recorded decision rests on
    cma,       \* provider: interrupt and answers received
    lease,     \* the context's scheduler claim
    loc,       \* per worker: program counter and values read earlier
    cli,       \* per client: progress of its answer
    count      \* deployments and faults so far

vars == <<policy, task, review, clar, store, offers, rulings, basis, cma, lease,
          loc, cli, count>>

----
\* Rows and values

Keys == Clients \cup Workers

Decisions == {"allow", "deny"}

Statuses == {"absent", "pending", "resolving", "resolved"}

Offer == [id: Nat, digest: Policies]

TaskRow == [state: {"waiting", "input_required", "interrupting", "terminal"},
            cancel: BOOLEAN, interrupted: BOOLEAN, marked: BOOLEAN,
            held: {"none", "ambiguous", "policy"}]

ReviewRow == [status: Statuses, id: Nat, digest: Policies \cup {None},
              ruling: Decisions \cup {None}, decision: Decisions \cup {None},
              attempted: BOOLEAN]

ClarRow == [status: Statuses, answer: Keys \cup {None}, attempted: BOOLEAN]

\* A custom tool result with its text, and whether it is flagged as an error.
Result == [text: Keys, is_error: BOOLEAN]

Provider == [interrupt: {"none", "blocked", "settled"},
             confirmations: Seq(Decisions), results: Seq(Result)]

\* The document, the request id and the ruling that a decision was made from.
Basis == [under: Policies, id: Nat, ruling: Decisions \cup {None}]

Outcomes == {"none", "allow", "deny", "review", "stale", "failed"}

Pcs == {"idle", "list", "confirm", "send", "confirmed", "lost", "answer",
        "respond", "responded", "unanswered", "delete", "settle", "discover",
        "evaluate", "publish", "recheck", "wait", "cancel", "cancel_text",
        "cancel_decide", "cancel_discard", "fail", "release"}

\* pass: 0 for a stopped task, else which _reconcile_confirmations() of the run
\* this is; seen: the answers in the listing, a clarification's as "answer"; row,
\* out: the review row as read and what the policy engine said of it; under: the
\* document it read; cancel: the task's mark as read.
Local == [pc: Pcs, pass: 0..2, seen: SUBSET (Decisions \cup {"answer"}),
          row: ReviewRow, out: Outcomes, under: Policies \cup {None},
          cancel: BOOLEAN]

NoReview == [status |-> "absent", id |-> 0, digest |-> None, ruling |-> None,
             decision |-> None, attempted |-> FALSE]

IdleLocal == [pc |-> "idle", pass |-> 0, seen |-> {}, row |-> NoReview,
              out |-> "none", under |-> None, cancel |-> FALSE]

Init ==
    /\ policy = FirstPolicy
    /\ task = [state |-> "waiting", cancel |-> FALSE, interrupted |-> FALSE,
               marked |-> FALSE, held |-> "none"]
    /\ review = NoReview
    /\ clar = [status |-> "absent", answer |-> None, attempted |-> FALSE]
    /\ store = {}
    /\ offers = {}
    /\ rulings = {}
    /\ basis = None
    /\ cma = [interrupt |-> "none", confirmations |-> <<>>, results |-> <<>>]
    /\ lease = [claim |-> None, live |-> FALSE]
    /\ loc = [w \in Workers |-> IdleLocal]
    /\ cli = [c \in Clients |-> "idle"]
    /\ count = [deploys |-> 0, faults |-> 0]

----
\* Reads

Live == task.state # "terminal"

Owns(w) == lease.claim = w /\ lease.live

At(w, p) == loc[w].pc = p

Goto(w, p) == loc' = [loc EXCEPT ![w].pc = p]

\* What was read of the review is used up.
Leave(w, p) == loc' = [loc EXCEPT ![w] = [@ EXCEPT !.pc = p, !.row = NoReview,
                                                   !.out = "none", !.under = None]]

Fault == count.faults < MaxFaults /\ count' = [count EXCEPT !.faults = @ + 1]

\* list_events(): the answers the provider holds.
Listing == {cma.confirmations[i] : i \in DOMAIN cma.confirmations}
               \cup {"answer" : i \in DOMAIN cma.results}

\* The tool uses an event listing shows no answer for.
Open(seen) == {a \in Asks : IF a = "tool" THEN seen \cap Decisions = {}
                                        ELSE "answer" \notin seen}

\* A review that waits for a human: published, not ruled on.
Offered == review.status = "pending" /\ review.digest # None /\ review.ruling = None

HumanPending == Offered \/ clar.status \in {"pending", "resolving"}

----
\* Clients: what the task view shows, rulings, answers and stops

\* get_task() and build_task(): the review's text with its request id.
get_task ==
    /\ task.state = "input_required"
    /\ ~task.cancel
    /\ Offered
    /\ offers' = offers \cup {[id |-> review.id, digest |-> review.digest]}
    /\ UNCHANGED <<policy, task, review, clar, store, rulings, basis, cma, lease,
                   loc, cli, count>>

\* The row with that id takes its first ruling; an equal one changes nothing, and
\* any other is refused.
record_human_ruling(o, r) ==
    /\ review.id = o.id
    /\ review.digest # None
    /\ ~task.cancel
    /\ Live
    /\ review.ruling = None
    /\ review.status = "pending"
    /\ review' = [review EXCEPT !.ruling = r]
    /\ rulings' = rulings \cup {[offer |-> o, ruling |-> r]}

\* _continue() with a tool approval response, from any button still on a screen.
Rule(o, r) ==
    /\ record_human_ruling(o, r)
    /\ UNCHANGED <<policy, task, clar, store, offers, basis, cma, lease, loc, cli,
                   count>>

\* _continue() with a clarification response: the row and the task as read.
AnswerStart(c) ==
    /\ cli[c] = "idle"
    /\ clar.status = "pending"
    /\ task.state = "input_required"
    /\ cli' = [cli EXCEPT ![c] = "put"]
    /\ UNCHANGED <<policy, task, review, clar, store, offers, rulings, basis, cma,
                   lease, loc, count>>

AnswerPut(c) ==
    /\ cli[c] = "put"
    /\ store' = store \cup {c}
    /\ cli' = [cli EXCEPT ![c] = "decide"]
    /\ UNCHANGED <<policy, task, review, clar, offers, rulings, basis, cma, lease,
                   loc, count>>

\* Mutant: the last answer wins until one is attempted.
DecideOver(k) ==
    IF clar.status \in {"pending", "resolving"}
       /\ (task.state = "input_required" \/ task.cancel)
    THEN clar' = [clar EXCEPT !.status = "resolving", !.answer = k]
    ELSE UNCHANGED clar

\* The first answer takes a pending row of a task that waits for it or is stopped.
decide_clarification_request(k) ==
    IF clar.status = "pending" /\ (task.state = "input_required" \/ task.cancel)
    THEN clar' = [clar EXCEPT !.status = "resolving", !.answer = k]
    ELSE UNCHANGED clar

\* The request commits, or fails before it commits and its answer is deleted.
AnswerDecide(c) ==
    /\ cli[c] = "decide"
    /\ \/ /\ decide_clarification_request(c)
          /\ cli' = [cli EXCEPT ![c] = IF clar'.answer = c THEN "done" ELSE "discard"]
          /\ UNCHANGED count
       \/ /\ Fault
          /\ cli' = [cli EXCEPT ![c] = "discard"]
          /\ UNCHANGED clar
    /\ UNCHANGED <<policy, task, review, store, offers, rulings, basis, cma, lease,
                   loc>>

AnswerDiscard(c) ==
    /\ cli[c] = "discard"
    /\ store' = store \ {c}
    /\ cli' = [cli EXCEPT ![c] = "done"]
    /\ UNCHANGED <<policy, task, review, clar, offers, rulings, basis, cma, lease,
                   loc, count>>

\* cancel_task() on the active task; marked remembers an attempt made before it.
Stop ==
    /\ Live
    /\ ~task.cancel
    /\ task' = [task EXCEPT !.cancel = TRUE, !.marked = review.attempted]
    /\ UNCHANGED <<policy, review, clar, store, offers, rulings, basis, cma, lease,
                   loc, cli, count>>

\* A deployment replaces the policy document.
Deploy(p) ==
    /\ count.deploys < MaxDeploys
    /\ p # policy
    /\ policy' = p
    /\ count' = [count EXCEPT !.deploys = @ + 1]
    /\ UNCHANGED <<task, review, clar, store, offers, rulings, basis, cma, lease,
                   loc, cli>>

----
\* The lease, and the run of a worker

claim_scheduler(w) ==
    /\ At(w, "idle")
    /\ Live
    /\ lease.claim = None \/ ~lease.live
    /\ lease' = [claim |-> w, live |-> TRUE]
    /\ Goto(w, "list")
    /\ UNCHANGED <<policy, task, review, clar, store, offers, rulings, basis, cma,
                   cli, count>>

release_scheduler(w) ==
    /\ At(w, "release")
    /\ lease' = IF lease.claim = w THEN [claim |-> None, live |-> FALSE] ELSE lease
    /\ loc' = [loc EXCEPT ![w] = IdleLocal]
    /\ UNCHANGED <<policy, task, review, clar, store, offers, rulings, basis, cma,
                   cli, count>>

\* The lease of a crashed worker runs out; that of a working one only by a stall.
LeaseExpires ==
    /\ lease.live
    /\ lease' = [lease EXCEPT !.live = FALSE]
    /\ IF \E w \in Workers : lease.claim = w /\ ~At(w, "idle")
       THEN Fault
       ELSE UNCHANGED count
    /\ UNCHANGED <<policy, task, review, clar, store, offers, rulings, basis, cma,
                   loc, cli>>

Crash(w) ==
    /\ ~At(w, "idle")
    /\ Fault
    /\ loc' = [loc EXCEPT ![w] = IdleLocal]
    /\ UNCHANGED <<policy, task, review, clar, store, offers, rulings, basis, cma,
                   lease, cli>>

\* A fenced update of a worker whose claim is gone raises and ends the run.
Fenced(w, then) == Goto(w, IF Owns(w) THEN then ELSE "release")

\* _reconcile_active(): the task and the event listing.
_reconcile_active(w) ==
    /\ At(w, "list")
    /\ loc' = [loc EXCEPT ![w] = [@ EXCEPT
                  !.pc = IF task.cancel THEN "cancel" ELSE "confirm",
                  !.pass = IF task.cancel THEN 0 ELSE 1,
                  !.cancel = task.cancel,
                  !.seen = Listing]]
    /\ UNCHANGED <<policy, task, review, clar, store, offers, rulings, basis, cma,
                   lease, cli, count>>

----
\* _reconcile_confirmations(): the tool confirmation

\* Mutant: the attempt mark does not look at the stop.
MayMarkAnyway(w) == Owns(w) /\ Live

\* mark_confirmation_attempted(): an allow only while the task is not stopped.
MayMark(w) == Owns(w) /\ Live /\ (review.decision = "deny" \/ ~task.cancel)

_reconcile_confirmations(w) ==
    /\ At(w, "confirm")
    /\ \/ /\ review.status # "resolving"
          /\ Goto(w, "answer")
          /\ UNCHANGED <<task, review>>
       \/ /\ review.status = "resolving"
          /\ review.decision \in loc[w].seen
          /\ loc' = [loc EXCEPT ![w] = [@ EXCEPT !.pc = "confirmed", !.row = review]]
          /\ UNCHANGED <<task, review>>
       \/ /\ review.status = "resolving"
          /\ review.decision \notin loc[w].seen
          /\ review.attempted
          /\ Fenced(w, "answer")
          /\ task' = IF Owns(w) THEN [task EXCEPT !.held = "ambiguous"] ELSE task
          /\ UNCHANGED review
       \/ /\ review.status = "resolving"
          /\ review.decision \notin loc[w].seen
          /\ ~review.attempted
          /\ IF MayMark(w)
             THEN /\ review' = [review EXCEPT !.attempted = TRUE]
                  /\ loc' = [loc EXCEPT ![w] = [@ EXCEPT !.pc = "send", !.row = review]]
             ELSE /\ Goto(w, "answer")
                  /\ UNCHANGED review
          /\ UNCHANGED task
    /\ UNCHANGED <<policy, clar, store, offers, rulings, basis, cma, lease, cli,
                   count>>

\* confirm_tool(): answered; refused for good; or the outcome is lost.
confirm_tool(w) ==
    LET confirmed == [cma EXCEPT !.confirmations = Append(@, loc[w].row.decision)]
    IN /\ At(w, "send")
       /\ \/ /\ cma' = confirmed
             /\ Goto(w, "confirmed")
             /\ UNCHANGED count
          \/ /\ Fault
             /\ Goto(w, "fail")
             /\ UNCHANGED cma
          \/ /\ Fault
             /\ cma' \in {cma, confirmed}
             /\ Goto(w, "lost")
       /\ UNCHANGED <<policy, task, review, clar, store, offers, rulings, basis,
                      lease, cli>>

\* The hold of a lost outcome, and the listing that may still show it.
HoldConfirmation(w) ==
    /\ At(w, "lost")
    /\ Fenced(w, IF loc[w].row.decision \in Listing THEN "confirmed" ELSE "answer")
    /\ task' = IF Owns(w) THEN [task EXCEPT !.held = "ambiguous"] ELSE task
    /\ UNCHANGED <<policy, review, clar, store, offers, rulings, basis, cma, lease,
                   cli, count>>

\* resolve_input_request(): fenced, and silent when the fence is lost.
ResolveReview(w) ==
    /\ At(w, "confirmed")
    /\ review' = IF Owns(w) /\ review.id = loc[w].row.id /\ review.status = "resolving"
                 THEN [review EXCEPT !.status = "resolved"]
                 ELSE review
    /\ Leave(w, "answer")
    /\ UNCHANGED <<policy, task, clar, store, offers, rulings, basis, cma, lease,
                   cli, count>>

----
\* _reconcile_confirmations(): the clarification's answer

mark_clarification_attempted(w) ==
    IF Owns(w)
    THEN /\ clar' = [clar EXCEPT !.attempted = TRUE]
         /\ Goto(w, "respond")
    ELSE /\ UNCHANGED clar
         /\ Goto(w, "settle")

AnswerClarification(w) ==
    /\ At(w, "answer")
    /\ \/ /\ clar.status # "resolving"
          /\ Goto(w, "settle")
          /\ UNCHANGED <<task, clar>>
       \/ /\ clar.status = "resolving"
          /\ "answer" \in loc[w].seen
          /\ Goto(w, "responded")
          /\ UNCHANGED <<task, clar>>
       \/ /\ clar.status = "resolving"
          /\ "answer" \notin loc[w].seen
          /\ clar.attempted
          /\ Fenced(w, "settle")
          /\ task' = IF Owns(w) THEN [task EXCEPT !.held = "ambiguous"] ELSE task
          /\ UNCHANGED clar
       \/ /\ clar.status = "resolving"
          /\ "answer" \notin loc[w].seen
          /\ ~clar.attempted
          /\ mark_clarification_attempted(w)
          /\ UNCHANGED task
    /\ UNCHANGED <<policy, review, store, offers, rulings, basis, cma, lease, cli,
                   count>>

\* send_custom_tool_result() with the stored answer; a missing object raises.
send_custom_tool_result(w) ==
    LET result == [text |-> clar.answer, is_error |-> loc[w].cancel]
        answered == [cma EXCEPT !.results = Append(@, result)]
    IN /\ At(w, "respond")
       /\ \/ /\ clar.answer \in store
             /\ cma' = answered
             /\ Goto(w, "responded")
             /\ UNCHANGED count
          \/ /\ clar.answer \in store
             /\ Fault
             /\ Goto(w, "fail")
             /\ UNCHANGED cma
          \/ /\ clar.answer \in store
             /\ Fault
             /\ cma' \in {cma, answered}
             /\ Goto(w, "unanswered")
          \/ /\ clar.answer \notin store
             /\ Goto(w, "unanswered")
             /\ UNCHANGED <<cma, count>>
       /\ UNCHANGED <<policy, task, review, clar, store, offers, rulings, basis,
                      lease, cli>>

HoldAnswer(w) ==
    /\ At(w, "unanswered")
    /\ Fenced(w, IF "answer" \in Listing THEN "responded" ELSE "settle")
    /\ task' = IF Owns(w) THEN [task EXCEPT !.held = "ambiguous"] ELSE task
    /\ UNCHANGED <<policy, review, clar, store, offers, rulings, basis, cma, lease,
                   cli, count>>

ResolveClarification(w) ==
    /\ At(w, "responded")
    /\ clar' = IF Owns(w) /\ clar.status = "resolving"
               THEN [clar EXCEPT !.status = "resolved"]
               ELSE clar
    /\ Goto(w, "delete")
    /\ UNCHANGED <<policy, task, review, store, offers, rulings, basis, cma, lease,
                   cli, count>>

DeleteAnswer(w) ==
    /\ At(w, "delete")
    /\ store' = store \ {clar.answer}
    /\ Goto(w, "settle")
    /\ UNCHANGED <<policy, task, review, clar, offers, rulings, basis, cma, lease,
                   cli, count>>

\* The end of _reconcile_confirmations(): a hold that no row explains is cleared.
SettleHold(w) ==
    LET cleared == \/ /\ task.held = "ambiguous"
                      /\ "resolving" \notin {review.status, clar.status}
                   \/ /\ task.held = "policy"
                      /\ review.status \in {"absent", "resolved"}
        after == <<"release", "discover", "wait">>[loc[w].pass + 1]
    IN /\ At(w, "settle")
       /\ IF cleared
          THEN /\ Fenced(w, after)
               /\ task' = IF Owns(w) THEN [task EXCEPT !.held = "none"] ELSE task
          ELSE /\ Goto(w, after)
               /\ UNCHANGED task
       /\ UNCHANGED <<policy, review, clar, store, offers, rulings, basis, cma,
                      lease, cli, count>>

----
\* Discovery and policy evaluation

\* add_input_request() and add_clarification_request(): fenced inserts that a row
\* of the same provider event turns into nothing.  A session that waits for
\* nothing more, with no row open, ends the task.
DiscoverRequests(w) ==
    LET open == Open(Listing)
        unresolved == {review.status, clar.status} \cap {"pending", "resolving"} # {}
    IN /\ At(w, "discover")
       /\ review' = IF Owns(w) /\ "tool" \in open /\ review.status = "absent"
                    THEN [review EXCEPT !.status = "pending", !.id = 1]
                    ELSE review
       /\ clar' = IF Owns(w) /\ "ask" \in open /\ clar.status = "absent"
                  THEN [clar EXCEPT !.status = "pending"]
                  ELSE clar
       /\ IF open # {} \/ unresolved
          THEN /\ loc' = [loc EXCEPT ![w] = [@ EXCEPT !.pc = "evaluate", !.seen = Listing]]
               /\ UNCHANGED task
          ELSE /\ Fenced(w, "release")
               /\ task' = IF Owns(w) THEN [task EXCEPT !.state = "terminal"] ELSE task
       /\ UNCHANGED <<policy, store, offers, rulings, basis, cma, lease, cli, count>>

\* evaluate() of the policy process: a ruling counts only under the fingerprint it
\* was given for, and only where the policy still asks for one.
evaluate(row) ==
    LET verdict == Verdict[policy] IN
    CASE row.ruling = None -> verdict
      [] row.ruling # None /\ (row.digest # policy \/ verdict = "deny") -> "stale"
      [] row.ruling # None /\ row.digest = policy /\ verdict = "review" -> row.ruling
      [] OTHER -> "unsupported"

\* evaluate_tool_call() and, on a ruled review, resolve_tool_call(): every error of
\* the process except a stale review fails the evaluation.
Decide(row) == IF evaluate(row) = "unsupported" THEN "failed" ELSE evaluate(row)

\* The policy process runs, or times out.
_evaluate_policy(w) ==
    /\ At(w, "evaluate")
    /\ IF review.status # "pending"
       THEN Goto(w, "recheck") /\ UNCHANGED count
       ELSE IF task.cancel
       THEN Goto(w, "wait") /\ UNCHANGED count
       ELSE \E out \in {Decide(review), "failed"} :
              /\ IF out = "failed" /\ Decide(review) # "failed"
                 THEN Fault
                 ELSE UNCHANGED count
              /\ loc' = [loc EXCEPT ![w] = [@ EXCEPT !.pc = "publish", !.row = review,
                                                     !.out = out, !.under = policy]]
    /\ UNCHANGED <<policy, task, review, clar, store, offers, rulings, basis, cma,
                   lease, cli>>

\* The fence of record_human_review() and record_policy_decision(): the row as
\* read, the active task not stopped, the lease live.
MayPublish(w) ==
    /\ Owns(w)
    /\ Live
    /\ ~task.cancel
    /\ review.id = loc[w].row.id
    /\ review.status = "pending"
    /\ review.decision = None
    /\ ~review.attempted

\* Mutant: the request id survives a new review.
RecordReviewKeepingId(w, digest) ==
    /\ review' = [review EXCEPT !.digest = digest, !.ruling = None]
    /\ UNCHANGED basis

\* Every new offer, and the withdrawal of one, takes a new request id.
record_human_review(w, digest) ==
    /\ review.id < MaxIds
    /\ review' = [review EXCEPT !.id = @ + 1, !.digest = digest, !.ruling = None]
    /\ UNCHANGED basis

record_policy_decision(w) ==
    /\ review' = [review EXCEPT !.status = "resolving", !.decision = loc[w].out]
    /\ basis' = [under |-> loc[w].under, id |-> loc[w].row.id,
                 ruling |-> loc[w].row.ruling]

\* Mutant: a stale ruling is held like any other failure.
HoldStale(w) ==
    LET row == loc[w].row
        out == loc[w].out
        unruled == row.digest # None /\ row.ruling = None
    IN CASE out = "review" /\ loc[w].under # row.digest -> "offer"
         [] out = "review" /\ loc[w].under = row.digest -> "keep"
         [] out \in Decisions /\ unruled -> "withdraw"
         [] out \in Decisions /\ ~unruled -> "decide"
         [] out \in {"stale", "failed"} -> "hold"

\* What the worker's reading of the row makes of the engine's outcome.
Publication(w) ==
    LET row == loc[w].row
        out == loc[w].out
        unruled == row.digest # None /\ row.ruling = None
    IN CASE out = "review" /\ loc[w].under # row.digest -> "offer"
         [] out = "review" /\ loc[w].under = row.digest -> "keep"
         [] out \in Decisions /\ unruled -> "withdraw"
         [] out \in Decisions /\ ~unruled -> "decide"
         [] out = "stale" \/ (out = "failed" /\ unruled) -> "withdraw_held"
         [] out = "failed" /\ ~unruled -> "hold"

PublishDecision(w) ==
    LET p == Publication(w)
        updates == p \notin {"keep", "hold"}
        ok == Owns(w) /\ (updates => MayPublish(w))
    IN /\ At(w, "publish")
       /\ IF ok
          THEN /\ \/ p = "offer" /\ record_human_review(w, loc[w].under)
                  \/ p \in {"withdraw", "withdraw_held"} /\ record_human_review(w, None)
                  \/ p = "decide" /\ record_policy_decision(w)
                  \/ ~updates /\ UNCHANGED <<review, basis>>
               /\ task' = IF p = "withdraw" THEN task
                          ELSE [task EXCEPT !.held = IF p \in {"withdraw_held", "hold"}
                                                     THEN "policy" ELSE "none"]
               /\ Leave(w, IF p \in {"withdraw_held", "hold"} THEN "wait" ELSE "recheck")
          ELSE /\ Leave(w, "release")
               /\ UNCHANGED <<task, review, basis>>
       /\ UNCHANGED <<policy, clar, store, offers, rulings, cma, lease, cli, count>>

\* The task is read again before the second _reconcile_confirmations().
RecheckCancel(w) ==
    /\ At(w, "recheck")
    /\ loc' = [loc EXCEPT ![w] = [@ EXCEPT
                  !.pc = IF task.cancel THEN "release" ELSE "confirm",
                  !.pass = 2,
                  !.cancel = task.cancel]]
    /\ UNCHANGED <<policy, task, review, clar, store, offers, rulings, basis, cma,
                   lease, cli, count>>

_set_waiting_state(w) ==
    /\ At(w, "wait")
    /\ task' = IF Owns(w)
               THEN [task EXCEPT !.state = IF HumanPending THEN "input_required"
                                           ELSE "waiting"]
               ELSE task
    /\ Goto(w, "release")
    /\ UNCHANGED <<policy, review, clar, store, offers, rulings, basis, cma, lease,
                   cli, count>>

----
\* _reconcile_cancel(): the cleanup of a stopped task

\* The mark and the interrupt; the session settles or still waits for answers.
Interrupt(w) ==
    /\ At(w, "cancel")
    /\ cma.interrupt = "none"
    /\ Goto(w, "release")
    /\ IF Owns(w)
       THEN /\ task' = [task EXCEPT !.interrupted = TRUE, !.state = "interrupting"]
            /\ cma' \in {[cma EXCEPT !.interrupt = r] : r \in {"blocked", "settled"}}
       ELSE UNCHANGED <<task, cma>>
    /\ UNCHANGED <<policy, review, clar, store, offers, rulings, basis, lease, cli,
                   count>>

FinishCanceled(w) ==
    /\ At(w, "cancel")
    /\ cma.interrupt = "settled" \/ (cma.interrupt = "blocked" /\ Open(loc[w].seen) = {})
    /\ task' = IF Owns(w) THEN [task EXCEPT !.state = "terminal"] ELSE task
    /\ Goto(w, "release")
    /\ UNCHANGED <<policy, review, clar, store, offers, rulings, basis, cma, lease,
                   cli, count>>

\* Mutant: an allow that was decided and not attempted is left alone.
DenyPending(w) ==
    /\ At(w, "cancel")
    /\ cma.interrupt = "blocked"
    /\ Open(loc[w].seen) # {}
    /\ review' = IF Owns(w) /\ Live /\ review.status = "pending" /\ ~review.attempted
                 THEN [review EXCEPT !.status = "resolving", !.decision = "deny"]
                 ELSE review
    /\ Goto(w, IF clar.status = "pending" THEN "cancel_text" ELSE "confirm")
    /\ UNCHANGED <<policy, task, clar, store, offers, rulings, basis, cma, lease,
                   cli, count>>

\* deny_cancelled_input_request(): whatever was decided and not yet attempted is
\* denied, whatever the policy says.
DenyCancelled(w) ==
    /\ At(w, "cancel")
    /\ cma.interrupt = "blocked"
    /\ Open(loc[w].seen) # {}
    /\ review' = IF /\ Owns(w) /\ Live
                    /\ review.status \in {"pending", "resolving"} /\ ~review.attempted
                 THEN [review EXCEPT !.status = "resolving", !.decision = "deny"]
                 ELSE review
    /\ Goto(w, IF clar.status = "pending" THEN "cancel_text" ELSE "confirm")
    /\ UNCHANGED <<policy, task, clar, store, offers, rulings, basis, cma, lease,
                   cli, count>>

PutCancelText(w) ==
    /\ At(w, "cancel_text")
    /\ store' = store \cup {w}
    /\ Goto(w, "cancel_decide")
    /\ UNCHANGED <<policy, task, review, clar, offers, rulings, basis, cma, lease,
                   cli, count>>

DecideCancelText(w) ==
    /\ At(w, "cancel_decide")
    /\ decide_clarification_request(w)
    /\ Goto(w, IF clar'.answer = w THEN "confirm" ELSE "cancel_discard")
    /\ UNCHANGED <<policy, task, review, store, offers, rulings, basis, cma, lease,
                   cli, count>>

DiscardCancelText(w) ==
    /\ At(w, "cancel_discard")
    /\ store' = store \ {w}
    /\ Goto(w, "confirm")
    /\ UNCHANGED <<policy, task, review, clar, offers, rulings, basis, cma, lease,
                   cli, count>>

\* A definitive provider error fails the context and the task.
FailTask(w) ==
    /\ At(w, "fail")
    /\ task' = IF Owns(w) THEN [task EXCEPT !.state = "terminal"] ELSE task
    /\ Goto(w, "release")
    /\ UNCHANGED <<policy, review, clar, store, offers, rulings, basis, cma, lease,
                   cli, count>>

----
\* The system

Step(w) ==
    \/ _reconcile_active(w)
    \/ _reconcile_confirmations(w)
    \/ confirm_tool(w)
    \/ HoldConfirmation(w)
    \/ ResolveReview(w)
    \/ AnswerClarification(w)
    \/ send_custom_tool_result(w)
    \/ HoldAnswer(w)
    \/ ResolveClarification(w)
    \/ DeleteAnswer(w)
    \/ SettleHold(w)
    \/ DiscoverRequests(w)
    \/ _evaluate_policy(w)
    \/ PublishDecision(w)
    \/ RecheckCancel(w)
    \/ _set_waiting_state(w)
    \/ Interrupt(w)
    \/ FinishCanceled(w)
    \/ DenyCancelled(w)
    \/ PutCancelText(w)
    \/ DecideCancelText(w)
    \/ DiscardCancelText(w)
    \/ FailTask(w)
    \/ release_scheduler(w)

AnswerStep(c) == AnswerPut(c) \/ AnswerDecide(c) \/ AnswerDiscard(c)

Next ==
    \/ \E w \in Workers : claim_scheduler(w) \/ Step(w) \/ Crash(w)
    \/ get_task
    \/ \E o \in offers, r \in Decisions : Rule(o, r)
    \/ \E c \in Clients : AnswerStart(c) \/ AnswerStep(c)
    \/ Stop
    \/ \E p \in Policies : Deploy(p)
    \/ LeaseExpires

Spec == Init /\ [][Next]_vars

\* An active task is woken again every 30 seconds, so some worker claims a free
\* lease; a worker and a client go on with what they began, and the lease of a dead
\* worker runs out.  Nobody has to rule, answer, stop or deploy.
FairSpec ==
    /\ Spec
    /\ WF_vars(\E w \in Workers : claim_scheduler(w))
    /\ \A w \in Workers : WF_vars(Step(w))
    /\ \A c \in Clients : WF_vars(AnswerStep(c))
    /\ WF_vars(LeaseExpires /\ count' = count)

----
\* Properties

TypeOK ==
    /\ policy \in Policies
    /\ task \in TaskRow
    /\ review \in ReviewRow
    /\ clar \in ClarRow
    /\ store \subseteq Keys
    /\ offers \subseteq Offer
    /\ rulings \subseteq [offer: Offer, ruling: Decisions]
    /\ basis \in Basis \cup {None}
    /\ cma \in Provider
    /\ lease \in [claim: Workers \cup {None}, live: BOOLEAN]
    /\ loc \in [Workers -> Local]
    /\ cli \in [Clients -> {"idle", "put", "decide", "discard", "done"}]
    /\ count \in [deploys: Nat, faults: Nat]

\* An allow that reaches the provider rests on a document that allows the call, or
\* on a person's accepted allow of an offer that showed exactly the document the
\* call was decided under: no ruling is carried over to a review the person never
\* saw, whatever buttons are still on a screen.  And no deny was accepted for that
\* same review, however many people press the other button (record_human_review(),
\* record_human_ruling(), resolve_tool_call()).
ConsentGiven ==
    "allow" \in Listing =>
        /\ \/ Verdict[basis.under] = "allow"
           \/ \E g \in rulings : /\ g.ruling = "allow"
                                 /\ g.offer = [id |-> basis.id, digest |-> basis.under]
        /\ \A g \in rulings : g.offer.id = basis.id => g.ruling # "deny"

\* After a stop no allow reaches the provider that was not marked as attempted
\* before it, however late a worker, a ruling or a policy decision comes
\* (mark_confirmation_attempted(), deny_cancelled_input_request()).
StopBeatsAllow == (task.cancel /\ ~task.marked) => "allow" \notin Listing

\* The provider gets at most one answer for a tool use, from whatever workers, and
\* what it was told is what the row says, so the client whose answer was taken is
\* the one that was heard (mark_confirmation_attempted(),
\* mark_clarification_attempted(), decide_clarification_request()).  The text that
\* won the row is in the store until it was sent or its sending was given up,
\* although losing answers of other clients and of the cancellation are deleted at
\* the same time (_continue(), _reconcile_cancel()).
HeardAsDecided ==
    /\ clar.status = "resolving" /\ ~clar.attempted => clar.answer \in store
    /\ Len(cma.confirmations) <= 1
    /\ Len(cma.results) <= 1
    /\ \A i \in DOMAIN cma.results : cma.results[i].text = clar.answer

\* Nothing that a machine has to do is left undone: a review ends up decided and
\* confirmed, or offered to a human, or held for an attempt with an unknown
\* outcome, unless the policy engine keeps refusing the document in force
\* (run_once() and its 30-second wakeups).
ReviewSettles ==
    []<>(\/ review.status \in {"absent", "resolved"}
         \/ review.attempted
         \/ Offered
         \/ Verdict[policy] = "unsupported"
         \/ ~Live)

\* A tool use that the session waits for and that no run stored before the stop.
Undiscovered == \/ "tool" \in Asks /\ review.status = "absent"
                \/ "ask" \in Asks /\ clar.status = "absent"

\* A stopped task ends, unless an answer with an unknown outcome holds it or the
\* stop came before the request was stored (the cancel branch stores none).
StopSettles ==
    task.cancel ~> \/ ~Live
                   \/ Undiscovered
                   \/ review.status = "resolving" /\ review.attempted
                   \/ clar.status = "resolving" /\ clar.attempted

====
