---- MODULE PushDelivery ----
(***************************************************************************)
(* Delivery of A2A push notifications: push_dispatcher.py over the          *)
(* cma_push_configs rows of push_repository.py, for one context.            *)
(*                                                                         *)
(* What is delivered is the current view of a task.  Its fingerprint is the *)
(* number of the view, 0 stands for NULL.  Times are kept as what the code  *)
(* asks of them: is the lease alive, is the backoff over.                   *)
(* One database transaction or HTTP call is one step.                       *)
(***************************************************************************)
EXTENDS Integers, FiniteSets

CONSTANTS
    Rows,         \* push configurations of the context
    Workers,      \* push worker invocations that can run at the same time
    None,         \* NULL of a row or claim column
    MaxVersion,   \* bound on the versions of a task's view
    Backoffs,     \* length of _BACKOFF
    MaxFaults     \* bound on crashes, exceptions, stalls, lost wakeups and resets

ASSUME PushNone == None \notin Rows /\ None \notin Workers

ASSUME PushBounds ==
    /\ MaxVersion \in Nat \ {0}
    /\ Backoffs \in Nat
    /\ MaxFaults \in Nat

VARIABLES
    version,    \* per row: the current version of its task's view
    row,        \* the cma_push_configs rows
    received,   \* per row: the versions the callback accepted
    queue,      \* the wakeup queue and the sender in front of it
    loc,        \* per worker: program counter and values read earlier
    faults      \* faults and operator resets so far

vars == <<version, row, received, queue, loc, faults>>

----
\* Rows and values

PushRow == [state: {"absent", "live", "deleted"}, delivered: Nat,
            attempts: Nat, waiting: BOOLEAN, failed: BOOLEAN,
            claim: Workers \cup {None}, lease_live: BOOLEAN]

NoRow == [state |-> "absent", delivered |-> 0, attempts |-> 0,
          waiting |-> FALSE, failed |-> FALSE, claim |-> None, lease_live |-> FALSE]

\* unsent: a change is committed and its wakeup is not sent yet; woken: a
\* wakeup is in the queue; lost: a wakeup was lost and none was sent since.
Queue == [unsent: BOOLEAN, woken: BOOLEAN, lost: BOOLEAN]

\* One more wakeup in the queue; wakeups of a context need not be told apart.
Wakeup == [queue EXCEPT !.woken = TRUE, !.lost = FALSE]

\* The callback's answer: 2xx; 408, 429, 5xx or none at all; anything else.
Answers == {"ok", "transient", "refused"}

\* Between claim() and release().
Holding == {"read", "view", "recheck", "post", "finish", "release"}

PushPcs == {"idle", "next", "claim", "busy"} \cup Holding

\* todo: listed rows still to deliver; row, tries, seen, answer: the row at hand,
\* its attempt_count as read, the view as read and the callback's answer; last:
\* last_delivered_fingerprint as read; retry: some delay was returned.
PushLocal == [pc: PushPcs, todo: SUBSET Rows, row: Rows \cup {None},
              last: [Rows -> Nat], seen: Nat, tries: Nat, answer: Answers,
              retry: BOOLEAN]

IdlePush == [pc |-> "idle", todo |-> {}, row |-> None, last |-> [r \in Rows |-> 0],
             seen |-> 0, tries |-> 0, answer |-> "ok", retry |-> FALSE]

Init ==
    /\ version = [r \in Rows |-> 1]
    /\ row = [r \in Rows |-> NoRow]
    /\ received = [r \in Rows |-> {}]
    /\ queue = [unsent |-> FALSE, woken |-> FALSE, lost |-> FALSE]
    /\ loc = [w \in Workers |-> IdlePush]
    /\ faults = 0

----
\* Changes and their wakeups

\* The scheduler, a cancel or the operator changes the task's view.
Advance(r) ==
    /\ version[r] < MaxVersion
    /\ version' = [version EXCEPT ![r] = version[r] + 1]
    /\ queue' = [queue EXCEPT !.unsent = TRUE]
    /\ UNCHANGED <<row, received, loc, faults>>

\* create(): a repeat finds the row and only wakes the worker again; the id of
\* a deleted configuration is refused.
Create(r) ==
    /\ row[r].state # "deleted"
    /\ row' = [row EXCEPT ![r].state = "live"]
    /\ queue' = [queue EXCEPT !.unsent = TRUE]
    /\ UNCHANGED <<version, received, loc, faults>>

\* delete() leaves a tombstone; a claim that is held stays.
Delete(r) ==
    /\ row[r].state = "live"
    /\ row' = [row EXCEPT ![r].state = "deleted"]
    /\ UNCHANGED <<version, received, queue, loc, faults>>

\* No worker has a live claim on the row.
Free(r) == row[r].claim = None \/ ~row[r].lease_live

\* reset_delivery(), the operator's retry-push.
ResetDelivery(r) ==
    /\ faults < MaxFaults
    /\ row[r].state = "live"
    /\ Free(r)
    /\ row' = [row EXCEPT ![r] = [row[r] EXCEPT
           !.failed = FALSE, !.attempts = 0, !.waiting = FALSE,
           !.claim = None, !.lease_live = FALSE]]
    /\ queue' = [queue EXCEPT !.unsent = TRUE]
    /\ faults' = faults + 1
    /\ UNCHANGED <<version, received, loc>>

ScheduleContext ==
    /\ queue.unsent
    /\ queue' = [Wakeup EXCEPT !.unsent = FALSE]
    /\ UNCHANGED <<version, row, received, loc, faults>>

\* run_once() and cancel() go on when the wakeup cannot be sent; a process may
\* also end before it sends.
LoseWakeup ==
    /\ queue.unsent
    /\ faults < MaxFaults
    /\ faults' = faults + 1
    /\ queue' = [queue EXCEPT !.unsent = FALSE, !.lost = TRUE]
    /\ UNCHANGED <<version, row, received, loc>>

\* The queue delivers a message twice, or a run of the scheduler that changed
\* nothing wakes the worker.
WakeAgain ==
    /\ queue' = Wakeup
    /\ UNCHANGED <<version, row, received, loc, faults>>

----
\* Time

BackoffEnds(r) ==
    /\ row[r].waiting
    /\ row' = [row EXCEPT ![r].waiting = FALSE]
    /\ UNCHANGED <<version, received, queue, loc, faults>>

\* The worker that claimed the row is still at it.
AtWork(r) ==
    /\ row[r].claim \in Workers
    /\ loc[row[r].claim].row = r
    /\ loc[row[r].claim].pc \in Holding

\* The lease of a dead worker runs out, or (a fault) of one that stalls.
LeaseExpires(r) ==
    /\ row[r].lease_live
    /\ \/ ~AtWork(r) /\ UNCHANGED faults
       \/ AtWork(r) /\ faults < MaxFaults /\ faults' = faults + 1
    /\ row' = [row EXCEPT ![r].lease_live = FALSE]
    /\ UNCHANGED <<version, received, queue, loc>>

----
\* run_context() and _deliver()

At(w, p) == loc[w].pc = p

Goto(w, p) == loc' = [loc EXCEPT ![w].pc = p]

\* _deliver() returns to the loop and its variables end.
Return(w, again) ==
    loc' = [loc EXCEPT ![w] = [IdlePush EXCEPT
        !.pc = "next", !.todo = loc[w].todo, !.last = loc[w].last,
        !.retry = loc[w].retry \/ again]]

\* list_context(): rows that are neither deleted nor failed for good.
Receive(w) ==
    /\ At(w, "idle")
    /\ queue.woken
    /\ queue' = [queue EXCEPT !.woken = FALSE]
    /\ loc' = [loc EXCEPT ![w] = [IdlePush EXCEPT
           !.pc = "next",
           !.todo = {r \in Rows : row[r].state = "live" /\ ~row[r].failed},
           !.last = [r \in Rows |-> row[r].delivered]]]
    /\ UNCHANGED <<version, row, received, faults>>

\* A row listed with a terminal task whose view was delivered is passed over
\* without a claim.
SkipSettled(w) ==
    /\ At(w, "next")
    /\ \E r \in loc[w].todo :
         /\ loc[w].last[r] = version[r]
         /\ loc' = [loc EXCEPT ![w].todo = loc[w].todo \ {r}]
    /\ UNCHANGED <<version, row, received, queue, faults>>

\* Any other row is delivered, a terminal one whose view cannot be read too.
NextRow(w) ==
    /\ At(w, "next")
    /\ \E r \in loc[w].todo :
         loc' = [loc EXCEPT ![w] = [loc[w] EXCEPT
             !.pc = "claim", !.row = r, !.todo = loc[w].todo \ {r}]]
    /\ UNCHANGED <<version, row, received, queue, faults>>

\* claim()
Claim(w) ==
    LET r == loc[w].row IN
    /\ At(w, "claim")
    /\ IF /\ row[r].state = "live"
          /\ ~row[r].failed
          /\ ~row[r].waiting
          /\ Free(r)
       THEN /\ row' = [row EXCEPT ![r] = [row[r] EXCEPT !.claim = w, !.lease_live = TRUE]]
            /\ Goto(w, "read")
       ELSE Goto(w, "busy") /\ UNCHANGED row
    /\ UNCHANGED <<version, received, queue, faults>>

\* Mutant: whoever has the row will deliver it.
BusyDropped(w) ==
    /\ At(w, "busy")
    /\ Return(w, FALSE)
    /\ UNCHANGED <<version, row, received, queue, faults>>

\* The row could not be claimed: it is tried again unless it is deleted or has
\* failed for good.
Busy(w) ==
    LET r == loc[w].row IN
    /\ At(w, "busy")
    /\ Return(w, row[r].state = "live" /\ ~row[r].failed)
    /\ UNCHANGED <<version, row, received, queue, faults>>

\* get() under the claim.
ReadRow(w) ==
    LET r == loc[w].row IN
    /\ At(w, "read")
    /\ IF row[r].state = "live"
       THEN loc' = [loc EXCEPT ![w] = [loc[w] EXCEPT
                !.pc = "view", !.tries = row[r].attempts,
                !.last = [loc[w].last EXCEPT ![r] = row[r].delivered]]]
       ELSE Goto(w, "release")
    /\ UNCHANGED <<version, row, received, queue, faults>>

\* get_task(): a view that cannot be read counts as a transient failure.
ReadView(w) ==
    LET r == loc[w].row IN
    /\ At(w, "view")
    /\ \/ /\ loc[w].last[r] = version[r]
          /\ Goto(w, "release")
       \/ \E p \in {"recheck", "finish"} :
            /\ p = "recheck" => loc[w].last[r] # version[r]
            /\ loc' = [loc EXCEPT ![w] = [loc[w] EXCEPT
                   !.pc = p, !.seen = version[r], !.answer = "transient"]]
    /\ UNCHANGED <<version, row, received, queue, faults>>

\* Mutant: the row is asked for, not the claim.
OwnsRow(w) == row[loc[w].row].state = "live"

Owns(w) == row[loc[w].row].claim = w /\ row[loc[w].row].lease_live

\* claimed(), asked once more after the provider was read; a query that fails
\* is a transient failure as well.
Recheck(w) ==
    /\ At(w, "recheck")
    /\ \/ IF Owns(w) /\ row[loc[w].row].state = "live"
          THEN Goto(w, "post")
          ELSE loc' = [loc EXCEPT ![w] = [loc[w] EXCEPT !.pc = "release", !.retry = TRUE]]
       \/ Goto(w, "finish")
    /\ UNCHANGED <<version, row, received, queue, faults>>

\* The POST: accepted with its answer or without, or not accepted.
Post(w) ==
    LET r == loc[w].row IN
    /\ At(w, "post")
    /\ \E answer \in Answers :
         /\ loc' = [loc EXCEPT ![w] = [loc[w] EXCEPT !.pc = "finish", !.answer = answer]]
         /\ \/ /\ answer # "refused"
               /\ received' = [received EXCEPT ![r] = received[r] \cup {loc[w].seen}]
            \/ answer # "ok" /\ UNCHANGED received
    /\ UNCHANGED <<version, row, queue, faults>>

\* Mutant: one attempt more than _BACKOFF has delays.
AgainOneMore(w) == loc[w].answer = "transient" /\ loc[w].tries <= Backoffs

\* The delay of a failed attempt is not None, by the attempts as they were when
\* the row was read.
Again(w) == loc[w].answer = "transient" /\ loc[w].tries < Backoffs

\* Mutant: the fingerprint of the view at the end, not of the one that was sent.
FinishedCurrent(w) ==
    LET old == row[loc[w].row]
        free == [old EXCEPT !.claim = None, !.lease_live = FALSE]
    IN
    IF loc[w].answer = "ok"
    THEN [free EXCEPT !.delivered = version[loc[w].row], !.attempts = 0, !.waiting = FALSE]
    ELSE IF Again(w)
    THEN [free EXCEPT !.attempts = old.attempts + 1, !.waiting = TRUE]
    ELSE [free EXCEPT !.attempts = old.attempts + 1, !.failed = TRUE]

\* The row as finish() leaves it: delivered, to be tried again, or failed.
Finished(w) ==
    LET old == row[loc[w].row]
        free == [old EXCEPT !.claim = None, !.lease_live = FALSE]
    IN
    IF loc[w].answer = "ok"
    THEN [free EXCEPT !.delivered = loc[w].seen, !.attempts = 0, !.waiting = FALSE]
    ELSE IF Again(w)
    THEN [free EXCEPT !.attempts = old.attempts + 1, !.waiting = TRUE]
    ELSE [free EXCEPT !.attempts = old.attempts + 1, !.failed = TRUE]

\* finish(), which asks for the claim; without it the row is tried again.
Finish(w) ==
    /\ At(w, "finish")
    /\ row' = IF Owns(w) THEN [row EXCEPT ![loc[w].row] = Finished(w)] ELSE row
    /\ loc' = [loc EXCEPT ![w] = [loc[w] EXCEPT
           !.pc = "release", !.retry = loc[w].retry \/ ~Owns(w) \/ Again(w)]]
    /\ UNCHANGED <<version, received, queue, faults>>

\* release() clears the worker's own claim only.
Released(w) ==
    IF loc[w].pc \in Holding /\ row[loc[w].row].claim = w
    THEN [row EXCEPT ![loc[w].row] = [row[loc[w].row] EXCEPT !.claim = None, !.lease_live = FALSE]]
    ELSE row

Release(w) ==
    /\ At(w, "release")
    /\ row' = Released(w)
    /\ Return(w, FALSE)
    /\ UNCHANGED <<version, received, queue, faults>>

\* The run ends; rows to try again are one delayed wakeup.
EndRun(w) ==
    /\ At(w, "next")
    /\ loc[w].todo = {}
    /\ queue' = IF loc[w].retry THEN Wakeup ELSE queue
    /\ loc' = [loc EXCEPT ![w] = IdlePush]
    /\ UNCHANGED <<version, row, received, faults>>

\* An exception outside the inner try leaves through the finally clause and
\* fails the queue record, which is delivered again.
Raise(w) ==
    /\ loc[w].pc \in {"next", "claim", "busy", "read", "finish", "release"}
    /\ faults < MaxFaults
    /\ faults' = faults + 1
    /\ row' = Released(w)
    /\ queue' = Wakeup
    /\ loc' = [loc EXCEPT ![w] = IdlePush]
    /\ UNCHANGED <<version, received>>

\* The process dies: the claim stays, the record is delivered again.
Crash(w) ==
    /\ ~At(w, "idle")
    /\ faults < MaxFaults
    /\ faults' = faults + 1
    /\ queue' = Wakeup
    /\ loc' = [loc EXCEPT ![w] = IdlePush]
    /\ UNCHANGED <<version, row, received>>

----

Step(w) ==
    \/ SkipSettled(w) \/ NextRow(w) \/ Claim(w) \/ Busy(w) \/ ReadRow(w)
    \/ ReadView(w) \/ Recheck(w) \/ Post(w) \/ Finish(w) \/ Release(w) \/ EndRun(w)

Next ==
    \/ \E r \in Rows : \/ Advance(r) \/ Create(r) \/ Delete(r) \/ ResetDelivery(r)
                       \/ BackoffEnds(r) \/ LeaseExpires(r)
    \/ ScheduleContext \/ LoseWakeup \/ WakeAgain
    \/ \E w \in Workers : Receive(w) \/ Step(w) \/ Raise(w) \/ Crash(w)

Spec == Init /\ [][Next]_vars

\* Fairness: the sender sends, the queue delivers, a run goes on, time passes.
FairSpec ==
    /\ Spec
    /\ WF_vars(ScheduleContext)
    /\ \A w \in Workers : WF_vars(Receive(w) \/ Step(w))
    /\ \A r \in Rows : WF_vars(BackoffEnds(r)) /\ WF_vars(LeaseExpires(r))

----
\* Properties

\* Every row, wakeup and worker-local value stays in its domain.
TypeOK ==
    /\ version \in [Rows -> Nat]
    /\ row \in [Rows -> PushRow]
    /\ received \in [Rows -> SUBSET Nat]
    /\ queue \in Queue
    /\ loc \in [Workers -> PushLocal]
    /\ \A w \in Workers : loc[w].pc \in Holding \cup {"claim", "busy"} => loc[w].row \in Rows
    /\ faults \in Nat

\* What the row calls delivered was accepted by the callback: no lost answer, no
\* expired lease and no change after the read makes finish() store a version
\* that was not sent.
DeliveredWasReceived ==
    \A r \in Rows : row[r].delivered # 0 => row[r].delivered \in received[r]

\* The delivered version never goes back: a worker that lost its lease cannot
\* overwrite its successor's record with the older view that it sent.
DeliveredGrows ==
    [][\A r \in Rows : row[r].delivered <= row'[r].delivered]_vars

\* attempt_count is read before the POST and incremented after it; between
\* them no other worker counts, so a row fails after exactly the attempts of
\* _BACKOFF and one more, never later.
AttemptsBounded ==
    \A r \in Rows :
        /\ row[r].attempts <= Backoffs + 1
        /\ row[r].attempts = Backoffs + 1 => row[r].failed

\* The row is to be delivered and its callback has not got the current view.
Stale(r) ==
    /\ row[r].state = "live"
    /\ ~row[r].failed
    /\ row[r].delivered # version[r]

\* A row that is behind catches up, fails for good or is deleted, whatever
\* changes, dies or collides meanwhile; only a wakeup that was lost and is
\* followed by none leaves it behind.
Delivers == \A r \in Rows : Stale(r) ~> (~Stale(r) \/ []queue.lost)

====
