---- MODULE WebStream ----
(***************************************************************************)
(* How a browser page follows one task: the AG-UI stream of the Web         *)
(* Function (stream.ts, mapper.ts, app.ts), the page that loads, follows    *)
(* and resumes it (assistant.tsx), and the optional preview text: the       *)
(* observer of the provider's stream (observer.ts), the unreliable channel  *)
(* it publishes to, and the accumulator that drops repeated frames and      *)
(* gives up at a gap (contract.ts).                                         *)
(*                                                                         *)
(* The text of every message is the sequence 1..TextLen of its characters.  *)
(* An agent message and a human-input request are named by their numbers.   *)
(* One read, one published batch or one delivered frame is one step; the    *)
(* events written between two awaited reads reach the page together.        *)
(* `changed` and the watch behind it only advance the next canonical read,  *)
(* so a read may happen in any iteration of the loop.                       *)
(***************************************************************************)
EXTENDS Integers, FiniteSets, Sequences, SequencesExt

CONSTANTS
    MaxMsgs,      \* bound on the agent messages of the task
    TextLen,      \* characters of a message
    MaxReqs,      \* bound on its human-input requests
    Previewing,   \* PREVIEW_ENABLED
    MaxQueue,     \* frames an observer or a stream keeps (32 in the code)
    MaxFeed,      \* bound on the provider events an observer is behind
    Batch,        \* frames of one publish call (5 in the code)
    MaxFails,     \* failed reads that end a stream (5 in the code)
    MaxFaults     \* bound on failed reads, disconnects, deadlines and repeated frames

ASSUME StreamAssumption ==
    /\ MaxMsgs \in Nat /\ TextLen \in Nat /\ MaxReqs \in Nat /\ MaxFaults \in Nat
    /\ MaxQueue \in Nat \ {0} /\ MaxFeed \in Nat \ {0}
    /\ Batch \in Nat \ {0} /\ MaxFails \in Nat \ {0}
    /\ Previewing \in BOOLEAN

VARIABLES
    task,     \* the controller's task, as get_task() returns it
    live,     \* the message the agent is writing: begun, characters so far
    feed,     \* provider events the observer has not read
    obs,      \* the observer
    gw,       \* the stream of the Web Function, with the frames on their way to it
    page,     \* the browser page
    faults    \* faults so far

vars == <<task, live, feed, obs, gw, page, faults>>

----
\* Values

Msgs == 1..MaxMsgs
Reqs == 1..MaxReqs
Text == [i \in 1..TextLen |-> i]
Ids == (0..MaxReqs) \X Msgs
States == {"WORKING", "INPUT_REQUIRED", "COMPLETED"}
Task == [st : States, n : 0..MaxMsgs, asked : 0..MaxReqs, pending : SUBSET Reqs,
         answered : SUBSET Reqs, ask : {"review", "clarification"}]

Kinds == {"start", "delta", "end"}
Event(k, m, c) == [kind |-> k, msg |-> m, char |-> c]
Frame(id, o, k, t) == [id |-> id, offset |-> o, type |-> k, text |-> t]

\* A function with one more, or a new, value.
With(f, x, v) == [y \in DOMAIN f \cup {x} |-> IF y = x THEN v ELSE f[y]]

Shown(n) == [m \in Msgs |-> IF m <= n THEN 1 ELSE 0]
NoDrafts == [id \in {} |-> <<>>]

IdleObserver == [pc |-> "off", phase |-> 0, hint |-> TRUE,
                 msgs |-> [m \in {} |-> 0], queue |-> <<>>]

\* The local variables of one call of streamTask().
NewStream(ids) ==
    [pc |-> "history", resumed |-> ids, accepted |-> FALSE, provisional |-> FALSE,
     key |-> <<>>, seen |-> 0, last |-> 0, fails |-> 0, wire |-> {}, previews |-> <<>>,
     preview |-> FALSE, acc |-> [id \in {} |-> 0], read |-> <<>>]

NoStream == [NewStream({}) EXCEPT !.pc = "off"]

\* A message was sent and its run is followed.
Init ==
    /\ task = [st |-> "WORKING", n |-> 0, asked |-> 0, pending |-> {}, answered |-> {},
               ask |-> "review"]
    /\ live = [on |-> FALSE, k |-> 0]
    /\ feed = <<>>
    /\ obs = IdleObserver
    /\ gw = NewStream({})
    /\ page = [pc |-> "run", shown |-> Shown(0), drafts |-> NoDrafts, text |-> FALSE,
               loaded |-> [st |-> "WORKING", n |-> 0, pending |-> {}], offered |-> {}]
    /\ faults = 0

Fault == faults < MaxFaults /\ faults' = faults + 1

----
\* The agent and the controller: messages, requests, completion

\* The provider's stream reaches an observer that is attached.
Emit(e) ==
    IF obs.pc = "on" THEN Len(feed) < MaxFeed /\ feed' = Append(feed, e)
    ELSE UNCHANGED feed

BeginMessage ==
    /\ task.st = "WORKING" /\ ~live.on /\ task.n < MaxMsgs
    /\ live' = [on |-> TRUE, k |-> 0]
    /\ Emit(Event("start", task.n + 1, 0))
    /\ UNCHANGED <<task, obs, gw, page, faults>>

WriteChar ==
    /\ live.on /\ live.k < TextLen
    /\ live' = [live EXCEPT !.k = @ + 1]
    /\ Emit(Event("delta", task.n + 1, live.k + 1))
    /\ UNCHANGED <<task, obs, gw, page, faults>>

\* agent.message, or the end of the model request that wrote it.
EndMessage ==
    /\ live.on /\ live.k = TextLen
    /\ live' = [on |-> FALSE, k |-> 0]
    /\ task' = [task EXCEPT !.n = @ + 1]
    /\ Emit(Event("message", task.n + 1, 0))
    /\ UNCHANGED <<obs, gw, page, faults>>

Ask ==
    /\ task.st = "WORKING" /\ ~live.on /\ task.asked < MaxReqs
    /\ \E k \in {"review", "clarification"} :
          task' = [task EXCEPT !.st = "INPUT_REQUIRED", !.asked = @ + 1, !.ask = k,
                               !.pending = {task.asked + 1}]
    /\ Emit(Event("idle", 0, 0))
    /\ UNCHANGED <<live, obs, gw, page, faults>>

\* _pending_message(): a ruled review is no longer listed, a clarification is
\* until the scheduler has resolved it.
Answered(t) ==
    [t EXCEPT !.answered = @ \cup t.pending,
              !.pending = IF t.ask = "clarification" THEN @ ELSE {}]

\* The answer comes from another surface.
AnswerElsewhere ==
    /\ task.pending # {} /\ ~ (task.pending \subseteq task.answered)
    /\ task' = Answered(task)
    /\ UNCHANGED <<live, feed, obs, gw, page, faults>>

\* The scheduler resolves the request; a new phase has a preview hint.
Resolve ==
    /\ task.st = "INPUT_REQUIRED" /\ task.asked \in task.answered
    /\ task' = [task EXCEPT !.st = "WORKING", !.pending = {}]
    /\ obs' = [obs EXCEPT !.hint = TRUE]
    /\ UNCHANGED <<live, feed, gw, page, faults>>

Complete ==
    /\ task.st = "WORKING" /\ ~live.on
    /\ task' = [task EXCEPT !.st = "COMPLETED"]
    /\ Emit(Event("idle", 0, 0))
    /\ UNCHANGED <<live, obs, gw, page, faults>>

TaskStep == BeginMessage \/ WriteChar \/ EndMessage \/ Ask \/ AnswerElsewhere
            \/ Resolve \/ Complete

----
\* The observer (observer.ts)

eligible == task.st = "WORKING"

\* enqueue() of some frames: one frame too many aborts the observer.
enqueue(o, fs) ==
    IF o.pc = "off" \/ Len(o.queue) + Len(fs) > MaxQueue
    THEN [o EXCEPT !.pc = "off", !.queue = <<>>]
    ELSE [o EXCEPT !.queue = @ \o fs]

\* The messages of a set in the order they were begun.
InOrder(ms) ==
    CHOOSE s \in [1..Cardinality(ms) -> ms] : \A i, j \in DOMAIN s : i < j => s[i] < s[j]

\* A frame of the given type for each message of a set.
Frames(o, ms, type) ==
    [i \in 1..Cardinality(ms) |->
        LET m == InOrder(ms)[i] IN
        Frame(<<o.phase, m>>, o.msgs[m].offset, type,
              IF type = "delta" THEN o.msgs[m].pending ELSE <<>>)]

\* A message after its frame was made: the next has the next offset.
After(s, type) == IF type = "delta" THEN [s EXCEPT !.offset = @ + 1, !.pending = <<>>]
                  ELSE [s EXCEPT !.offset = @ + 1, !.ended = TRUE]

\* The next frame of each of some messages.
send(o, ms, type) ==
    enqueue([o EXCEPT !.msgs = [m \in DOMAIN o.msgs |->
                 IF m \in ms THEN After(o.msgs[m], type) ELSE o.msgs[m]]],
            Frames(o, ms, type))

\* flush(): the text collected for a message becomes one delta frame.
Waiting(o) == {m \in DOMAIN o.msgs : o.msgs[m].pending # <<>>}
flush(o) == send(o, Waiting(o), "delta")

\* end() of some messages: flush, then an end frame for each that has none.
end(o, ms) ==
    LET open == {m \in ms : ~ o.msgs[m].ended} IN
    IF open = {} THEN o ELSE send(flush(o), open, "end")

\* handler() and observe(): a redelivered, stale or ineligible hint is dropped.
ObserverStarts ==
    /\ Previewing /\ obs.pc = "off" /\ obs.hint
    /\ obs' = [IdleObserver EXCEPT !.pc = IF eligible THEN "on" ELSE "off",
                                   !.phase = task.asked, !.hint = FALSE]
    /\ feed' = <<>>
    /\ UNCHANGED <<task, live, gw, page, faults>>

\* One iteration of the loop over the provider's events.
OnEvent(e) ==
    CASE e.kind = "start" ->
            IF e.msg \in DOMAIN obs.msgs THEN obs
            ELSE enqueue([obs EXCEPT !.msgs = With(@, e.msg, [offset |-> 1, pending |-> <<>>,
                                                              ended |-> FALSE])],
                         <<Frame(<<obs.phase, e.msg>>, 0, "start", <<>>)>>)
      [] e.kind = "delta" ->
            IF e.msg \notin DOMAIN obs.msgs \/ obs.msgs[e.msg].ended THEN obs
            ELSE [obs EXCEPT !.msgs[e.msg].pending = Append(@, e.char)]
      [] e.kind = "message" ->
            IF e.msg \in DOMAIN obs.msgs THEN end(obs, {e.msg}) ELSE obs
      [] OTHER -> [end(obs, DOMAIN obs.msgs) EXCEPT !.pc = IF @ = "off" THEN "off" ELSE "drain"]

ObserverReads ==
    /\ obs.pc = "on" /\ feed # <<>>
    /\ obs' = OnEvent(Head(feed))
    /\ feed' = Tail(feed)
    /\ UNCHANGED <<task, live, gw, page, faults>>

\* The publisher wakes every 100 ms and first flushes.
ObserverFlushes ==
    /\ obs.pc \in {"on", "drain"} /\ obs.queue = <<>>
    /\ flush(obs) # obs
    /\ obs' = flush(obs)
    /\ UNCHANGED <<task, live, feed, gw, page, faults>>

\* publish(): one batch, to whoever is subscribed.
Published ==
    LET n == IF Len(obs.queue) < Batch THEN Len(obs.queue) ELSE Batch IN
    IF gw.preview THEN [gw EXCEPT !.wire = @ \cup ToSet(SubSeq(obs.queue, 1, n))]
    ELSE gw

publish ==
    /\ obs.pc \in {"on", "drain"} /\ obs.queue # <<>>
    /\ gw' = Published
    /\ obs' = [obs EXCEPT !.queue = SubSeq(@, 1 + Batch, Len(@))]
    /\ UNCHANGED <<task, live, feed, page, faults>>

\* The time limit, a failed publish (whose batch may have gone out), lost
\* eligibility or the end of the drain: what is queued is lost.
ObserverStops ==
    /\ obs.pc # "off"
    /\ gw' \in {gw, Published}
    /\ obs' = [IdleObserver EXCEPT !.phase = obs.phase, !.hint = obs.hint]
    /\ feed' = <<>>
    /\ UNCHANGED <<task, live, page, faults>>

ObserverStep == ObserverStarts \/ ObserverReads \/ ObserverFlushes \/ publish
                \/ ObserverStops

----
\* The page's side of the stream (AG-UI client and resumeTask())

Following(p) == p.pc \in {"run", "resume"}

\* MESSAGES_SNAPSHOT: a run replaces what it shows; a resumed stream reloads
\* the page when it shows text of its own or lacks a message.
OnSnapshot(p, n, pending) ==
    IF p.pc = "run" THEN [p EXCEPT !.shown = Shown(n), !.drafts = NoDrafts]
    ELSE IF /\ p.pc = "resume"
            /\ n > p.loaded.n \/ (pending # {} /\ p.loaded.pending = {}) \/ p.text
         THEN [p EXCEPT !.pc = "load"]
         ELSE p

\* TEXT_MESSAGE_START, CONTENT and END of canonical messages.
OnMessages(p, ms) ==
    IF ms = {} THEN p
    ELSE IF p.pc = "run" THEN [p EXCEPT !.shown = [m \in Msgs |->
                                  IF m \in ms /\ @[m] < 2 THEN @[m] + 1 ELSE @[m]]]
    ELSE IF p.pc = "resume" THEN [p EXCEPT !.text = TRUE]
    ELSE p

\* The same events of a preview message.
OnDraft(p, f) ==
    IF p.pc = "run"
    THEN IF f.type = "start" THEN [p EXCEPT !.drafts = With(@, f.id, <<>>)]
         ELSE IF f.id \in DOMAIN p.drafts THEN [p EXCEPT !.drafts[f.id] = @ \o f.text]
         ELSE p
    ELSE IF p.pc = "resume" /\ f.type = "delta" THEN [p EXCEPT !.text = TRUE]
    ELSE p

\* RUN_FINISHED and RUN_ERROR: a resumed stream always reloads, and so does
\* an error of a run.
OnEnd(p, outcome, offered) ==
    IF ~Following(p) THEN p
    ELSE IF p.pc = "resume" \/ outcome = "error" THEN [p EXCEPT !.pc = "load"]
    ELSE IF outcome = "interrupt" THEN [p EXCEPT !.pc = "panel", !.offered = offered]
    ELSE [p EXCEPT !.pc = "rest"]

\* A page that stopped following has closed the connection.
Connected(g, p) == IF Following(p) THEN g ELSE NoStream

----
\* streamTask()

\* RUN_STARTED, the history and its snapshot, then both subscriptions.
StreamStarts ==
    /\ gw.pc = "history"
    /\ LET pending == IF gw.resumed = {} THEN task.pending ELSE {}
           p == OnSnapshot(page, task.n, pending)
       IN /\ page' = p
          /\ gw' = Connected([gw EXCEPT !.pc = "loop", !.last = task.n, !.seen = task.n,
                                        !.preview = Previewing], p)
    /\ UNCHANGED <<task, live, feed, obs, faults>>

\* reconnect(): the last canonical snapshot, then STREAM_RECONNECT_REQUIRED.
Reconnect ==
    /\ page' = OnEnd(OnSnapshot(page, gw.last, {}), "error", {})
    /\ gw' = NoStream

\* Mutant: a run that answers a request takes the task's first state as its own.
NeverWaiting(t) == FALSE

\* The task still shows only the requests this run has answered.
WaitingResume(t) ==
    /\ gw.resumed # {} /\ ~gw.accepted
    /\ t.st = "INPUT_REQUIRED"
    /\ t.pending \subseteq gw.resumed

Terminal(t) == t.st # "WORKING" /\ ~WaitingResume(t)

Key(t) == <<t.n, t.st, t.pending>>

\* Canonical messages of the task that the stream has not written.
Unseen(t) == (gw.seen + 1)..t.n

\* A canonical read that changes nothing, or whose new messages are written as
\* they are because no preview text stands in their place.
ReadPlain ==
    /\ gw.pc = "loop"
    /\ ~Terminal(task) /\ (Key(task) = gw.key \/ ~gw.provisional)
    /\ LET new == Key(task) # gw.key
       IN /\ page' = OnMessages(page, IF new THEN Unseen(task) ELSE {})
          /\ gw' = [gw EXCEPT !.fails = 0, !.accepted = @ \/ ~WaitingResume(task),
                              !.key = Key(task),
                              !.seen = IF new /\ task.n > @ THEN task.n ELSE @]
    /\ UNCHANGED <<task, live, feed, obs, faults>>

\* A canonical read that must be followed by a snapshot of the history.
ReadChange ==
    /\ gw.pc = "loop"
    /\ Terminal(task) \/ (Key(task) # gw.key /\ gw.provisional)
    /\ gw' = [gw EXCEPT !.pc = "snapshot", !.fails = 0, !.read = task,
                        !.accepted = @ \/ ~WaitingResume(task),
                        !.key = Key(task), !.provisional = FALSE]
    /\ UNCHANGED <<task, live, feed, obs, page, faults>>

\* finish(): how a settled task ends the run.
Outcome(t) == IF t.st = "COMPLETED" THEN "success"
              ELSE IF t.pending # {} THEN "interrupt" ELSE "error"

\* Mutant: a settled task ends the run without the snapshot that replaces drafts.
EndWithoutSnapshot ==
    /\ gw.pc = "snapshot"
    /\ IF gw.read.st # "WORKING" /\ gw.accepted
       THEN /\ page' = OnEnd(page, Outcome(gw.read), gw.read.pending)
            /\ gw' = NoStream
       ELSE /\ page' = OnSnapshot(page, task.n, {})
            /\ gw' = Connected([gw EXCEPT !.pc = "loop", !.last = task.n, !.read = <<>>,
                                  !.seen = IF gw.read.n > @ THEN gw.read.n ELSE @], page')
    /\ UNCHANGED <<task, live, feed, obs, faults>>

\* The history read: its snapshot replaces all provisional text; a settled
\* task then ends the run.
Snapshot ==
    /\ gw.pc = "snapshot"
    /\ LET done == gw.read.st # "WORKING" /\ gw.accepted
           p == OnSnapshot(page, task.n, IF gw.accepted THEN task.pending ELSE {})
       IN IF done
          THEN /\ page' = OnEnd(p, Outcome(gw.read), gw.read.pending)
               /\ gw' = NoStream
          ELSE /\ page' = p
               /\ gw' = Connected([gw EXCEPT !.pc = "loop", !.last = task.n, !.read = <<>>,
                                     !.seen = IF gw.read.n > @ THEN gw.read.n ELSE @], p)
    /\ UNCHANGED <<task, live, feed, obs, faults>>

\* A failed read of the task or of the history.
ReadFails ==
    /\ gw.pc \in {"loop", "snapshot"}
    /\ Fault
    /\ IF gw.fails + 1 >= MaxFails
       THEN Reconnect
       ELSE /\ gw' = [gw EXCEPT !.pc = "loop", !.fails = @ + 1, !.read = <<>>]
            /\ UNCHANGED page
    /\ UNCHANGED <<task, live, feed, obs>>

\* The first read of the history fails: the run ends with a reconnect error.
StartFails ==
    /\ gw.pc = "history"
    /\ Fault
    /\ page' = OnEnd(page, "error", {})
    /\ gw' = NoStream
    /\ UNCHANGED <<task, live, feed, obs>>

\* Twenty seconds after the answer the task still waits for it.
WaitedTooLong ==
    /\ gw.pc = "loop" /\ gw.key # <<>>
    /\ WaitingResume(task)
    /\ Fault
    /\ Reconnect
    /\ UNCHANGED <<task, live, feed, obs>>

Deadline ==
    /\ gw.pc \in {"loop", "snapshot"}
    /\ Fault
    /\ Reconnect
    /\ UNCHANGED <<task, live, feed, obs>>

\* The connection breaks, or the page blocks a write for five seconds.
Disconnect ==
    /\ gw.pc # "off"
    /\ Fault
    /\ gw' = NoStream
    /\ page' = [page EXCEPT !.pc = "load"]
    /\ UNCHANGED <<task, live, feed, obs>>

\* The channel delivers frames in any order, or never, and may repeat one; one frame
\* too many ends the preview of this stream.
receive(f) ==
    /\ gw.preview
    /\ \E left \in {gw.wire \ {f}, gw.wire} :
          /\ gw' = IF Len(gw.previews) >= MaxQueue
                   THEN [gw EXCEPT !.preview = FALSE, !.previews = <<>>, !.wire = {}]
                   ELSE [gw EXCEPT !.previews = Append(@, f), !.wire = left]
          /\ IF f \in left THEN Fault ELSE UNCHANGED faults
    /\ UNCHANGED <<task, live, feed, obs, page>>

\* PreviewAccumulator.accept(): the state kept for the frame's message.
StateOf(acc, f) ==
    IF f.id \in DOMAIN acc THEN acc[f.id] ELSE [next |-> 0, ended |-> FALSE]

Rejects(acc, f) ==
    \/ f.id \notin DOMAIN acc /\ (f.type # "start" \/ f.offset # 0)
    \/ StateOf(acc, f).ended
    \/ f.offset < StateOf(acc, f).next

\* Mutant: a later suffix is joined to what came before a lost frame.
GapUnseen(acc, f) == FALSE

Gap(acc, f) == f.offset # StateOf(acc, f).next

accept(acc, f) ==
    IF Rejects(acc, f) THEN acc
    ELSE IF Gap(acc, f) THEN With(acc, f.id, [StateOf(acc, f) EXCEPT !.ended = TRUE])
    ELSE With(acc, f.id, [next |-> f.offset + 1, ended |-> f.type = "end"])

Accepted(acc, f) == ~Rejects(acc, f) /\ ~Gap(acc, f)

\* One preview of the queue is written, or dropped.
WritePreview ==
    /\ gw.pc = "loop" /\ gw.previews # <<>>
    /\ LET f == Head(gw.previews) IN
       /\ gw' = [gw EXCEPT !.previews = Tail(@), !.acc = accept(@, f),
                           !.provisional = @ \/ Accepted(gw.acc, f)]
       /\ page' = IF Accepted(gw.acc, f) THEN OnDraft(page, f) ELSE page
    /\ UNCHANGED <<task, live, feed, obs, faults>>

StreamStep == StreamStarts \/ ReadPlain \/ ReadChange \/ Snapshot \/ ReadFails
              \/ StartFails \/ WaitedTooLong \/ Deadline \/ Disconnect
              \/ (\E f \in gw.wire : receive(f)) \/ WritePreview

----
\* The page (assistant.tsx)

\* Mutant: a working task is shown but not followed.
LoadOnly ==
    /\ page.pc = "load"
    /\ page' = [page EXCEPT !.pc = IF task.pending # {} THEN "panel" ELSE "rest",
                            !.shown = Shown(task.n), !.drafts = NoDrafts,
                            !.offered = task.pending]
    /\ UNCHANGED <<task, live, feed, obs, gw, faults>>

\* loadThread(): the history; a working task is resumed, listed requests open
\* the panel.
Load ==
    /\ page.pc = "load"
    /\ page' = [pc |-> CASE task.st = "WORKING" -> "connect"
                         [] task.pending # {} -> "panel"
                         [] OTHER -> "rest",
                shown |-> Shown(task.n), drafts |-> NoDrafts, text |-> FALSE,
                loaded |-> [st |-> task.st, n |-> task.n, pending |-> task.pending],
                offered |-> task.pending]
    /\ UNCHANGED <<task, live, feed, obs, gw, faults>>

\* GET /resume follows the active task; 409 reloads the page.
resume ==
    /\ page.pc = "connect"
    /\ IF task.st = "COMPLETED"
       THEN page' = [page EXCEPT !.pc = "load"] /\ UNCHANGED gw
       ELSE page' = [page EXCEPT !.pc = "resume"] /\ gw' = NewStream({})
    /\ UNCHANGED <<task, live, feed, obs, faults>>

\* reconcilePending(): every two seconds the panel compares the listed requests.
ReconcilePending ==
    /\ page.pc = "panel" /\ task.pending # page.offered
    /\ page' = [page EXCEPT !.pc = "load"]
    /\ UNCHANGED <<task, live, feed, obs, gw, faults>>

\* POST /api/agui with the responses: refused if the listed requests changed,
\* otherwise recorded and followed by a run of the same task.
Submit ==
    /\ page.pc = "panel"
    /\ IF task.pending # page.offered
       THEN page' = [page EXCEPT !.pc = "load"] /\ UNCHANGED <<task, gw>>
       ELSE /\ task' = Answered(task)
            /\ page' = [page EXCEPT !.pc = "run"]
            /\ gw' = NewStream(page.offered)
    /\ UNCHANGED <<live, feed, obs, faults>>

PageStep == Load \/ resume \/ ReconcilePending \/ Submit

Next == TaskStep \/ ObserverStep \/ StreamStep \/ PageStep

Spec == Init /\ [][Next]_vars

\* The stream's loop reads every two seconds, the page's requests are answered
\* and its panel polls.  A page that follows has one stream and the others have
\* none, so at most one of these steps is possible at a time.
FairSpec ==
    /\ Spec
    /\ WF_vars(StreamStarts \/ ReadPlain \/ ReadChange \/ Snapshot
               \/ Load \/ resume \/ ReconcilePending)

----
\* Properties

\* Types and bounds: neither queue of frames outgrows its limit, and the stream
\* has written no message that the task does not have.
TypeOK ==
    /\ task \in Task
    /\ live \in [on : BOOLEAN, k : 0..TextLen]
    /\ obs.pc \in {"off", "on", "drain"} /\ Len(obs.queue) <= MaxQueue
    /\ \A f \in gw.wire : f.id \in Ids /\ f.type \in Kinds
    /\ gw.pc \in {"off", "history", "loop", "snapshot"}
    /\ gw.seen \in 0..task.n /\ gw.last \in 0..task.n /\ Len(gw.previews) <= MaxQueue
    /\ page.pc \in {"run", "resume", "load", "connect", "panel", "rest"}
    /\ page.shown \in [Msgs -> 0..2] /\ DOMAIN page.drafts \subseteq Ids
    /\ faults \in 0..MaxFaults

\* Whatever the channel loses, repeats or reorders and however the observer cut
\* the text into frames, every preview on the page is a prefix of its message
\* (PreviewAccumulator: "never concatenate a later suffix").
DraftIsPrefix == \A id \in DOMAIN page.drafts : IsPrefix(page.drafts[id], Text)

\* The page loaded after a review was ruled on and before the scheduler saw it: the
\* task is neither working nor lists a request, so the page neither resumes it nor
\* opens its panel, and nothing makes it look again.
Stranded ==
    page.pc = "rest" /\ page.loaded.st = "INPUT_REQUIRED" /\ page.loaded.pending = {}

\* A page that has stopped following a completed task shows each of its messages
\* exactly once, and no page that rests or asks shows preview text: the last
\* snapshot is read after the state that ends the run.  Only a stranded page is
\* out of date.
SettledIsCanonical ==
    page.pc \in {"rest", "panel"} =>
        /\ page.drafts = NoDrafts
        /\ \A m \in Msgs : page.shown[m] < 2
        /\ page.pc = "rest" /\ task.st = "COMPLETED" /\ ~Stranded
              => page.shown = Shown(task.n)

\* A run that answered requests never ends by asking for them again, although the
\* task it reads may still list them.
NotAskedAgain ==
    [][(gw.pc = "snapshot" /\ gw'.pc = "off" /\ page.pc = "run" /\ page'.pc = "panel")
           => ~ (page'.offered \subseteq gw.resumed)]_vars

\* A page that stays open ends up with the canonical answer of a completed task,
\* through lost connections, deadlines, failed reads and answers from elsewhere,
\* unless it was stranded.
AnswerSeen ==
    task.st = "COMPLETED" ~> (page.pc = "rest" /\ (page.shown = Shown(task.n) \/ Stranded))

====
