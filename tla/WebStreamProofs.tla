---- MODULE WebStreamProofs ----
(***************************************************************************)
(* Proofs about WebStream, for any number of messages, requests and faults  *)
(* and any limits: a draft that is shown is a prefix of its message, what a *)
(* page at rest shows, that a request which was answered is not asked       *)
(* again, and that the queues of frames keep to their limits.               *)
(***************************************************************************)
EXTENDS WebStream, SequenceTheorems, FiniteSetTheorems, TLAPS

----
\* The inductive invariant

\* A stream and a page are records, whatever frames and drafts they hold.
StreamFields == {"pc", "resumed", "accepted", "provisional", "key", "seen", "last", "fails",
                 "wire", "previews", "preview", "acc", "read"}
PageFields == {"pc", "shown", "drafts", "text", "loaded", "offered"}

Shape == /\ gw = [f \in StreamFields |-> gw[f]]
         /\ page = [f \in PageFields |-> page[f]]

\* A message is written only while the task works, and only its last request is listed.
TaskInv ==
    /\ task \in Task
    /\ live.on => task.st = "WORKING" /\ task.n < MaxMsgs
    /\ task.pending \subseteq {task.asked}

\* A stream that was opened with answers answered requests that were made; and once it
\* has seen the task go on, a task that waits again waits for another request.
AnsweredInv ==
    /\ \A r \in gw.resumed : r \in 0..task.asked
    /\ gw.accepted /\ task.st = "INPUT_REQUIRED" => task.asked \notin gw.resumed

\* A task that was read before the history is still completed when it was, and a
\* request it listed is not one that the stream had answered.
ReadInv ==
    gw.pc = "snapshot" =>
        /\ gw.read \in Task
        /\ gw.read.st = "COMPLETED" => task.st = "COMPLETED"
        /\ gw.accepted /\ gw.read.st = "INPUT_REQUIRED" /\ gw.read.pending # {} =>
               ~ (gw.read.pending \subseteq gw.resumed)

\* A page that has stopped following shows no draft and no message twice, and one that
\* rests is stranded or shows a completed task.
PageInv ==
    /\ page.pc \in {"rest", "panel"} =>
           page.drafts = NoDrafts /\ \A m \in Msgs : page.shown[m] < 2
    /\ page.pc = "rest" => Stranded \/ (task.st = "COMPLETED" /\ page.shown = Shown(task.n))

IInv == Shape /\ TaskInv /\ AnsweredInv /\ ReadInv /\ PageInv

----
\* The operators of the page

\* What a page shows after n messages.
LEMMA ShownOnce == ASSUME NEW n PROVE \A m \in Msgs : Shown(n)[m] < 2
  BY DEF Shown

\* The page after an event of the stream: unless it follows, it is as it was.
LEMMA PageEvents ==
    ASSUME NEW p, p = [f \in PageFields |-> p[f]], NEW n, NEW q, NEW ms, NEW d
    PROVE  /\ OnSnapshot(p, n, q) = [f \in PageFields |-> OnSnapshot(p, n, q)[f]]
           /\ OnMessages(p, ms) = [f \in PageFields |-> OnMessages(p, ms)[f]]
           /\ OnDraft(p, d) = [f \in PageFields |-> OnDraft(p, d)[f]]
           /\ Following(p) => /\ OnSnapshot(p, n, q).pc \in {"run", "resume", "load"}
                              /\ Following(OnMessages(p, ms)) /\ Following(OnDraft(p, d))
           /\ ~Following(p) => OnSnapshot(p, n, q) = p /\ OnMessages(p, ms) = p /\ OnDraft(p, d) = p
  <1>1. /\ OnSnapshot(p, n, q) = [f \in PageFields |-> OnSnapshot(p, n, q)[f]]
        /\ Following(p) => OnSnapshot(p, n, q).pc \in {"run", "resume", "load"}
        /\ ~Following(p) => OnSnapshot(p, n, q) = p
    BY DEF OnSnapshot, Following, PageFields
  <1>2. /\ OnMessages(p, ms) = [f \in PageFields |-> OnMessages(p, ms)[f]]
        /\ Following(p) => Following(OnMessages(p, ms))
        /\ ~Following(p) => OnMessages(p, ms) = p
    BY DEF OnMessages, Following, PageFields
  <1>3. /\ OnDraft(p, d) = [f \in PageFields |-> OnDraft(p, d)[f]]
        /\ Following(p) => Following(OnDraft(p, d))
        /\ ~Following(p) => OnDraft(p, d) = p
    BY DEF OnDraft, Following, PageFields
  <1> QED BY <1>1, <1>2, <1>3

\* The end of a stream: an error reloads a page that follows.
LEMMA PageError ==
    ASSUME NEW p, p = [f \in PageFields |-> p[f]], NEW q
    PROVE  /\ OnEnd(p, "error", q) = [f \in PageFields |-> OnEnd(p, "error", q)[f]]
           /\ Following(p) => OnEnd(p, "error", q).pc = "load"
           /\ ~Following(p) => OnEnd(p, "error", q) = p
  BY DEF OnEnd, Following, PageFields

----
\* Every step keeps the invariant

\* A page that stopped following is left alone, and a completed task stays as it is.
LEMMA PageKept ==
    ASSUME PageInv, page' = page \/ page'.pc \notin {"rest", "panel"},
           task.st = "COMPLETED" => task'.st = "COMPLETED" /\ task'.n = task.n
    PROVE  PageInv'
  BY DEF PageInv, Stranded

\* A stream without answers that is not at its snapshot promises nothing.
LEMMA FreshStream ==
    ASSUME gw' = NoStream
    PROVE  /\ gw' = [f \in StreamFields |-> gw'[f]]
           /\ AnsweredInv' /\ ReadInv'
  <1>1. /\ gw' = [f \in StreamFields |-> gw'[f]] /\ gw'.pc = "off"
        /\ gw'.resumed = {} /\ gw'.accepted = FALSE
    BY DEF NoStream, NewStream, StreamFields
  <1> QED BY <1>1 DEF AnsweredInv, ReadInv

\* The agent, the scheduler and people elsewhere.
LEMMA TaskKeeps == ASSUME IInv, TaskStep PROVE IInv'
  <1>0. task \in Task
    BY DEF IInv, TaskInv
  <1>1. UNCHANGED <<gw, page>>
    BY DEF TaskStep, BeginMessage, WriteChar, EndMessage, Ask, AnswerElsewhere, Resolve, Complete
  <1>2. /\ task' \in Task /\ task'.pending \subseteq {task'.asked}
        /\ live'.on => task'.st = "WORKING" /\ task'.n < MaxMsgs
        /\ task.st = "COMPLETED" => task'.st = "COMPLETED" /\ task'.n = task.n
        /\ \/ task'.asked = task.asked /\ (task'.st = "INPUT_REQUIRED" => task.st = "INPUT_REQUIRED")
           \/ task'.asked = task.asked + 1
    <2>1. CASE BeginMessage \/ WriteChar
      BY <1>0, <2>1 DEF BeginMessage, WriteChar, IInv, TaskInv
    <2>2. CASE EndMessage
      BY <1>0, <2>2, StreamAssumption DEF EndMessage, IInv, TaskInv, Task
    <2>3. CASE Ask
      <3> PICK k \in {"review", "clarification"} :
               task' = [task EXCEPT !.st = "INPUT_REQUIRED", !.asked = @ + 1, !.ask = k,
                                    !.pending = {task.asked + 1}]
        BY <2>3 DEF Ask
      <3>1. task.asked + 1 \in 0..MaxReqs /\ {task.asked + 1} \subseteq Reqs
        BY <1>0, <2>3, StreamAssumption DEF Ask, Task, Reqs
      <3> QED BY <1>0, <2>3, <3>1 DEF Ask, IInv, TaskInv, Task, States
    <2>4. CASE AnswerElsewhere
      BY <1>0, <2>4 DEF AnswerElsewhere, Answered, IInv, TaskInv, Task
    <2>5. CASE Resolve
      BY <1>0, <2>5 DEF Resolve, IInv, TaskInv, Task, States
    <2>6. CASE Complete
      BY <1>0, <2>6 DEF Complete, IInv, TaskInv, Task, States
    <2> QED BY <2>1, <2>2, <2>3, <2>4, <2>5, <2>6 DEF TaskStep
  <1>3. AnsweredInv'
    BY <1>0, <1>1, <1>2 DEF IInv, AnsweredInv, Task
  <1>4. ReadInv'
    BY <1>1, <1>2 DEF IInv, ReadInv
  <1>5. PageInv'
    BY <1>1, <1>2, PageKept DEF IInv
  <1> QED BY <1>1, <1>2, <1>3, <1>4, <1>5 DEF IInv, TaskInv, Shape

\* A step that leaves the task and what a stream knows of it alone.
LEMMA StreamKept ==
    ASSUME IInv, UNCHANGED <<task, live>>,
           gw' = [f \in StreamFields |-> gw'[f]], page' = [f \in PageFields |-> page'[f]],
           gw'.resumed = gw.resumed, gw'.accepted = gw.accepted, 
           gw'.pc = "snapshot" => gw.pc = "snapshot" /\ gw'.read = gw.read,
           page' = page \/ page'.pc \notin {"rest", "panel"}
    PROVE  IInv'
  <1>1. PageInv'
    BY PageKept DEF IInv
  <1>2. TaskInv' /\ AnsweredInv' /\ ReadInv'
    BY DEF IInv, TaskInv, AnsweredInv, ReadInv
  <1> QED BY <1>1, <1>2 DEF IInv, Shape

\* The observer reaches the stream with frames only.
LEMMA ObserverKeeps == ASSUME IInv, ObserverStep PROVE IInv'
  <1>1. UNCHANGED <<task, live, page>>
    BY DEF ObserverStep, ObserverStarts, ObserverReads, ObserverFlushes, publish, ObserverStops
  <1>2. gw' \in {gw, Published}
    BY DEF ObserverStep, ObserverStarts, ObserverReads, ObserverFlushes, publish, ObserverStops
  <1>3. /\ gw' = [f \in StreamFields |-> gw'[f]]
        /\ gw'.resumed = gw.resumed /\ gw'.accepted = gw.accepted
        /\ gw'.pc = gw.pc /\ gw'.read = gw.read
    BY <1>2 DEF Published, IInv, Shape, StreamFields
  <1> QED BY <1>1, <1>3, StreamKept DEF IInv, Shape

\* The stream ends without an outcome: a page that follows is loaded again.
LEMMA EndKeeps ==
    ASSUME IInv, UNCHANGED <<task, live>>, gw' = NoStream,
           page' = [f \in PageFields |-> page'[f]],
           page' = page \/ page'.pc = "load"
    PROVE  IInv'
  <1>1. PageInv'
    BY PageKept DEF IInv
  <1>2. TaskInv'
    BY DEF IInv, TaskInv
  <1> QED BY <1>1, <1>2, FreshStream DEF IInv, Shape

\* The steps in which a stream fails, ends early or is cut.
CutStep == ReadFails \/ StartFails \/ WaitedTooLong \/ Deadline \/ Disconnect

\* A cut stream is gone, or goes on to read; the page is as it was or is loaded again.
LEMMA CutKeeps == ASSUME IInv, CutStep PROVE IInv'
  <1>1. UNCHANGED <<task, live>>
    BY DEF CutStep, ReadFails, StartFails, WaitedTooLong, Deadline, Disconnect
  <1>2. page = [f \in PageFields |-> page[f]]
    BY DEF IInv, Shape
  <1>3. CASE Reconnect
    <2> DEFINE q == OnSnapshot(page, gw.last, {})
    <2>1. /\ q = [f \in PageFields |-> q[f]]
          /\ Following(page) => q.pc \in {"run", "resume", "load"}
          /\ ~Following(page) => q = page
      BY <1>2, PageEvents
    <2>2. page' = OnEnd(q, "error", {}) /\ gw' = NoStream
      BY <1>3 DEF Reconnect
    <2> HIDE DEF q
    <2>3. /\ page' = [f \in PageFields |-> page'[f]]
          /\ Following(q) => page'.pc = "load"
          /\ ~Following(q) => page' = q
      BY <2>1, <2>2, PageError
    <2>4. page' = page \/ page'.pc = "load"
      BY <2>1, <2>3 DEF Following
    <2> QED BY <1>1, <2>2, <2>3, <2>4, EndKeeps
  <1>4. CASE StartFails
    <2>1. gw' = NoStream /\ page' = OnEnd(page, "error", {})
      BY <1>4 DEF StartFails
    <2>2. page' = [f \in PageFields |-> page'[f]] /\ (page' = page \/ page'.pc = "load")
      BY <1>2, <2>1, PageError
    <2> QED BY <1>1, <2>1, <2>2, EndKeeps
  <1>5. CASE Disconnect
    <2>1. gw' = NoStream /\ page' = [page EXCEPT !.pc = "load"]
      BY <1>5 DEF Disconnect
    <2>2. page' = [f \in PageFields |-> page'[f]] /\ page'.pc = "load"
      BY <1>2, <2>1 DEF PageFields
    <2> QED BY <1>1, <2>1, <2>2, EndKeeps
  <1>6. CASE page' = page /\ gw' = [gw EXCEPT !.pc = "loop", !.fails = @ + 1, !.read = <<>>]
    <2>1. gw' = [f \in StreamFields |-> gw'[f]] /\ gw'.resumed = gw.resumed
          /\ gw'.accepted = gw.accepted /\ gw'.pc = "loop"
      BY <1>6 DEF IInv, Shape, StreamFields
    <2> QED BY <1>1, <1>2, <1>6, <2>1, StreamKept
  <1> QED BY <1>3, <1>4, <1>5, <1>6 DEF CutStep, ReadFails, WaitedTooLong, Deadline

\* The first snapshot.
LEMMA StartKeeps == ASSUME IInv, StreamStarts PROVE IInv'
  <1> PICK r : r = IF gw.resumed = {} THEN task.pending ELSE {}
    OBVIOUS
  <1> PICK q : q = OnSnapshot(page, task.n, r)
    OBVIOUS
  <1>1. /\ page' = q /\ UNCHANGED <<task, live>>
        /\ gw' = Connected([gw EXCEPT !.pc = "loop", !.last = task.n, !.seen = task.n,
                                      !.preview = Previewing], q)
    BY DEF StreamStarts
  <1>0. page = [f \in PageFields |-> page[f]]
    BY DEF IInv, Shape
  <1>2. /\ q = [f \in PageFields |-> q[f]]
        /\ q = page \/ q.pc \in {"run", "resume", "load"}
    BY <1>0, PageEvents
  <1>3. CASE Following(q)
    <2>1. gw' = [f \in StreamFields |-> gw'[f]] /\ gw'.resumed = gw.resumed
          /\ gw'.accepted = gw.accepted /\ gw'.pc = "loop"
      BY <1>1, <1>3 DEF Connected, IInv, Shape, StreamFields
    <2> QED BY <1>1, <1>2, <2>1, StreamKept
  <1>4. CASE ~Following(q)
    <2>1. gw' = NoStream
      BY <1>1, <1>4 DEF Connected
    <2>2. q = page \/ q.pc = "load"
      BY <1>2, <1>4 DEF Following
    <2> QED BY <1>1, <1>2, <2>1, <2>2, EndKeeps
  <1> QED BY <1>3, <1>4

\* When a stream first sees the task go on, a request the task waits for is another one.
LEMMA NowAccepted ==
    ASSUME IInv, gw.accepted \/ ~WaitingResume(task), task.st = "INPUT_REQUIRED"
    PROVE  task.asked \notin gw.resumed
  <1>1. CASE gw.accepted
    BY <1>1 DEF IInv, AnsweredInv
  <1>2. CASE ~gw.accepted
    BY <1>2 DEF WaitingResume, IInv, TaskInv
  <1> QED BY <1>1, <1>2

\* A read of the task.
LEMMA ReadKeeps == ASSUME IInv, ReadPlain \/ ReadChange PROVE IInv'
  <1>0. UNCHANGED <<task, live>>
    BY DEF ReadPlain, ReadChange
  <1>1. page' = page \/ page' = OnMessages(page, Unseen(task)) \/ page' = OnMessages(page, {})
    BY DEF ReadPlain, ReadChange
  <1>2. page' = [f \in PageFields |-> page'[f]] /\ (page' = page \/ Following(page'))
    BY <1>1, PageEvents DEF IInv, Shape
  <1>3. /\ gw' = [f \in StreamFields |-> gw'[f]] /\ gw'.resumed = gw.resumed
        /\ gw'.accepted = (gw.accepted \/ ~WaitingResume(task))
        /\ gw'.pc \in {"loop", "snapshot"}
        /\ gw'.pc = "snapshot" => gw'.read = task
    <2>1. CASE ReadPlain
      BY <2>1 DEF ReadPlain, IInv, Shape, StreamFields
    <2>2. CASE ReadChange
      BY <2>2 DEF ReadChange, IInv, Shape, StreamFields
    <2> QED BY <2>1, <2>2
  <1>4. AnsweredInv'
    <2>1. gw'.accepted /\ task.st = "INPUT_REQUIRED" => task.asked \notin gw.resumed
      BY <1>3, NowAccepted
    <2> QED BY <1>0, <1>3, <2>1 DEF IInv, AnsweredInv
  <1>5. ReadInv'
    BY <1>0, <1>3, <1>4 DEF IInv, ReadInv, AnsweredInv, TaskInv
  <1>6. PageInv'
    BY <1>0, <1>2, PageKept DEF IInv, Following
  <1>7. TaskInv'
    BY <1>0 DEF IInv, TaskInv
  <1> QED BY <1>2, <1>3, <1>4, <1>5, <1>6, <1>7 DEF IInv, Shape

\* The snapshot of the history replaces what a run shows, and a task that was completed
\* when it was read is completed with the history.
LEMMA SnapshotKeeps == ASSUME IInv, Snapshot PROVE IInv'
  <1> PICK r : r = IF gw.accepted THEN task.pending ELSE {}
    OBVIOUS
  <1> PICK q : q = OnSnapshot(page, task.n, r)
    OBVIOUS
  <1>0. UNCHANGED <<task, live>> /\ gw.pc = "snapshot" /\ page = [f \in PageFields |-> page[f]]
    BY DEF Snapshot, IInv, Shape
  <1>1. /\ q = [f \in PageFields |-> q[f]]
        /\ Following(page) => q.pc \in {"run", "resume", "load"}
        /\ ~Following(page) => q = page
    BY <1>0, PageEvents
  <1>2. CASE gw.read.st # "WORKING" /\ gw.accepted
    <2>1. page' = OnEnd(q, Outcome(gw.read), gw.read.pending) /\ gw' = NoStream
      BY <1>2 DEF Snapshot
    <2>2. CASE page' = q \/ page' = [q EXCEPT !.pc = "load"]
      <3>1. page' = [f \in PageFields |-> page'[f]]
            /\ (page'.pc = "load" \/ page' = page \/ page'.pc \in {"run", "resume"})
        BY <1>1, <2>2 DEF PageFields
      <3>2. PageInv'
        BY <1>0, <3>1, PageKept DEF IInv
      <3>3. TaskInv'
        BY <1>0 DEF IInv, TaskInv
      <3> QED BY <2>1, <3>1, <3>2, <3>3, FreshStream DEF IInv, Shape
    <2>3. CASE /\ q.pc = "run" /\ Outcome(gw.read) # "error"
               /\ \/ Outcome(gw.read) = "interrupt" /\ page' = [q EXCEPT !.pc = "panel", !.offered = gw.read.pending]
                  \/ Outcome(gw.read) # "interrupt" /\ page' = [q EXCEPT !.pc = "rest"]
      <3>1. q = [page EXCEPT !.shown = Shown(task.n), !.drafts = NoDrafts]
        BY <1>0, <1>1, <2>3 DEF OnSnapshot, Following, PageFields
      <3>2. /\ page' = [f \in PageFields |-> page'[f]]
            /\ page'.shown = Shown(task.n) /\ page'.drafts = NoDrafts
            /\ page'.pc \in {"panel", "rest"}
            /\ page'.pc = "rest" => Outcome(gw.read) \notin {"error", "interrupt"}
        BY <1>0, <2>3, <3>1 DEF PageFields
      <3>3. page'.pc = "rest" => task.st = "COMPLETED"
        BY <1>0, <3>2 DEF Outcome, IInv, ReadInv
      <3>4. PageInv'
        BY <1>0, <3>2, <3>3, ShownOnce DEF PageInv, Shown
      <3>5. TaskInv'
        BY <1>0 DEF IInv, TaskInv
      <3> QED BY <2>1, <3>2, <3>4, <3>5, FreshStream DEF IInv, Shape
    <2> QED BY <2>1, <2>2, <2>3 DEF OnEnd, Following
  <1>3. CASE ~ (gw.read.st # "WORKING" /\ gw.accepted)
    <2>1. /\ page' = q
          /\ gw' = Connected([gw EXCEPT !.pc = "loop", !.last = task.n, !.read = <<>>,
                                 !.seen = IF gw.read.n > @ THEN gw.read.n ELSE @], q)
      BY <1>3 DEF Snapshot
    <2>2. CASE Following(q)
      <3>1. gw' = [f \in StreamFields |-> gw'[f]] /\ gw'.resumed = gw.resumed
            /\ gw'.accepted = gw.accepted /\ gw'.pc = "loop"
        BY <2>1, <2>2 DEF Connected, IInv, Shape, StreamFields
      <3> QED BY <1>0, <1>1, <2>1, <2>2, <3>1, StreamKept DEF Following
    <2>3. CASE ~Following(q)
      <3>1. gw' = NoStream
        BY <2>1, <2>3 DEF Connected
      <3>2. q = page \/ q.pc = "load"
        BY <1>1, <2>3 DEF Following
      <3> QED BY <1>0, <1>1, <2>1, <3>1, <3>2, EndKeeps
    <2> QED BY <2>2, <2>3
  <1> QED BY <1>2, <1>3

\* Preview frames, which touch the drafts of a run and nothing else.
LEMMA PreviewKeeps ==
    ASSUME IInv, WritePreview \/ \E f \in gw.wire : receive(f) PROVE IInv'
  <1>1. UNCHANGED <<task, live>>
    BY DEF WritePreview, receive
  <1>2. page' = page \/ \E d : page' = OnDraft(page, d)
    BY DEF WritePreview, receive
  <1>3. page' = [f \in PageFields |-> page'[f]] /\ (page' = page \/ Following(page'))
    BY <1>2, PageEvents DEF IInv, Shape
  <1>4. /\ gw' = [f \in StreamFields |-> gw'[f]] /\ gw'.resumed = gw.resumed
        /\ gw'.accepted = gw.accepted /\ gw'.pc = gw.pc /\ gw'.read = gw.read
    <2>1. CASE WritePreview
      BY <2>1 DEF WritePreview, IInv, Shape, StreamFields
    <2>2. CASE \E f \in gw.wire : receive(f)
      BY <2>2 DEF receive, IInv, Shape, StreamFields
    <2> QED BY <2>1, <2>2
  <1> QED BY <1>1, <1>3, <1>4, StreamKept DEF Following

\* The page's own requests.
LEMMA PageKeeps == ASSUME IInv, PageStep PROVE IInv'
  <1>0. task \in Task /\ page = [f \in PageFields |-> page[f]] /\ gw = [f \in StreamFields |-> gw[f]]
    BY DEF IInv, TaskInv, Shape
  <1>1. CASE Load
    <2>1. /\ UNCHANGED <<task, live, gw>>
          /\ page' = [f \in PageFields |-> page'[f]]
          /\ page'.drafts = NoDrafts /\ page'.shown = Shown(task.n)
          /\ page'.loaded = [st |-> task.st, n |-> task.n, pending |-> task.pending]
          /\ page'.pc = "rest" => task.st # "WORKING" /\ task.pending = {}
      BY <1>1 DEF Load, PageFields
    <2>2. PageInv'
      BY <1>0, <2>1, ShownOnce DEF PageInv, Stranded, Task, States, Shown
    <2> QED BY <2>1, <2>2 DEF IInv, TaskInv, AnsweredInv, ReadInv, Shape
  <1>2. CASE resume \/ ReconcilePending \/ (Submit /\ task.pending # page.offered)
    <2>1. /\ UNCHANGED <<task, live>> /\ gw' \in {gw, NewStream({})}
          /\ page' \in {[page EXCEPT !.pc = "load"], [page EXCEPT !.pc = "resume"]}
      BY <1>2 DEF resume, ReconcilePending, Submit
    <2>2. page' = [f \in PageFields |-> page'[f]] /\ page'.pc \in {"load", "resume"}
      BY <1>0, <2>1 DEF PageFields
    <2>3. CASE gw' = gw
      BY <1>0, <2>1, <2>2, <2>3, StreamKept
    <2>4. CASE gw' = NewStream({})
      <3>1. /\ gw' = [f \in StreamFields |-> gw'[f]] /\ gw'.pc = "history"
            /\ gw'.resumed = {} /\ gw'.accepted = FALSE
        BY <2>4 DEF NewStream, StreamFields
      <3>2. PageInv'
        BY <2>1, <2>2, PageKept DEF IInv
      <3> QED BY <2>1, <2>2, <3>1, <3>2 DEF IInv, TaskInv, AnsweredInv, ReadInv, Shape
    <2> QED BY <2>1, <2>3, <2>4
  <1>3. CASE Submit /\ task.pending = page.offered
    <2>1. /\ UNCHANGED live /\ task' = Answered(task)
          /\ page' = [page EXCEPT !.pc = "run"] /\ gw' = NewStream(task.pending)
      BY <1>3 DEF Submit
    <2>2. page' = [f \in PageFields |-> page'[f]] /\ page'.pc = "run"
      BY <1>0, <2>1 DEF PageFields
    <2>3. /\ gw' = [f \in StreamFields |-> gw'[f]] /\ gw'.pc = "history"
          /\ gw'.resumed = task.pending /\ gw'.accepted = FALSE
      BY <2>1 DEF NewStream, StreamFields
    <2>4. /\ task' \in Task /\ task'.st = task.st /\ task'.n = task.n /\ task'.asked = task.asked
          /\ task'.pending \subseteq task.pending
      BY <1>0, <2>1 DEF Answered, Task
    <2>5. TaskInv'
      BY <2>1, <2>4 DEF IInv, TaskInv
    <2>6. AnsweredInv'
      BY <1>0, <2>3, <2>4 DEF IInv, TaskInv, AnsweredInv, Task
    <2>7. PageInv'
      BY <2>2, PageKept, <2>4 DEF IInv
    <2> QED BY <2>2, <2>3, <2>5, <2>6, <2>7 DEF IInv, ReadInv, Shape
  <1> QED BY <1>1, <1>2, <1>3 DEF PageStep

----
\* The theorems

\* Every step of the agent, the observer, the stream and the page keeps what streamTask()
\* and the page rely on between two reads.
THEOREM StreamInvariant == Spec => []IInv
  <1>1. Init => IInv
    <2> SUFFICES ASSUME Init PROVE IInv
      OBVIOUS
    <2>1. TaskInv
      BY StreamAssumption DEF Init, TaskInv, Task, States
    <2>2. /\ gw = [f \in StreamFields |-> gw[f]] /\ gw.pc = "history"
          /\ gw.resumed = {} /\ gw.accepted = FALSE
      BY DEF Init, NewStream, StreamFields
    <2>3. page = [f \in PageFields |-> page[f]] /\ page.pc = "run"
      BY DEF Init, PageFields
    <2> QED BY <2>1, <2>2, <2>3 DEF IInv, Shape, AnsweredInv, ReadInv, PageInv
  <1>2. IInv /\ [Next]_vars => IInv'
    <2> SUFFICES ASSUME IInv, [Next]_vars PROVE IInv'
      OBVIOUS
    <2>1. CASE Next
      BY <2>1, TaskKeeps, ObserverKeeps, CutKeeps, StartKeeps, ReadKeeps, SnapshotKeeps,
         PreviewKeeps, PageKeeps DEF Next, StreamStep, CutStep
    <2>2. CASE UNCHANGED vars
      BY <2>2 DEF vars, IInv, Shape, TaskInv, AnsweredInv, ReadInv, PageInv, Stranded
    <2> QED BY <2>1, <2>2
  <1> QED BY <1>1, <1>2, PTL DEF Spec

\* However the stream was cut, resumed or reloaded and whoever answered, a page that rests
\* or asks shows no preview text and no message twice, and one that rests with a completed
\* task shows all of its messages, unless it was stranded.
THEOREM RestIsCanonical == Spec => []SettledIsCanonical
  <1>1. IInv => SettledIsCanonical
    BY DEF IInv, PageInv, SettledIsCanonical
  <1> QED BY <1>1, StreamInvariant, PTL

\* A run that was opened with answers does not end by asking for them again, for any
\* number of requests, answers from elsewhere and reads in between.
THEOREM AnswerNotAskedAgain == Spec => NotAskedAgain
  <1> DEFINE Asks == gw.pc = "snapshot" /\ gw'.pc = "off" /\ page.pc = "run" /\ page'.pc = "panel"
  <1>1. ASSUME IInv, Next, Asks PROVE ~ (page'.offered \subseteq gw.resumed)
    <2>0. page = [f \in PageFields |-> page[f]]
      BY <1>1 DEF IInv, Shape
    <2>1. Snapshot
      <3>1. page' # page /\ page'.pc = "panel" /\ page.pc = "run" /\ gw.pc = "snapshot"
        BY <1>1
      <3>2. ~TaskStep /\ ~ObserverStep
        BY <3>1 DEF TaskStep, BeginMessage, WriteChar, EndMessage, Ask, AnswerElsewhere, Resolve,
           Complete, ObserverStep, ObserverStarts, ObserverReads, ObserverFlushes, publish,
           ObserverStops
      <3>3. ~PageStep
        BY <3>1 DEF PageStep, Load, resume, ReconcilePending, Submit
      <3>4. ~StreamStarts /\ ~ReadPlain /\ ~ReadChange /\ ~StartFails /\ ~WaitedTooLong
            /\ ~WritePreview /\ ~(\E f \in gw.wire : receive(f))
        BY <3>1 DEF StreamStarts, ReadPlain, ReadChange, StartFails, WaitedTooLong, WritePreview,
           receive
      <3>5. ~Disconnect
        BY <2>0, <3>1 DEF Disconnect, PageFields
      <3>6. ~Reconnect
        <4>1. /\ OnSnapshot(page, gw.last, {}) = [f \in PageFields |-> OnSnapshot(page, gw.last, {})[f]]
              /\ OnSnapshot(page, gw.last, {}).pc \in {"run", "resume", "load"}
          BY <2>0, <3>1, PageEvents DEF Following
        <4> QED BY <3>1, <4>1, PageError DEF Reconnect, Following
      <3>7. ~ReadFails /\ ~Deadline
        BY <3>1, <3>6 DEF ReadFails, Deadline
      <3> QED BY <1>1, <3>2, <3>3, <3>4, <3>5, <3>7 DEF Next, StreamStep
    <2>2. PICK r : r = IF gw.accepted THEN task.pending ELSE {}
      OBVIOUS
    <2>3. PICK q : q = OnSnapshot(page, task.n, r)
      OBVIOUS
    <2>4. q = [f \in PageFields |-> q[f]] /\ q.pc = "run"
      BY <1>1, <2>0, <2>3 DEF OnSnapshot, PageFields
    <2>5. /\ gw.read.st # "WORKING" /\ gw.accepted
          /\ page' = OnEnd(q, Outcome(gw.read), gw.read.pending)
      BY <1>1, <2>1, <2>2, <2>3, <2>4 DEF Snapshot
    <2>6. Outcome(gw.read) = "interrupt" /\ page'.offered = gw.read.pending
      BY <1>1, <2>4, <2>5 DEF OnEnd, Following, PageFields
    <2>7. gw.read \in Task /\ gw.pc = "snapshot"
      BY <1>1 DEF IInv, ReadInv
    <2>8. gw.read.st = "INPUT_REQUIRED" /\ gw.read.pending # {}
      BY <2>5, <2>6, <2>7 DEF Outcome, Task, States
    <2> QED BY <1>1, <2>5, <2>6, <2>8 DEF IInv, ReadInv
  <1>2. IInv /\ [Next]_vars => [Asks => ~ (page'.offered \subseteq gw.resumed)]_vars
    BY <1>1
  <1> QED BY <1>2, StreamInvariant, PTL DEF Spec, NotAskedAgain

----
\* The invariant of the preview text

\* The characters of a message after the first a and up to b.
Part(a, b) == [i \in 1..(b - a) |-> a + i]

\* Where the frames of each message cut its text: the frame at offset o holds what
\* lies between the o-th cut and the next.
Cuts == {c \in [Ids -> [Nat -> 0..TextLen]] : \A id \in Ids : c[id][1] = 0}

Wire == [id : Ids, offset : Nat, type : Kinds, text : Seq(1..TextLen)]

FrameOK(c, f) ==
    /\ f \in Wire
    /\ f.type = "start" => f.offset = 0
    /\ IF f.type = "delta"
       THEN /\ f.offset > 0 /\ c[f.id][f.offset] <= c[f.id][f.offset + 1]
            /\ f.text = Part(c[f.id][f.offset], c[f.id][f.offset + 1])
       ELSE f.text = <<>>

\* Nothing is known of a message from offset n on, and nothing at all of one that
\* the observer may still begin: its phase has no second observer.
Below(o, id, n) ==
    /\ id \in Ids /\ id[1] <= task.asked
    /\ o.hint \/ task.st = "INPUT_REQUIRED" => id[1] < task.asked
    /\ o.pc # "off" /\ id[1] = o.phase => id[2] \in DOMAIN o.msgs /\ n <= o.msgs[id[2]].offset

FramesOK(c, o, fs) == \A f \in fs : FrameOK(c, f) /\ Below(o, f.id, f.offset + 1)

Open(o) == {m \in DOMAIN o.msgs : ~ o.msgs[m].ended}
Cut(c, o, m) == c[<<o.phase, m>>][o.msgs[m].offset]
Pos(c, o, m) == Cut(c, o, m) + Len(o.msgs[m].pending)

\* The observer of a phase: at most one message is open, and what waits for it
\* continues what was sent.
Session(c, o) ==
    /\ o.phase \in 0..MaxReqs /\ o.phase <= task.asked
    /\ o.hint \/ task.st = "INPUT_REQUIRED" => o.phase < task.asked
    /\ \A m \in DOMAIN o.msgs :
          /\ m \in Msgs
          /\ o.msgs[m] \in [offset : Nat \ {0}, pending : Seq(1..TextLen), ended : BOOLEAN]
          /\ IF o.msgs[m].ended THEN o.msgs[m].pending = <<>>
             ELSE /\ Pos(c, o, m) <= TextLen
                  /\ o.msgs[m].pending = Part(Cut(c, o, m), Pos(c, o, m))
    /\ \A m, n \in Open(o) : m = n
    /\ o.pc = "drain" => Open(o) = {}

ObsFields == {"pc", "phase", "hint", "msgs", "queue"}

IsObs(o) == o = [f \in ObsFields |-> o[f]]

ObsOK(c, o) ==
    /\ IsObs(o)
    /\ o.pc \in {"off", "on", "drain"} /\ o.hint \in BOOLEAN
    /\ o.queue \in Seq(Wire) /\ Len(o.queue) <= MaxQueue
    /\ o.pc = "off" => o.queue = <<>>
    /\ o.pc # "off" => Session(c, o)
    /\ FramesOK(c, o, ToSet(o.queue))

\* What the stream knows: the frames on their way and those it has accepted.
StreamOK(c, o) ==
    /\ FramesOK(c, o, gw.wire)
    /\ gw.previews \in Seq(Wire) /\ Len(gw.previews) <= MaxQueue
    /\ FramesOK(c, o, ToSet(gw.previews))
    /\ \A id \in DOMAIN gw.acc :
          /\ gw.acc[id] \in [next : Nat \ {0}, ended : BOOLEAN]
          /\ Below(o, id, gw.acc[id].next)

\* A draft that may grow ends where the next frame of its message begins.
DraftsOK(c) ==
    \A id \in DOMAIN page.drafts :
        /\ id \in Ids
        /\ \E n \in 0..TextLen :
              /\ page.drafts[id] = Part(0, n)
              /\ page.pc = "run" /\ id \in DOMAIN gw.acc /\ ~ gw.acc[id].ended
                    => n = c[id][gw.acc[id].next]

\* The provider's events: which may follow which, and which is the last.
Events == [kind : {"start", "delta", "message", "idle"}, msg : 0..MaxMsgs, char : 0..TextLen]

Writes(e) == e.kind \in {"start", "delta"}

Follows(e, f) ==
    IF Writes(e)
    THEN f.msg = e.msg /\ (f.kind = "message" \/ (f.kind = "delta" /\ f.char = e.char + 1))
    ELSE f.kind = "idle" \/ (f.kind = "start" /\ f.msg # 0 /\ f.char = 0)

AtLive(e) ==
    IF live.on THEN Writes(e) /\ e.msg = task.n + 1 /\ e.char = live.k
    ELSE ~ Writes(e)

\* What the observer has not read continues what it has.
FeedOK(c, o) ==
    o.pc = "on" =>
        /\ feed \in Seq(Events)
        /\ \A i \in 1..(Len(feed) - 1) : Follows(feed[i], feed[i + 1])
        /\ feed # <<>> => AtLive(feed[Len(feed)])
        /\ \A i \in 1..Len(feed) : feed[i].kind = "start" => feed[i].msg # 0 /\ feed[i].char = 0
        /\ \A m \in Open(o) :
              LET e == Event("delta", m, Pos(c, o, m)) IN
              IF feed = <<>> THEN AtLive(e) ELSE Follows(e, feed[1])

LiveOK == live \in [on : BOOLEAN, k : 0..TextLen]

Drafting(c, o) == ObsOK(c, o) /\ StreamOK(c, o) /\ DraftsOK(c) /\ FeedOK(c, o)

DraftInv == LiveOK /\ \E c \in Cuts : Drafting(c, obs)

----
\* Parts of a text

LEMMA PartFacts ==
    ASSUME NEW a \in Nat, NEW b \in Nat, a <= b, b <= TextLen
    PROVE  /\ Part(a, a) = <<>>
           /\ Part(a, b) \in Seq(1..TextLen) /\ Len(Part(a, b)) = b - a
           /\ Part(a, b) = <<>> => a = b
  <1>0. PICK n \in Nat : n = b - a
    OBVIOUS
  <1>1. Part(a, b) \in [1..n -> 1..TextLen]
    BY <1>0, StreamAssumption DEF Part
  <1>2. Part(a, b) \in Seq(1..TextLen) /\ Len(Part(a, b)) = b - a
    <2>1. Part(a, b) \in Seq(1..TextLen)
      BY <1>0, <1>1, SeqDef
    <2>2. DOMAIN Part(a, b) = 1..Len(Part(a, b)) /\ Len(Part(a, b)) \in Nat
      BY <2>1, LenProperties
    <2> QED BY <1>0, <1>1, <2>1, <2>2
  <1>3. Part(a, a) = <<>>
    BY DEF Part
  <1> QED BY <1>2, <1>3

\* One more character.
LEMMA PartGrows ==
    ASSUME NEW a \in Nat, NEW b \in Nat, a <= b, b < TextLen
    PROVE  Append(Part(a, b), b + 1) = Part(a, b + 1)
  <1>1. /\ Part(a, b) \in Seq(1..TextLen) /\ Len(Part(a, b)) = b - a
        /\ Part(a, b + 1) \in Seq(1..TextLen) /\ Len(Part(a, b + 1)) = b + 1 - a
    <2>1. b + 1 \in Nat /\ a <= b + 1 /\ b + 1 <= TextLen /\ b <= TextLen
      BY StreamAssumption
    <2>2. Part(a, b) \in Seq(1..TextLen) /\ Len(Part(a, b)) = b - a
      BY <2>1, PartFacts
    <2>3. Part(a, b + 1) \in Seq(1..TextLen) /\ Len(Part(a, b + 1)) = (b + 1) - a
      BY <2>1, PartFacts
    <2> QED BY <2>2, <2>3
  <1>2. b + 1 \in 1..TextLen
    BY StreamAssumption
  <1>3. Append(Part(a, b), b + 1) \in Seq(1..TextLen)
        /\ Len(Append(Part(a, b), b + 1)) = b + 1 - a
    BY <1>1, <1>2
  <1>4. \A i \in 1..(b + 1 - a) : Append(Part(a, b), b + 1)[i] = Part(a, b + 1)[i]
    BY <1>1, <1>2 DEF Part
  <1> QED BY <1>1, <1>3, <1>4

\* Two parts that meet.
LEMMA PartsJoin ==
    ASSUME NEW a \in Nat, NEW b \in Nat, NEW d \in Nat, a <= b, b <= d, d <= TextLen
    PROVE  Part(a, b) \o Part(b, d) = Part(a, d)
  <1>1. /\ Part(a, b) \in Seq(1..TextLen) /\ Len(Part(a, b)) = b - a
        /\ Part(b, d) \in Seq(1..TextLen) /\ Len(Part(b, d)) = d - b
        /\ Part(a, d) \in Seq(1..TextLen) /\ Len(Part(a, d)) = d - a
    <2>1. b <= TextLen /\ a <= d
      BY StreamAssumption
    <2> QED BY <2>1, PartFacts
  <1>2. Part(a, b) \o Part(b, d) \in Seq(1..TextLen)
        /\ Len(Part(a, b) \o Part(b, d)) = d - a
    BY <1>1
  <1>3. \A i \in 1..(d - a) : (Part(a, b) \o Part(b, d))[i] = Part(a, d)[i]
    BY <1>1 DEF Part
  <1>4. d - a \in Nat
    OBVIOUS
  <1> QED BY <1>1, <1>2, <1>3, <1>4, SeqEqual

LEMMA PartIsPrefix ==
    ASSUME NEW n \in 0..TextLen
    PROVE  IsPrefix(Part(0, n), Text)
  <1>0. n \in Nat /\ TextLen \in Nat
    BY StreamAssumption
  <1>1. Part(0, n) \in Seq(1..TextLen) /\ Len(Part(0, n)) = n
    BY <1>0, PartFacts
  <1>2. Text \in Seq(1..TextLen) /\ Len(Text) = TextLen
    BY <1>0 DEF Text
  <1>3. SubSeq(Part(0, n), 1, n) = SubSeq(Text, 1, n)
    BY <1>0, <1>1, <1>2 DEF Part, Text
  <1> QED BY <1>0, <1>1, <1>2, <1>3 DEF IsPrefix

----
\* Steps of the stream and the page that take in no frame

\* Fewer frames, an unchanged or empty accumulator, unchanged or no drafts.
Less ==
    /\ gw'.wire \subseteq gw.wire
    /\ gw'.previews \in {gw.previews, <<>>}
    /\ gw'.acc = gw.acc \/ DOMAIN gw'.acc = {}
    /\ page'.drafts \in {page.drafts, NoDrafts}
    /\ page'.pc = "run" => page.pc = "run" \/ DOMAIN gw'.acc = {}

LEMMA LessKeeps ==
    ASSUME NEW c \in Cuts, Drafting(c, obs), LiveOK, Less,
           UNCHANGED <<live, feed, obs>>, task'.asked = task.asked, task'.n = task.n,
           task'.st = "INPUT_REQUIRED" => task.st = "INPUT_REQUIRED"
    PROVE  Drafting(c, obs)' /\ LiveOK'
  <1>1. ASSUME NEW id, NEW n, Below(obs, id, n) PROVE Below(obs, id, n)'
    BY <1>1 DEF Below
  <1>2. ASSUME NEW fs, FramesOK(c, obs, fs), NEW gs, gs \subseteq fs
        PROVE  \A f \in gs : FrameOK(c, f)' /\ Below(obs, f.id, f.offset + 1)'
    BY <1>1, <1>2 DEF FramesOK, FrameOK
  <1>3. ObsOK(c, obs)'
    <2>1. FramesOK(c, obs, ToSet(obs.queue))'
      BY <1>2 DEF Drafting, ObsOK, FramesOK
    <2>2. Session(c, obs) => Session(c, obs)'
      BY DEF Session, Open, Pos, Cut
    <2> QED BY <2>1, <2>2 DEF Drafting, ObsOK
  <1>4. StreamOK(c, obs)'
    <2>1. FramesOK(c, obs, gw.wire)'
      BY <1>2 DEF Drafting, StreamOK, FramesOK, Less
    <2>2. FramesOK(c, obs, ToSet(gw.previews))'
      <3>1. CASE gw'.previews = gw.previews
        BY <1>2, <3>1 DEF Drafting, StreamOK, FramesOK
      <3>2. CASE gw'.previews = <<>>
        BY <3>2 DEF FramesOK, ToSet
      <3> QED BY <3>1, <3>2 DEF Less
    <2>3. gw'.previews \in Seq(Wire) /\ Len(gw'.previews) <= MaxQueue
      <3>1. <<>> \in Seq(Wire) /\ Len(<<>>) <= MaxQueue
        BY StreamAssumption
      <3> QED BY <3>1 DEF Drafting, StreamOK, Less
    <2>4. \A id \in DOMAIN gw'.acc : /\ gw'.acc[id] \in [next : Nat \ {0}, ended : BOOLEAN]
                                     /\ Below(obs, id, gw.acc[id].next)'
      <3>1. CASE gw'.acc = gw.acc
        BY <1>1, <3>1 DEF Drafting, StreamOK
      <3>2. CASE DOMAIN gw'.acc = {}
        BY <3>2
      <3> QED BY <3>1, <3>2 DEF Less
    <2> QED BY <2>1, <2>2, <2>3, <2>4 DEF StreamOK
  <1>5. DraftsOK(c)'
    <2>1. CASE page'.drafts = NoDrafts
      BY <2>1 DEF DraftsOK, NoDrafts
    <2>2. CASE page'.drafts = page.drafts
      BY <2>2 DEF Less, Drafting, DraftsOK
    <2> QED BY <2>1, <2>2 DEF Less
  <1>6. FeedOK(c, obs)' /\ LiveOK'
    BY ZenonT(60) DEF Drafting, FeedOK, AtLive, Open, Pos, Cut, LiveOK
  <1> QED BY <1>3, <1>4, <1>5, <1>6 DEF Drafting

\* The page keeps its drafts or shows none after a snapshot, and ends no run twice.
LEMMA PageDrafts ==
    ASSUME NEW p, p = [f \in PageFields |-> p[f]], NEW n, NEW q, NEW ms, NEW out
    PROVE  /\ OnSnapshot(p, n, q).drafts \in {p.drafts, NoDrafts}
           /\ OnSnapshot(p, n, q).pc = "run" => p.pc = "run"
           /\ OnMessages(p, ms).drafts = p.drafts
           /\ OnMessages(p, ms).pc = p.pc
           /\ OnEnd(p, out, q).drafts = p.drafts
           /\ OnEnd(p, out, q).pc = "run" => p.pc = "run"
  <1>1. /\ OnSnapshot(p, n, q).drafts \in {p.drafts, NoDrafts}
        /\ OnSnapshot(p, n, q).pc = "run" => p.pc = "run"
    BY DEF OnSnapshot, PageFields
  <1>2. OnMessages(p, ms).drafts = p.drafts /\ OnMessages(p, ms).pc = p.pc
    BY DEF OnMessages, PageFields
  <1>3. OnEnd(p, out, q).drafts = p.drafts /\ (OnEnd(p, out, q).pc = "run" => p.pc = "run")
    BY DEF OnEnd, Following, PageFields
  <1> QED BY <1>1, <1>2, <1>3

LEMMA NewStreamIsEmpty ==
    ASSUME NEW ids
    PROVE  /\ NewStream(ids).wire = {} /\ NewStream(ids).previews = <<>>
           /\ DOMAIN NewStream(ids).acc = {}
           /\ NoStream.wire = {} /\ NoStream.previews = <<>> /\ DOMAIN NoStream.acc = {}
  BY DEF NewStream, NoStream

LEMMA ReconnectLess == ASSUME Shape, Reconnect PROVE Less
  <1>1. PICK p : p = OnSnapshot(page, gw.last, {})
    OBVIOUS
  <1>2. p = [f \in PageFields |-> p[f]]
    BY <1>1, PageEvents DEF Shape
  <1>3. page'.drafts = p.drafts /\ (page'.pc = "run" => p.pc = "run")
    BY <1>1, <1>2, PageDrafts DEF Reconnect
  <1>4. p.drafts \in {page.drafts, NoDrafts} /\ (p.pc = "run" => page.pc = "run")
    BY <1>1, PageDrafts DEF Shape
  <1> QED BY <1>3, <1>4, NewStreamIsEmpty DEF Less, Reconnect

LEMMA ConnectedLess ==
    ASSUME Shape, NEW p, NEW n, NEW q, NEW g,
           p = OnSnapshot(page, n, q), page' = p, gw' = Connected(g, p),
           g.wire = gw.wire, g.previews = gw.previews, g.acc = gw.acc
    PROVE  Less
  <1>1. p.drafts \in {page.drafts, NoDrafts} /\ (p.pc = "run" => page.pc = "run")
    BY PageDrafts DEF Shape
  <1> QED BY <1>1, NewStreamIsEmpty DEF Less, Connected

Quiet == \/ StreamStarts \/ ReadPlain \/ ReadChange \/ Snapshot \/ ReadFails
         \/ StartFails \/ WaitedTooLong \/ Deadline \/ Disconnect

LEMMA QuietLess == ASSUME Shape, Quiet PROVE Less
  <1>1. CASE StreamStarts
    <2>1. PICK q : q = IF gw.resumed = {} THEN task.pending ELSE {}
      OBVIOUS
    <2>2. PICK p : p = OnSnapshot(page, task.n, q)
      OBVIOUS
    <2>3. PICK g : g = [gw EXCEPT !.pc = "loop", !.last = task.n, !.seen = task.n,
                                  !.preview = Previewing]
      OBVIOUS
    <2>4. g.wire = gw.wire /\ g.previews = gw.previews /\ g.acc = gw.acc
      BY <2>3 DEF Shape, StreamFields
    <2>5. page' = p /\ gw' = Connected(g, p)
      BY <1>1, <2>1, <2>2, <2>3 DEF StreamStarts
    <2> QED BY <2>2, <2>4, <2>5, ConnectedLess
  <1>2. CASE ReadPlain
    <2>1. PICK ms : page' = OnMessages(page, ms)
      BY <1>2 DEF ReadPlain
    <2>2. page'.drafts = page.drafts /\ page'.pc = page.pc
      BY <2>1, PageDrafts DEF Shape
    <2>3. gw'.wire = gw.wire /\ gw'.previews = gw.previews /\ gw'.acc = gw.acc
      BY <1>2 DEF ReadPlain, Shape, StreamFields
    <2> QED BY <2>2, <2>3 DEF Less
  <1>3. CASE ReadChange
    <2>1. gw'.wire = gw.wire /\ gw'.previews = gw.previews /\ gw'.acc = gw.acc
      BY <1>3 DEF ReadChange, Shape, StreamFields
    <2> QED BY <1>3, <2>1 DEF Less, ReadChange
  <1>4. CASE Snapshot
    <2>1. PICK q : q = IF gw.accepted THEN task.pending ELSE {}
      OBVIOUS
    <2>2. PICK p : p = OnSnapshot(page, task.n, q)
      OBVIOUS
    <2>3. CASE gw.read.st # "WORKING" /\ gw.accepted
      <3>1. page' = OnEnd(p, Outcome(gw.read), gw.read.pending) /\ gw' = NoStream
        BY <1>4, <2>1, <2>2, <2>3 DEF Snapshot
      <3>2. p = [f \in PageFields |-> p[f]]
        BY <2>2, PageEvents DEF Shape
      <3>3. page'.drafts = p.drafts
        BY <3>1, <3>2, PageDrafts
      <3>4. p.drafts \in {page.drafts, NoDrafts}
        BY <2>2, PageDrafts DEF Shape
      <3> QED BY <3>1, <3>3, <3>4, NewStreamIsEmpty DEF Less
    <2>4. CASE ~(gw.read.st # "WORKING" /\ gw.accepted)
      <3>1. PICK g : g = [gw EXCEPT !.pc = "loop", !.last = task.n, !.read = <<>>,
                                     !.seen = IF gw.read.n > @ THEN gw.read.n ELSE @]
        OBVIOUS
      <3>2. g.wire = gw.wire /\ g.previews = gw.previews /\ g.acc = gw.acc
        BY <3>1 DEF Shape, StreamFields
      <3>3. page' = p /\ gw' = Connected(g, p)
        BY <1>4, <2>1, <2>2, <2>4, <3>1 DEF Snapshot
      <3> QED BY <2>2, <3>2, <3>3, ConnectedLess
    <2> QED BY <2>3, <2>4
  <1>5. CASE ReadFails
    <2>1. CASE Reconnect
      BY <2>1, ReconnectLess
    <2>2. CASE gw' = [gw EXCEPT !.pc = "loop", !.fails = @ + 1, !.read = <<>>] /\ page' = page
      BY <2>2 DEF Less, Shape, StreamFields
    <2> QED BY <1>5, <2>1, <2>2 DEF ReadFails
  <1>6. CASE StartFails
    <2>1. page'.drafts = page.drafts
      BY <1>6, PageDrafts DEF StartFails, Shape
    <2> QED BY <1>6, <2>1, NewStreamIsEmpty DEF Less, StartFails
  <1>7. CASE WaitedTooLong \/ Deadline
    BY <1>7, ReconnectLess DEF WaitedTooLong, Deadline
  <1>8. CASE Disconnect
    <2>1. page'.drafts = page.drafts
      BY <1>8 DEF Disconnect, Shape, PageFields
    <2> QED BY <1>8, <2>1, NewStreamIsEmpty DEF Less, Disconnect
  <1> QED BY <1>1, <1>2, <1>3, <1>4, <1>5, <1>6, <1>7, <1>8 DEF Quiet

LEMMA PageLess == ASSUME Shape, PageStep PROVE Less
  <1>1. CASE Load
    BY <1>1 DEF Load, Less
  <1>2. CASE resume
    <2>1. page'.drafts = page.drafts /\ page'.pc # "run"
      BY <1>2 DEF resume, Shape, PageFields
    <2>2. gw' = gw \/ gw' = NewStream({})
      BY <1>2 DEF resume
    <2> QED BY <2>1, <2>2, NewStreamIsEmpty DEF Less
  <1>3. CASE ReconcilePending
    <2>1. page'.drafts = page.drafts /\ page'.pc # "run" /\ gw' = gw
      BY <1>3 DEF ReconcilePending, Shape, PageFields
    <2> QED BY <2>1 DEF Less
  <1>4. CASE Submit
    <2>1. page'.drafts = page.drafts
      BY <1>4 DEF Submit, Shape, PageFields
    <2>2. \/ gw' = gw /\ page'.pc # "run"
          \/ gw' = NewStream(page.offered)
      BY <1>4 DEF Submit, Shape, PageFields
    <2> QED BY <2>1, <2>2, NewStreamIsEmpty DEF Less
  <1> QED BY <1>1, <1>2, <1>3, <1>4 DEF PageStep

----
\* Frames the stream takes in

LEMMA ReceiveKeeps ==
    ASSUME Shape, NEW c \in Cuts, Drafting(c, obs), LiveOK, NEW f \in gw.wire, receive(f)
    PROVE  Drafting(c, obs)' /\ LiveOK'
  <1>1. UNCHANGED <<task, live, feed, obs, page>>
    BY DEF receive
  <1>2. f \in Wire /\ FrameOK(c, f) /\ Below(obs, f.id, f.offset + 1)
    BY DEF Drafting, StreamOK, FramesOK, FrameOK
  <1>3. gw.previews \in Seq(Wire) /\ Len(gw.previews) \in Nat
    BY DEF Drafting, StreamOK
  <1>4. CASE gw' = [gw EXCEPT !.preview = FALSE, !.previews = <<>>, !.wire = {}]
    <2>1. gw'.wire = {} /\ gw'.previews = <<>> /\ gw'.acc = gw.acc
      BY <1>4 DEF Shape, StreamFields
    <2>2. Less
      BY <1>1, <2>1 DEF Less
    <2> QED BY <1>1, <2>2, LessKeeps
  <1>5. ASSUME NEW left \in {gw.wire \ {f}, gw.wire}, Len(gw.previews) < MaxQueue,
               gw' = [gw EXCEPT !.previews = Append(@, f), !.wire = left]
        PROVE  Drafting(c, obs)' /\ LiveOK'
    <2>1. gw'.wire = left /\ gw'.previews = Append(gw.previews, f) /\ gw'.acc = gw.acc
      BY <1>5 DEF Shape, StreamFields
    <2>2. /\ Append(gw.previews, f) \in Seq(Wire) /\ Len(Append(gw.previews, f)) <= MaxQueue
          /\ \A g \in ToSet(Append(gw.previews, f)) : g = f \/ g \in ToSet(gw.previews)
      BY <1>2, <1>3, <1>5, StreamAssumption DEF ToSet
    <2>3. FramesOK(c, obs, left) /\ FramesOK(c, obs, ToSet(Append(gw.previews, f)))
      BY <1>2, <2>2 DEF Drafting, StreamOK, FramesOK
    <2>4. StreamOK(c, obs)'
      BY <1>1, <2>1, <2>2, <2>3 DEF Drafting, StreamOK, FramesOK, FrameOK, Below
    <2>5. ObsOK(c, obs)'
      BY <1>1 DEF Drafting, ObsOK, Session, Open, Pos, Cut, FramesOK, FrameOK, Below
    <2>6. FeedOK(c, obs)' /\ LiveOK'
      BY <1>1 DEF Drafting, FeedOK, AtLive, Open, Pos, Cut, LiveOK
    <2>7. DraftsOK(c)'
      BY <1>1, <2>1 DEF Drafting, DraftsOK
    <2> QED BY <2>4, <2>5, <2>6, <2>7 DEF Drafting
  <1>6. PICK left \in {gw.wire \ {f}, gw.wire} :
            gw' = IF Len(gw.previews) >= MaxQueue
                  THEN [gw EXCEPT !.preview = FALSE, !.previews = <<>>, !.wire = {}]
                  ELSE [gw EXCEPT !.previews = Append(@, f), !.wire = left]
    BY DEF receive
  <1>7. Len(gw.previews) >= MaxQueue \/ Len(gw.previews) < MaxQueue
    BY <1>3, StreamAssumption
  <1> QED BY <1>4, <1>5, <1>6, <1>7

\* The frame that WritePreview takes, and what the accumulator makes of it.
LEMMA AcceptFacts ==
    ASSUME NEW c \in Cuts, StreamOK(c, obs), NEW f, FrameOK(c, f), Below(obs, f.id, f.offset + 1),
           NEW id \in DOMAIN accept(gw.acc, f)
    PROVE  /\ accept(gw.acc, f)[id] \in [next : Nat \ {0}, ended : BOOLEAN]
           /\ Below(obs, id, accept(gw.acc, f)[id].next)
           /\ \/ id \in DOMAIN gw.acc /\ accept(gw.acc, f)[id] = gw.acc[id]
              \/ accept(gw.acc, f)[id].ended
              \/ id = f.id /\ accept(gw.acc, f)[id].next = f.offset + 1 /\ Accepted(gw.acc, f)
  <1>0. f.offset \in Nat /\ f.id \in Ids
    BY DEF FrameOK, Wire
  <1>1. CASE Rejects(gw.acc, f)
    BY <1>1 DEF accept, StreamOK
  <1>2. CASE ~Rejects(gw.acc, f) /\ Gap(gw.acc, f)
    <2>1. f.id \in DOMAIN gw.acc /\ StateOf(gw.acc, f) = gw.acc[f.id]
      BY <1>2 DEF Rejects, Gap, StateOf
    <2>2. accept(gw.acc, f) = With(gw.acc, f.id, [gw.acc[f.id] EXCEPT !.ended = TRUE])
      BY <1>2, <2>1 DEF accept
    <2>3. /\ DOMAIN accept(gw.acc, f) = DOMAIN gw.acc
          /\ accept(gw.acc, f)[id] = IF id = f.id THEN [gw.acc[f.id] EXCEPT !.ended = TRUE]
                                     ELSE gw.acc[id]
      BY <2>1, <2>2 DEF With
    <2> QED BY <2>1, <2>3 DEF StreamOK
  <1>3. CASE Accepted(gw.acc, f)
    <2>1. accept(gw.acc, f) = With(gw.acc, f.id, [next |-> f.offset + 1, ended |-> f.type = "end"])
      BY <1>3 DEF accept, Accepted
    <2>2. /\ id # f.id => id \in DOMAIN gw.acc
          /\ accept(gw.acc, f)[id] = IF id = f.id THEN [next |-> f.offset + 1,
                                                        ended |-> f.type = "end"]
                                     ELSE gw.acc[id]
      BY <2>1 DEF With
    <2>3. CASE id = f.id
      BY <1>0, <1>3, <2>2, <2>3
    <2>4. CASE id # f.id
      BY <2>2, <2>4 DEF StreamOK
    <2> QED BY <2>3, <2>4
  <1> QED BY <1>1, <1>2, <1>3 DEF Accepted

\* An accepted frame continues the draft it is written to.
LEMMA DraftGrows ==
    ASSUME Shape, NEW c \in Cuts, StreamOK(c, obs), DraftsOK(c), page.pc = "run",
           NEW f, FrameOK(c, f), Accepted(gw.acc, f),
           NEW id \in DOMAIN OnDraft(page, f).drafts
    PROVE  /\ id \in Ids
           /\ \E n \in 0..TextLen :
                 /\ OnDraft(page, f).drafts[id] = Part(0, n)
                 /\ id = f.id /\ f.type # "end" => n = c[id][f.offset + 1]
                 /\ id # f.id /\ id \in DOMAIN gw.acc /\ ~ gw.acc[id].ended
                       => n = c[id][gw.acc[id].next]
  <1>0. /\ f.id \in Ids /\ f.offset \in Nat /\ f.type \in Kinds
        /\ c[f.id] \in [Nat -> 0..TextLen] /\ c[f.id][1] = 0 /\ TextLen \in Nat
    BY StreamAssumption DEF FrameOK, Wire, Cuts
  <1>1. CASE f.type = "start"
    <2>1. OnDraft(page, f).drafts = With(page.drafts, f.id, <<>>)
      BY <1>1 DEF OnDraft, Shape, PageFields
    <2>2. CASE id = f.id
      <3>1. OnDraft(page, f).drafts[id] = Part(0, 0)
        BY <2>1, <2>2, <1>0, PartFacts DEF With
      <3>2. f.offset = 0
        BY <1>1 DEF FrameOK
      <3> QED BY <1>0, <2>2, <3>1, <3>2
    <2>3. CASE id # f.id
      <3>1. id \in DOMAIN page.drafts /\ OnDraft(page, f).drafts[id] = page.drafts[id]
        BY <2>1, <2>3 DEF With
      <3> QED BY <2>3, <3>1 DEF DraftsOK
    <2> QED BY <2>2, <2>3
  <1>2. CASE f.type # "start" /\ f.id \notin DOMAIN page.drafts
    <2>1. OnDraft(page, f) = page
      BY <1>2 DEF OnDraft
    <2> QED BY <1>2, <2>1 DEF DraftsOK
  <1>3. CASE f.type # "start" /\ f.id \in DOMAIN page.drafts
    <2>1. OnDraft(page, f).drafts = [page.drafts EXCEPT ![f.id] = @ \o f.text]
      BY <1>3 DEF OnDraft, Shape, PageFields
    <2>2. CASE id # f.id
      <3>1. id \in DOMAIN page.drafts /\ OnDraft(page, f).drafts[id] = page.drafts[id]
        BY <2>1, <2>2
      <3> QED BY <2>2, <3>1 DEF DraftsOK
    <2>3. CASE id = f.id
      <3>1. OnDraft(page, f).drafts[id] = page.drafts[id] \o f.text
        BY <1>3, <2>1, <2>3
      <3>2. id \in DOMAIN gw.acc /\ ~ gw.acc[id].ended /\ gw.acc[id].next = f.offset
        BY <1>3, <2>3 DEF Accepted, Rejects, Gap, StateOf
      <3>3. page.drafts[id] = Part(0, c[id][f.offset]) /\ c[id][f.offset] \in 0..TextLen
        BY <1>3, <2>3, <3>2 DEF DraftsOK
      <3>4. CASE f.type = "delta"
        <4>1. /\ c[id][f.offset] <= c[id][f.offset + 1]
              /\ f.text = Part(c[id][f.offset], c[id][f.offset + 1])
          BY <2>3, <3>4 DEF FrameOK
        <4>2. c[id][f.offset + 1] \in 0..TextLen /\ c[id][f.offset] \in Nat
              /\ c[id][f.offset + 1] \in Nat /\ c[id][f.offset + 1] <= TextLen /\ 0 <= c[id][f.offset]
          BY <1>0, <2>3, <3>3
        <4>3. Part(0, c[id][f.offset]) \o f.text = Part(0, c[id][f.offset + 1])
          BY <4>1, <4>2, PartsJoin, ZenonT(60)
        <4> QED BY <1>0, <2>3, <3>1, <3>3, <4>2, <4>3
      <3>5. CASE f.type = "end"
        <4>1. f.text = <<>>
          BY <3>5 DEF FrameOK
        <4>2. Part(0, c[id][f.offset]) \in Seq(1..TextLen)
          <5>1. c[id][f.offset] \in Nat /\ 0 <= c[id][f.offset] /\ c[id][f.offset] <= TextLen
            BY <1>0, <3>3
          <5> QED BY <5>1, PartFacts
        <4>3. Part(0, c[id][f.offset]) \o f.text = Part(0, c[id][f.offset])
          BY <4>1, <4>2
        <4> QED BY <1>0, <2>3, <3>1, <3>3, <3>5, <4>3
      <3> QED BY <1>0, <1>3, <3>4, <3>5 DEF Kinds
    <2> QED BY <2>2, <2>3
  <1> QED BY <1>1, <1>2, <1>3

LEMMA WriteKeeps ==
    ASSUME Shape, NEW c \in Cuts, Drafting(c, obs), LiveOK, WritePreview
    PROVE  Drafting(c, obs)' /\ LiveOK'
  <1>1. UNCHANGED <<task, live, feed, obs>>
    BY DEF WritePreview
  <1>2. PICK f : f = Head(gw.previews)
    OBVIOUS
  <1>3. /\ gw.previews \in Seq(Wire) /\ gw.previews # <<>> /\ Len(gw.previews) <= MaxQueue
        /\ f \in ToSet(gw.previews)
    BY <1>2 DEF WritePreview, Drafting, StreamOK, ToSet
  <1>4. FrameOK(c, f) /\ Below(obs, f.id, f.offset + 1)
    BY <1>3 DEF Drafting, StreamOK, FramesOK
  <1>5. /\ gw'.wire = gw.wire /\ gw'.previews = Tail(gw.previews)
        /\ gw'.acc = accept(gw.acc, f)
        /\ page' = IF Accepted(gw.acc, f) THEN OnDraft(page, f) ELSE page
    BY <1>2 DEF WritePreview, Shape, StreamFields
  <1>6. ObsOK(c, obs)'
    BY <1>1 DEF Drafting, ObsOK, Session, Open, Pos, Cut, FramesOK, FrameOK, Below
  <1>7. FeedOK(c, obs)' /\ LiveOK'
    BY <1>1 DEF Drafting, FeedOK, AtLive, Open, Pos, Cut, LiveOK
  <1>8. StreamOK(c, obs)'
    <2>1. /\ Tail(gw.previews) \in Seq(Wire) /\ Len(Tail(gw.previews)) <= MaxQueue
          /\ \A g \in ToSet(Tail(gw.previews)) : g \in ToSet(gw.previews)
      BY <1>3, StreamAssumption DEF ToSet
    <2>2. /\ FramesOK(c, obs, gw.wire)' /\ FramesOK(c, obs, ToSet(gw.previews))'
      BY <1>1, <1>5, <2>1 DEF Drafting, StreamOK, FramesOK, FrameOK, Below
    <2>3. \A id \in DOMAIN accept(gw.acc, f) :
             /\ accept(gw.acc, f)[id] \in [next : Nat \ {0}, ended : BOOLEAN]
             /\ Below(obs, id, accept(gw.acc, f)[id].next)
      BY <1>4, AcceptFacts DEF Drafting
    <2> QED BY <1>1, <1>5, <2>1, <2>2, <2>3 DEF StreamOK, Below
  <1>9. DraftsOK(c)'
    <2>1. ASSUME NEW id \in DOMAIN page'.drafts
          PROVE  /\ id \in Ids
                 /\ \E n \in 0..TextLen :
                       /\ page'.drafts[id] = Part(0, n)
                       /\ page'.pc = "run" /\ id \in DOMAIN gw'.acc /\ ~ gw'.acc[id].ended
                             => n = c[id][gw'.acc[id].next]
      <3>1. id \in DOMAIN gw'.acc =>
               \/ id \in DOMAIN gw.acc /\ gw'.acc[id] = gw.acc[id]
               \/ gw'.acc[id].ended
               \/ id = f.id /\ gw'.acc[id].next = f.offset + 1 /\ Accepted(gw.acc, f)
        BY <1>4, <1>5, AcceptFacts DEF Drafting
      <3>2. CASE ~Accepted(gw.acc, f)
        BY <1>5, <3>1, <3>2 DEF Drafting, DraftsOK
      <3>3. CASE Accepted(gw.acc, f) /\ page.pc # "run"
        <4>1. page'.drafts = page.drafts /\ page'.pc # "run"
          BY <1>5, <3>3 DEF OnDraft, Shape, PageFields
        <4> QED BY <4>1 DEF Drafting, DraftsOK
      <3>4. CASE Accepted(gw.acc, f) /\ page.pc = "run"
        <4>1. PICK n \in 0..TextLen :
                 /\ page'.drafts[id] = Part(0, n)
                 /\ id = f.id /\ f.type # "end" => n = c[id][f.offset + 1]
                 /\ id # f.id /\ id \in DOMAIN gw.acc /\ ~ gw.acc[id].ended
                       => n = c[id][gw.acc[id].next]
          BY <1>4, <1>5, <3>4, DraftGrows DEF Drafting
        <4>2. id \in Ids
          BY <1>4, <1>5, <3>4, DraftGrows DEF Drafting
        <4>3. f.id \in DOMAIN gw'.acc /\ gw'.acc[f.id] = [next |-> f.offset + 1,
                                                           ended |-> f.type = "end"]
          BY <1>5, <3>4 DEF accept, Accepted, With
        <4>4. id \in DOMAIN gw'.acc /\ ~ gw'.acc[id].ended => n = c[id][gw'.acc[id].next]
          <5>1. CASE id = f.id
            <6>1. gw'.acc[id].next = f.offset + 1
              BY <4>3, <5>1
            <6>2. gw'.acc[id].ended = (f.type = "end")
              BY <4>3, <5>1
            <6>3. ~ gw'.acc[id].ended => f.type # "end"
              BY <6>2, Zenon
            <6> QED BY <4>1, <5>1, <6>1, <6>3
          <5>2. CASE id # f.id
            BY <3>1, <4>1, <5>2
          <5> QED BY <5>1, <5>2
        <4> QED BY <4>1, <4>2, <4>4
      <3> QED BY <3>2, <3>3, <3>4
    <2> QED BY <2>1 DEF DraftsOK
  <1> QED BY <1>6, <1>7, <1>8, <1>9 DEF Drafting

----
\* The frames of the observer

LEMMA NoFrames == ASSUME NEW o, NEW type PROVE Frames(o, {}, type) = <<>>
  <1>1. Cardinality({}) = 0
    BY FS_EmptySet
  <1> QED BY <1>1 DEF Frames

LEMMA OneInOrder == ASSUME NEW m PROVE InOrder({m})[1] = m
  <1>1. Cardinality({m}) = 1
    BY FS_Singleton
  <1> DEFINE Ordered(s) == \A i, j \in DOMAIN s : i < j => s[i] < s[j]
  <1>2. [i \in 1..1 |-> m] \in [1..1 -> {m}] /\ Ordered([i \in 1..1 |-> m])
    OBVIOUS
  <1>3. InOrder({m}) = CHOOSE s \in [1..1 -> {m}] : Ordered(s)
    BY <1>1 DEF InOrder
  <1>4. \E s \in [1..1 -> {m}] : Ordered(s)
    BY <1>2
  <1> HIDE DEF Ordered
  <1>5. InOrder({m}) \in [1..1 -> {m}]
    BY <1>3, <1>4
  <1> QED BY <1>5

LEMMA OneFrame ==
    ASSUME NEW o, NEW m, NEW type
    PROVE  Frames(o, {m}, type) =
               <<Frame(<<o.phase, m>>, o.msgs[m].offset, type,
                       IF type = "delta" THEN o.msgs[m].pending ELSE <<>>)>>
  <1>1. Cardinality({m}) = 1
    BY FS_Singleton
  <1>2. PICK q : q = Frame(<<o.phase, m>>, o.msgs[m].offset, type,
                           IF type = "delta" THEN o.msgs[m].pending ELSE <<>>)
    OBVIOUS
  <1>3. \A i \in 1..1 : InOrder({m})[i] = m
    <2>1. \A i \in 1..1 : i = 1
      OBVIOUS
    <2> QED BY <2>1, OneInOrder, Zenon
  <1>4. Frames(o, {m}, type) = [i \in 1..1 |-> q]
    BY <1>1, <1>2, <1>3 DEF Frames
  <1> QED BY <1>2, <1>4

\* An observer that stops, or is stopped by a full queue, knows no frame.
LEMMA StopKeeps ==
    ASSUME NEW c, NEW o, NEW p, ObsOK(c, o), StreamOK(c, o),
           IsObs(p), p.pc = "off", p.queue = <<>>, p.hint = o.hint
    PROVE  ObsOK(c, p) /\ StreamOK(c, p)
  <1>1. \A id, n : Below(o, id, n) => Below(p, id, n)
    BY DEF Below
  <1>2. <<>> \in Seq(Wire) /\ Len(<<>>) <= MaxQueue /\ ToSet(<<>>) = {}
    BY StreamAssumption DEF ToSet
  <1>3. ObsOK(c, p)
    BY <1>2 DEF ObsOK, FramesOK
  <1>4. StreamOK(c, p)
    BY <1>1 DEF StreamOK, FramesOK
  <1> QED BY <1>3, <1>4

\* An observer that has sent at most one more frame, of a message it goes on with.
LEMMA SendKeeps ==
    ASSUME NEW c, NEW d, NEW o, NEW p, ObsOK(c, o), StreamOK(c, o), o.pc # "off",
           IsObs(p), Session(d, p),
           p.pc \in {"on", "drain"}, p.phase = o.phase, p.hint = o.hint,
           \A m \in DOMAIN o.msgs : m \in DOMAIN p.msgs /\ o.msgs[m].offset <= p.msgs[m].offset,
           \A m \in DOMAIN p.msgs : p.msgs[m].offset \in Nat,
           \A m \in DOMAIN o.msgs : o.msgs[m].offset \in Nat,
           \A f : FrameOK(c, f) /\ Below(o, f.id, f.offset + 1) => FrameOK(d, f),
           \/ p.queue = o.queue
           \/ \E q : /\ p.queue = Append(o.queue, q) /\ Len(o.queue) < MaxQueue
                     /\ FrameOK(d, q) /\ Below(p, q.id, q.offset + 1)
    PROVE  ObsOK(d, p) /\ StreamOK(d, p)
  <1>1. ASSUME NEW id, NEW n \in Nat, Below(o, id, n) PROVE Below(p, id, n)
    <2>1. /\ id \in Ids /\ id[1] <= task.asked
          /\ p.hint \/ task.st = "INPUT_REQUIRED" => id[1] < task.asked
      BY <1>1 DEF Below
    <2>2. id[1] = p.phase => id[2] \in DOMAIN o.msgs /\ n <= o.msgs[id[2]].offset
      BY <1>1 DEF Below
    <2>3. id[1] = p.phase => id[2] \in DOMAIN p.msgs /\ n <= p.msgs[id[2]].offset
      BY <2>2
    <2> QED BY <2>1, <2>3 DEF Below
  <1>2. ASSUME NEW f, FrameOK(c, f), Below(o, f.id, f.offset + 1)
        PROVE  FrameOK(d, f) /\ Below(p, f.id, f.offset + 1)
    <2>1. f.offset + 1 \in Nat
      BY <1>2 DEF FrameOK, Wire
    <2> QED BY <1>1, <1>2, <2>1
  <1>3. StreamOK(d, p)
    <2>1. FramesOK(d, p, gw.wire) /\ FramesOK(d, p, ToSet(gw.previews))
      BY <1>2 DEF StreamOK, FramesOK
    <2>2. \A id \in DOMAIN gw.acc : Below(p, id, gw.acc[id].next)
      BY <1>1 DEF StreamOK
    <2> QED BY <2>1, <2>2 DEF StreamOK
  <1>4. FramesOK(d, p, ToSet(o.queue))
    BY <1>2 DEF ObsOK, FramesOK
  <1>5. CASE p.queue = o.queue
    BY <1>3, <1>4, <1>5 DEF ObsOK
  <1>6. CASE \E q : /\ p.queue = Append(o.queue, q) /\ Len(o.queue) < MaxQueue
                    /\ FrameOK(d, q) /\ Below(p, q.id, q.offset + 1)
    <2>1. PICK q : /\ p.queue = Append(o.queue, q) /\ Len(o.queue) < MaxQueue
                   /\ FrameOK(d, q) /\ Below(p, q.id, q.offset + 1)
      BY <1>6
    <2>2. q \in Wire /\ o.queue \in Seq(Wire)
      BY <2>1 DEF FrameOK, ObsOK
    <2>3. p.queue \in Seq(Wire) /\ Len(p.queue) <= MaxQueue
      BY <2>1, <2>2, StreamAssumption
    <2>5. \A f \in ToSet(p.queue) : f = q \/ f \in ToSet(o.queue)
      BY <2>1, <2>2 DEF ToSet
    <2>4. FramesOK(d, p, ToSet(p.queue))
      BY <1>4, <2>1, <2>5 DEF FramesOK
    <2> QED BY <1>3, <2>3, <2>4 DEF ObsOK
  <1> QED BY <1>5, <1>6

\* What enqueue() and flush() leave of an observer, field by field.
Over(o, fs) == o.pc = "off" \/ Len(o.queue) + Len(fs) > MaxQueue

LEMMA EnqueueFacts ==
    ASSUME NEW o, IsObs(o), NEW ms, NEW fs, NEW p, p = enqueue([o EXCEPT !.msgs = ms], fs)
    PROVE  /\ IsObs(p) /\ p.phase = o.phase /\ p.hint = o.hint /\ p.msgs = ms
           /\ Over(o, fs) => p.pc = "off" /\ p.queue = <<>>
           /\ ~Over(o, fs) => p.pc = o.pc /\ p.queue = o.queue \o fs
  BY DEF enqueue, IsObs, ObsFields, Over

LEMMA SendFacts ==
    ASSUME NEW o, IsObs(o), NEW ts, NEW type, NEW p, p = send(o, ts, type),
           NEW fs, fs = Frames(o, ts, type)
    PROVE  /\ IsObs(p) /\ p.phase = o.phase /\ p.hint = o.hint
           /\ DOMAIN p.msgs = DOMAIN o.msgs
           /\ \A m \in DOMAIN o.msgs :
                 p.msgs[m] = IF m \in ts THEN After(o.msgs[m], type) ELSE o.msgs[m]
           /\ Over(o, fs) => p.pc = "off" /\ p.queue = <<>>
           /\ ~Over(o, fs) => p.pc = o.pc /\ p.queue = o.queue \o fs
  <1>1. PICK ms : ms = [m \in DOMAIN o.msgs |-> IF m \in ts THEN After(o.msgs[m], type)
                                                 ELSE o.msgs[m]]
    OBVIOUS
  <1>2. p = enqueue([o EXCEPT !.msgs = ms], fs)
    BY <1>1 DEF send
  <1>3. /\ DOMAIN ms = DOMAIN o.msgs
        /\ \A m \in DOMAIN o.msgs : ms[m] = IF m \in ts THEN After(o.msgs[m], type) ELSE o.msgs[m]
    BY <1>1
  <1>4. /\ IsObs(p) /\ p.phase = o.phase /\ p.hint = o.hint /\ p.msgs = ms
        /\ Over(o, fs) => p.pc = "off" /\ p.queue = <<>>
        /\ ~Over(o, fs) => p.pc = o.pc /\ p.queue = o.queue \o fs
    BY <1>2 DEF enqueue, IsObs, ObsFields, Over
  <1> QED BY <1>3, <1>4

LEMMA AfterFacts ==
    ASSUME NEW s \in [offset : Nat \ {0}, pending : Seq(1..TextLen), ended : BOOLEAN], NEW type
    PROVE  /\ After(s, type) \in [offset : Nat \ {0}, pending : Seq(1..TextLen), ended : BOOLEAN]
           /\ After(s, type).offset = s.offset + 1
           /\ After(s, "delta").pending = <<>> /\ After(s, "delta").ended = s.ended
           /\ After(s, "end").pending = s.pending /\ After(s, "end").ended
  <1>1. s.offset + 1 \in Nat \ {0} /\ <<>> \in Seq(1..TextLen)
    OBVIOUS
  <1>2. CASE type = "delta"
    BY <1>1, <1>2 DEF After
  <1>3. CASE type # "delta"
    BY <1>1, <1>3 DEF After
  <1> QED BY <1>2, <1>3 DEF After

\* The observer after flush(): stopped, or with nothing that waits and where it was.
Caught(c, d, o, p) ==
    /\ p.phase = o.phase /\ p.hint = o.hint
    /\ p.pc # "off" =>
          /\ p.pc = o.pc /\ Open(p) = Open(o) /\ DOMAIN p.msgs = DOMAIN o.msgs
          /\ \A m \in Open(o) : p.msgs[m].pending = <<>> /\ Pos(d, p, m) = Pos(c, o, m)

\* The lengths and places of an open message.
LEMMA OpenFacts ==
    ASSUME NEW c \in Cuts, NEW o, Session(c, o), NEW m \in DOMAIN o.msgs
    PROVE  /\ m \in Msgs /\ <<o.phase, m>> \in Ids
           /\ o.msgs[m].offset \in Nat \ {0} /\ o.msgs[m].ended \in BOOLEAN
           /\ c[<<o.phase, m>>] \in [Nat -> 0..TextLen] /\ Cut(c, o, m) \in 0..TextLen
           /\ Len(o.msgs[m].pending) \in Nat /\ Cut(c, o, m) <= Pos(c, o, m)
  <1>1. m \in Msgs /\ o.msgs[m] \in [offset : Nat \ {0}, pending : Seq(1..TextLen), ended : BOOLEAN]
    BY DEF Session
  <1>2. <<o.phase, m>> \in Ids
    BY <1>1 DEF Session, Ids
  <1>3. c[<<o.phase, m>>] \in [Nat -> 0..TextLen]
    BY <1>2 DEF Cuts
  <1>4. Len(o.msgs[m].pending) \in Nat
    BY <1>1
  <1>5. Cut(c, o, m) \in 0..TextLen
    BY <1>1, <1>3 DEF Cut
  <1>6. Cut(c, o, m) <= Cut(c, o, m) + Len(o.msgs[m].pending)
    BY <1>4, <1>5, StreamAssumption
  <1> QED BY <1>1, <1>2, <1>3, <1>4, <1>5, <1>6 DEF Pos

\* flush(): the text that waits for the open message becomes the frame at its offset,
\* and the next cut of the message is where that text ends.
LEMMA FlushKeeps ==
    ASSUME NEW c \in Cuts, NEW o, ObsOK(c, o), StreamOK(c, o), DraftsOK(c), o.pc # "off",
           NEW p, p = flush(o)
    PROVE  \E d \in Cuts : /\ ObsOK(d, p) /\ StreamOK(d, p) /\ DraftsOK(d)
                           /\ Caught(c, d, o, p)
  <1>0. /\ IsObs(o) /\ Session(c, o) /\ o.pc \in {"on", "drain"} /\ o.queue \in Seq(Wire)
        /\ Len(o.queue) \in Nat /\ Len(o.queue) <= MaxQueue /\ MaxQueue \in Nat
    BY StreamAssumption DEF ObsOK
  <1>1. PICK fs : fs = Frames(o, Waiting(o), "delta")
    OBVIOUS
  <1>2. /\ IsObs(p) /\ p.phase = o.phase /\ p.hint = o.hint
        /\ DOMAIN p.msgs = DOMAIN o.msgs
        /\ \A m \in DOMAIN o.msgs :
              p.msgs[m] = IF m \in Waiting(o) THEN After(o.msgs[m], "delta") ELSE o.msgs[m]
        /\ Over(o, fs) => p.pc = "off" /\ p.queue = <<>>
        /\ ~Over(o, fs) => p.pc = o.pc /\ p.queue = o.queue \o fs
    <2>1. PICK ts : ts = Waiting(o)
      OBVIOUS
    <2>2. p = send(o, ts, "delta") /\ fs = Frames(o, ts, "delta")
      BY <1>1, <2>1 DEF flush
    <2>3. IsObs(o)
      BY <1>0
    <2>4. /\ IsObs(p) /\ p.phase = o.phase /\ p.hint = o.hint
          /\ DOMAIN p.msgs = DOMAIN o.msgs
          /\ \A m \in DOMAIN o.msgs :
                p.msgs[m] = IF m \in ts THEN After(o.msgs[m], "delta") ELSE o.msgs[m]
          /\ Over(o, fs) => p.pc = "off" /\ p.queue = <<>>
          /\ ~Over(o, fs) => p.pc = o.pc /\ p.queue = o.queue \o fs
      BY <2>2, <2>3, SendFacts
    <2> QED BY <2>1, <2>4
  <1>3. CASE Over(o, fs)
    <2>1. ObsOK(c, p) /\ StreamOK(c, p)
      BY <1>2, <1>3, StopKeeps
    <2> QED BY <1>2, <1>3, <2>1 DEF Caught
  <1>4. CASE ~Over(o, fs) /\ Waiting(o) = {}
    <2>1. /\ p.pc = o.pc /\ p.queue = o.queue
          /\ \A m \in DOMAIN o.msgs : p.msgs[m] = o.msgs[m]
      <3>1. fs = <<>>
        BY <1>1, <1>4, NoFrames
      <3> QED BY <1>0, <1>2, <1>4, <3>1
    <2>2. /\ Open(p) = Open(o)
          /\ \A m \in DOMAIN o.msgs : Cut(c, p, m) = Cut(c, o, m) /\ Pos(c, p, m) = Pos(c, o, m)
      BY <1>2, <2>1 DEF Open, Cut, Pos
    <2>3. Session(c, p)
      BY <1>0, <1>2, <2>1, <2>2 DEF Session
    <2>4. \A m \in DOMAIN o.msgs : o.msgs[m].offset \in Nat
      BY <1>0, OpenFacts
    <2>5. ObsOK(c, p) /\ StreamOK(c, p)
      BY <1>0, <1>2, <2>1, <2>3, <2>4, SendKeeps
    <2>6. \A m \in Open(o) : p.msgs[m].pending = <<>>
      BY <1>4, <2>1 DEF Open, Waiting
    <2>7. Open(o) \subseteq DOMAIN o.msgs
      BY DEF Open
    <2>8. Caught(c, c, o, p)
      BY <1>2, <2>1, <2>2, <2>6, <2>7 DEF Caught
    <2> QED BY <2>5, <2>8
  <1>5. ASSUME ~Over(o, fs), NEW m \in Waiting(o)
        PROVE  \E d \in Cuts : /\ ObsOK(d, p) /\ StreamOK(d, p) /\ DraftsOK(d)
                               /\ Caught(c, d, o, p)
    <2>1. PICK id, k, a, b : /\ id = <<o.phase, m>> /\ k = o.msgs[m].offset
                             /\ a = Cut(c, o, m) /\ b = Pos(c, o, m)
      OBVIOUS
    <2>2. m \in DOMAIN o.msgs /\ m \in Open(o)
      BY <1>0, <1>5 DEF Waiting, Session, Open
    <2>3. Waiting(o) = {m}
      BY <1>0, <1>5, <2>2 DEF Waiting, Session, Open
    <2>4. /\ id \in Ids /\ k \in Nat \ {0} /\ a \in 0..TextLen /\ b \in 0..TextLen /\ a <= b
          /\ a = c[id][k] /\ o.msgs[m].pending = Part(a, b)
      <3>1. b <= TextLen /\ o.msgs[m].pending = Part(a, b)
        BY <1>0, <2>1, <2>2 DEF Session, Open
      <3>2. /\ id \in Ids /\ k \in Nat \ {0} /\ a \in 0..TextLen /\ a <= b
            /\ Len(o.msgs[m].pending) \in Nat
        BY <1>0, <2>1, <2>2, OpenFacts
      <3>3. b = a + Len(o.msgs[m].pending) /\ a = c[id][k]
        BY <2>1 DEF Pos, Cut
      <3> QED BY <3>1, <3>2, <3>3, StreamAssumption
    <2>5. PICK d : d = [c EXCEPT ![id] = [c[id] EXCEPT ![k + 1] = b]]
      OBVIOUS
    <2>6. /\ d \in Cuts /\ d[id][k] = a /\ d[id][k + 1] = b
          /\ \A i, n : i \in Ids /\ n \in Nat /\ (i # id \/ n <= k) => d[i][n] = c[i][n]
      <3>1. c \in [Ids -> [Nat -> 0..TextLen]] /\ \A i \in Ids : c[i][1] = 0
        BY DEF Cuts
      <3>2. d \in [Ids -> [Nat -> 0..TextLen]]
        BY <2>4, <2>5, <3>1
      <3>3. \A n \in Nat : d[id][n] = IF n = k + 1 THEN b ELSE c[id][n]
        BY <2>4, <2>5, <3>1
      <3>4. \A i \in Ids : i # id => d[i] = c[i]
        BY <2>5, <3>1
      <3>5. \A i \in Ids : d[i][1] = 0
        BY <2>4, <3>1, <3>3, <3>4
      <3> QED BY <2>4, <3>2, <3>3, <3>4, <3>5 DEF Cuts
    <2>7. PICK q : q = Frame(id, k, "delta", Part(a, b))
      OBVIOUS
    <2>8. fs = <<q>>
      BY <1>1, <2>1, <2>3, <2>4, <2>7, OneFrame
    <2>9. /\ p.pc = o.pc /\ Len(o.queue) < MaxQueue /\ p.queue = Append(o.queue, q)
      BY <1>0, <1>2, <1>5, <2>8 DEF Over
    <2>10. /\ p.msgs[m].offset = k + 1 /\ p.msgs[m].pending = <<>>
           /\ p.msgs[m].ended = o.msgs[m].ended
           /\ \A n \in DOMAIN o.msgs : n # m => p.msgs[n] = o.msgs[n]
      <3>1. PICK s \in [offset : Nat \ {0}, pending : Seq(1..TextLen), ended : BOOLEAN] :
                s = o.msgs[m]
        BY <1>0, <2>2 DEF Session
      <3>2. p.msgs[m] = [s EXCEPT !.offset = @ + 1, !.pending = <<>>]
        BY <1>2, <2>2, <2>3, <3>1 DEF After
      <3>3. \A n \in DOMAIN o.msgs : n # m => p.msgs[n] = o.msgs[n]
        BY <1>2, <2>3
      <3> QED BY <2>1, <3>1, <3>2, <3>3
    <2>11. /\ Cut(d, p, m) = b /\ Pos(d, p, m) = b
           /\ \A n \in DOMAIN o.msgs : n # m => /\ Cut(d, p, n) = Cut(c, o, n)
                                                /\ Pos(d, p, n) = Pos(c, o, n)
      <3>1. Cut(d, p, m) = b /\ Len(p.msgs[m].pending) = 0
        BY <1>2, <2>1, <2>6, <2>10 DEF Cut
      <3>2. ASSUME NEW n \in DOMAIN o.msgs, n # m
            PROVE  Cut(d, p, n) = Cut(c, o, n) /\ Pos(d, p, n) = Pos(c, o, n)
        <4>1. <<o.phase, n>> \in Ids /\ <<o.phase, n>> # id /\ o.msgs[n].offset \in Nat
          BY <1>0, <2>1, <3>2, OpenFacts
        <4>2. Cut(d, p, n) = Cut(c, o, n)
          BY <1>2, <2>6, <2>10, <3>2, <4>1 DEF Cut
        <4> QED BY <2>10, <3>2, <4>2 DEF Pos
      <3>3. Pos(d, p, m) = b
        BY <2>4, <3>1, StreamAssumption DEF Pos
      <3> QED BY <3>1, <3>2, <3>3
    <2>12. Open(p) = Open(o)
      BY <1>2, <2>10 DEF Open
    <2>13. Session(d, p)
      <3>1. ASSUME NEW n \in DOMAIN o.msgs
            PROVE  /\ n \in Msgs
                   /\ p.msgs[n] \in [offset : Nat \ {0}, pending : Seq(1..TextLen), ended : BOOLEAN]
                   /\ IF p.msgs[n].ended THEN p.msgs[n].pending = <<>>
                      ELSE /\ Pos(d, p, n) <= TextLen
                           /\ p.msgs[n].pending = Part(Cut(d, p, n), Pos(d, p, n))
        <4>1. CASE n # m
          BY <1>0, <2>10, <2>11, <4>1 DEF Session
        <4>2. CASE n = m
          <5>1. Part(b, b) = <<>> /\ <<>> \in Seq(1..TextLen)
            BY <2>4, PartFacts
          <5>2. p.msgs[m] \in [offset : Nat \ {0}, pending : Seq(1..TextLen), ended : BOOLEAN]
            <6>1. PICK s \in [offset : Nat \ {0}, pending : Seq(1..TextLen), ended : BOOLEAN] :
                      s = o.msgs[m]
              BY <1>0, <2>2 DEF Session
            <6>2. p.msgs[m] = After(s, "delta")
              BY <1>2, <2>2, <2>3, <6>1
            <6> QED BY <6>2, AfterFacts
          <5> QED BY <1>0, <2>2, <2>4, <2>10, <2>11, <4>2, <5>1, <5>2 DEF Session
        <4> QED BY <4>1, <4>2
      <3> QED BY <1>0, <1>2, <2>9, <2>12, <3>1 DEF Session
    <2>14. FrameOK(d, q) /\ Below(p, q.id, q.offset + 1)
      <3>1. q.id = id /\ q.offset = k /\ q.type = "delta" /\ q.text = Part(a, b)
        BY <2>7 DEF Frame
      <3>2. q \in Wire
        <4>1. Part(a, b) \in Seq(1..TextLen)
          BY <2>4, PartFacts
        <4> QED BY <2>4, <2>7, <4>1 DEF Frame, Wire, Kinds
      <3>3. FrameOK(d, q)
        BY <2>4, <2>6, <3>1, <3>2 DEF FrameOK
      <3>4. Below(p, id, k + 1)
        BY <1>0, <1>2, <2>1, <2>2, <2>4, <2>10 DEF Below, Session
      <3> QED BY <3>1, <3>3, <3>4
    <2>15. ASSUME NEW f, FrameOK(c, f), Below(o, f.id, f.offset + 1) PROVE FrameOK(d, f)
      <3>1. f.id \in Ids /\ f.offset \in Nat
        BY <2>15 DEF FrameOK, Wire
      <3>2. f.id = id => f.offset + 1 <= k
        BY <1>0, <2>1, <2>15 DEF Below
      <3>3. d[f.id][f.offset] = c[f.id][f.offset] /\ d[f.id][f.offset + 1] = c[f.id][f.offset + 1]
        BY <2>4, <2>6, <3>1, <3>2
      <3> QED BY <2>15, <3>3 DEF FrameOK
    <2>16. \A n \in DOMAIN o.msgs : /\ o.msgs[n].offset \in Nat /\ p.msgs[n].offset \in Nat
                                    /\ o.msgs[n].offset <= p.msgs[n].offset
      <3>1. \A n \in DOMAIN o.msgs : o.msgs[n].offset \in Nat
        BY <1>0, OpenFacts
      <3> QED BY <2>1, <2>4, <2>10, <3>1
    <2>17. ObsOK(d, p) /\ StreamOK(d, p)
      BY <1>0, <1>2, <2>9, <2>13, <2>14, <2>15, <2>16, SendKeeps
    <2>18. DraftsOK(d)
      <3>1. ASSUME NEW i \in DOMAIN gw.acc PROVE d[i][gw.acc[i].next] = c[i][gw.acc[i].next]
        <4>1. gw.acc[i].next \in Nat /\ Below(o, i, gw.acc[i].next) /\ i \in Ids
          BY <3>1 DEF StreamOK, Below
        <4>2. i = id => gw.acc[i].next <= k
          BY <1>0, <2>1, <4>1 DEF Below
        <4> QED BY <2>6, <4>1, <4>2
      <3> QED BY <3>1 DEF DraftsOK
    <2>19. Caught(c, d, o, p)
      BY <1>2, <2>1, <2>2, <2>3, <2>9, <2>10, <2>11, <2>12 DEF Caught, Open, Waiting
    <2> QED BY <2>6, <2>17, <2>18, <2>19
  <1> QED BY <1>3, <1>4, <1>5

\* The end frame of the open message, after a flush.
LEMMA EndFrameKeeps ==
    ASSUME NEW d \in Cuts, NEW g, ObsOK(d, g), StreamOK(d, g), g.pc # "off",
           NEW m \in DOMAIN g.msgs, \A n \in Open(g) : n = m, g.msgs[m].pending = <<>>,
           NEW ts, \A n : n \in ts <=> n = m, NEW p, p = send(g, ts, "end")
    PROVE  /\ ObsOK(d, p) /\ StreamOK(d, p)
           /\ p.phase = g.phase /\ p.hint = g.hint
           /\ p.pc # "off" => p.pc = g.pc /\ Open(p) = {}
  <1>1. PICK fs : fs = Frames(g, ts, "end")
    OBVIOUS
  <1>2. /\ IsObs(g) /\ g.pc \in {"on", "drain"} /\ g.queue \in Seq(Wire) /\ Session(d, g)
        /\ Len(g.queue) \in Nat /\ Len(g.queue) <= MaxQueue /\ MaxQueue \in Nat
    BY StreamAssumption DEF ObsOK
  <1>3. /\ IsObs(p) /\ p.phase = g.phase /\ p.hint = g.hint
        /\ DOMAIN p.msgs = DOMAIN g.msgs
        /\ \A n \in DOMAIN g.msgs : p.msgs[n] = IF n \in ts THEN After(g.msgs[n], "end")
                                                ELSE g.msgs[n]
        /\ Over(g, fs) => p.pc = "off" /\ p.queue = <<>>
        /\ ~Over(g, fs) => p.pc = g.pc /\ p.queue = g.queue \o fs
    <2>1. IsObs(g)
      BY <1>2
    <2> QED BY <1>1, <2>1, SendFacts
  <1>4. CASE Over(g, fs)
    <2>1. ObsOK(d, p) /\ StreamOK(d, p)
      BY <1>3, <1>4, StopKeeps
    <2> QED BY <1>3, <1>4, <2>1
  <1>5. SUFFICES ASSUME ~Over(g, fs) PROVE ObsOK(d, p) /\ StreamOK(d, p) /\ Open(p) = {}
    BY <1>3, <1>4
  <1>6. PICK id, k : id = <<g.phase, m>> /\ k = g.msgs[m].offset
    OBVIOUS
  <1>7. id \in Ids /\ k \in Nat \ {0}
    BY <1>2, <1>6, OpenFacts
  <1>8. PICK q : q = Frame(id, k, "end", <<>>)
    OBVIOUS
  <1>9. fs = <<q>>
    <2>1. Frames(g, {m}, "end") = <<q>>
      BY <1>6, <1>8, OneFrame
    <2>2. ts = {m}
      OBVIOUS
    <2> QED BY <1>1, <2>1, <2>2
  <1>10. p.pc = g.pc /\ Len(g.queue) < MaxQueue /\ p.queue = Append(g.queue, q)
    <2>1. p.pc = g.pc /\ p.queue = g.queue \o <<q>> /\ ~ (Len(g.queue) + Len(<<q>>) > MaxQueue)
      BY <1>3, <1>5, <1>9 DEF Over
    <2>2. Len(<<q>>) = 1
      OBVIOUS
    <2>3. Len(g.queue) < MaxQueue
      BY <1>2, <2>1, <2>2
    <2>4. q \in Wire
      BY <1>7, <1>8 DEF Frame, Wire, Kinds
    <2> QED BY <1>2, <2>1, <2>3, <2>4
  <1>11. PICK s \in [offset : Nat \ {0}, pending : Seq(1..TextLen), ended : BOOLEAN] :
            s = g.msgs[m]
    BY <1>2 DEF Session
  <1>12. /\ p.msgs[m] = After(s, "end")
        /\ \A n \in DOMAIN g.msgs : n # m => p.msgs[n] = g.msgs[n]
    BY <1>3, <1>2, <1>11
  <1>13. /\ p.msgs[m] \in [offset : Nat \ {0}, pending : Seq(1..TextLen), ended : BOOLEAN]
         /\ p.msgs[m].offset = k + 1 /\ p.msgs[m].pending = <<>>
    BY <1>2, <1>6, <1>11, <1>12, AfterFacts
  <1>14. p.msgs[m].ended
    BY <1>12, AfterFacts
  <1>15. Open(p) = {}
    BY <1>3, <1>2, <1>12, <1>14 DEF Open
  <1>16. Session(d, p)
    <2>1. \A n \in DOMAIN g.msgs : n # m => Cut(d, p, n) = Cut(d, g, n) /\ Pos(d, p, n) = Pos(d, g, n)
      BY <1>3, <1>12 DEF Cut, Pos
    <2>2. ASSUME NEW n \in DOMAIN g.msgs
          PROVE  /\ n \in Msgs
                 /\ p.msgs[n] \in [offset : Nat \ {0}, pending : Seq(1..TextLen), ended : BOOLEAN]
                 /\ IF p.msgs[n].ended THEN p.msgs[n].pending = <<>>
                    ELSE /\ Pos(d, p, n) <= TextLen
                         /\ p.msgs[n].pending = Part(Cut(d, p, n), Pos(d, p, n))
      <3>1. CASE n # m
        BY <1>2, <1>12, <2>1, <3>1 DEF Session
      <3>2. CASE n = m
        BY <1>2, <1>13, <1>14, <3>2 DEF Session
      <3> QED BY <3>1, <3>2
    <2> QED BY <1>3, <1>2, <1>10, <1>15, <2>2 DEF Session
  <1>17. FrameOK(d, q) /\ Below(p, q.id, q.offset + 1)
    <2>1. q.id = id /\ q.offset = k /\ q.type = "end" /\ q.text = <<>>
      BY <1>8 DEF Frame
    <2>2. <<>> \in Seq(1..TextLen)
      OBVIOUS
    <2>3. q \in Wire
      BY <1>7, <1>8, <2>2 DEF Frame, Wire, Kinds
    <2>4. FrameOK(d, q)
      BY <2>1, <2>3 DEF FrameOK
    <2>5. Below(p, id, k + 1)
      <3>1. g.phase <= task.asked /\ (p.hint \/ task.st = "INPUT_REQUIRED" => g.phase < task.asked)
        BY <1>3, <1>2 DEF Session
      <3>2. id[1] = g.phase /\ id[2] = m /\ m \in DOMAIN p.msgs /\ k + 1 <= p.msgs[m].offset
        BY <1>3, <1>2, <1>6, <1>7, <1>13
      <3> QED BY <1>7, <3>1, <3>2 DEF Below
    <2> QED BY <2>1, <2>4, <2>5
  <1>18. \A n \in DOMAIN g.msgs : /\ g.msgs[n].offset \in Nat /\ p.msgs[n].offset \in Nat
                                  /\ g.msgs[n].offset <= p.msgs[n].offset
    <2>1. \A n \in DOMAIN g.msgs : g.msgs[n].offset \in Nat
      BY <1>2, OpenFacts
    <2>2. k <= p.msgs[m].offset /\ p.msgs[m].offset \in Nat
      BY <1>7, <1>13
    <2> QED BY <1>6, <1>12, <2>1, <2>2
  <1>19. ObsOK(d, p) /\ StreamOK(d, p)
    BY <1>2, <1>3, <1>10, <1>16, <1>17, <1>18, SendKeeps
  <1> QED BY <1>15, <1>19

\* end(): after a flush, the end frame of the open message.
LEMMA EndsKeep ==
    ASSUME NEW c \in Cuts, NEW o, ObsOK(c, o), StreamOK(c, o), DraftsOK(c), o.pc # "off",
           NEW m \in Open(o), NEW ts, \A n : n \in ts <=> n = m, NEW p, p = send(flush(o), ts, "end")
    PROVE  \E d \in Cuts : /\ ObsOK(d, p) /\ StreamOK(d, p) /\ DraftsOK(d)
                           /\ p.phase = o.phase /\ p.hint = o.hint
                           /\ p.pc # "off" => p.pc = o.pc /\ Open(p) = {}
  <1>1. PICK g : g = flush(o)
    OBVIOUS
  <1>2. PICK d \in Cuts : ObsOK(d, g) /\ StreamOK(d, g) /\ DraftsOK(d) /\ Caught(c, d, o, g)
    BY <1>1, FlushKeeps
  <1>3. p = send(g, ts, "end")
    BY <1>1
  <1>4. CASE g.pc = "off"
    <2>1. PICK fs : fs = Frames(g, ts, "end")
      OBVIOUS
    <2>2. IsObs(p) /\ p.phase = g.phase /\ p.hint = g.hint /\ p.pc = "off" /\ p.queue = <<>>
      BY <1>2, <1>3, <1>4, <2>1, SendFacts DEF ObsOK, Over
    <2>3. ObsOK(d, p) /\ StreamOK(d, p)
      BY <1>2, <2>2, StopKeeps
    <2> QED BY <1>2, <2>2, <2>3 DEF Caught
  <1>5. CASE g.pc # "off"
    <2>1. g.pc = o.pc /\ Open(g) = Open(o) /\ g.msgs[m].pending = <<>> /\ Session(d, g)
      BY <1>2, <1>5 DEF Caught, ObsOK
    <2>2. m \in DOMAIN g.msgs /\ \A n \in Open(g) : n = m
      BY <2>1 DEF Session, Open
    <2>3. /\ ObsOK(d, p) /\ StreamOK(d, p)
          /\ p.phase = g.phase /\ p.hint = g.hint
          /\ p.pc # "off" => p.pc = g.pc /\ Open(p) = {}
      BY <1>2, <1>3, <1>5, <2>1, <2>2, EndFrameKeeps
    <2> QED BY <1>2, <2>1, <2>3 DEF Caught
  <1> QED BY <1>4, <1>5

----
\* The provider's events

\* What is left of the feed after its first event.
Rest(e, fd) ==
    /\ fd \in Seq(Events)
    /\ \A i \in 1..(Len(fd) - 1) : Follows(fd[i], fd[i + 1])
    /\ fd # <<>> => AtLive(fd[Len(fd)])
    /\ \A i \in 1..Len(fd) : fd[i].kind = "start" => fd[i].msg # 0 /\ fd[i].char = 0
    /\ IF fd = <<>> THEN AtLive(e) ELSE Follows(e, fd[1])

LEMMA FeedRest ==
    ASSUME NEW c, NEW o, FeedOK(c, o), o.pc = "on", feed # <<>>
    PROVE  /\ Head(feed) \in Events
           /\ Head(feed).kind = "start" => Head(feed).msg # 0 /\ Head(feed).char = 0
           /\ Rest(Head(feed), Tail(feed))
           /\ \A m \in Open(o) : Follows(Event("delta", m, Pos(c, o, m)), Head(feed))
  <1>1. PICK n : n = Len(feed)
    OBVIOUS
  <1>2. /\ feed \in Seq(Events) /\ n \in Nat \ {0}
        /\ \A i \in 1..(n - 1) : Follows(feed[i], feed[i + 1])
        /\ AtLive(feed[n])
        /\ \A i \in 1..n : feed[i].kind = "start" => feed[i].msg # 0 /\ feed[i].char = 0
        /\ \A m \in Open(o) : Follows(Event("delta", m, Pos(c, o, m)), feed[1])
    BY <1>1 DEF FeedOK
  <1>3. Head(feed) = feed[1] /\ feed[1] \in Events
    BY <1>1, <1>2
  <1>4. PICK fd : fd = Tail(feed)
    OBVIOUS
  <1>5. /\ fd \in Seq(Events) /\ Len(fd) = n - 1
        /\ \A i \in 1..(n - 1) : fd[i] = feed[i + 1]
        /\ fd = <<>> <=> n = 1
    <2>1. feed \in Seq(Events) /\ feed # <<>>
      BY <1>2
    <2>2. fd \in Seq(Events) /\ Len(fd) = n - 1 /\ \A i \in 1..Len(fd) : fd[i] = feed[i + 1]
      BY <1>1, <1>4, <2>1, HeadTailProperties
    <2>3. fd = <<>> <=> Len(fd) = 0
      BY <2>2, EmptySeq
    <2> QED BY <1>2, <2>2, <2>3
  <1>6. \A i \in 1..(Len(fd) - 1) : Follows(fd[i], fd[i + 1])
    <2> TAKE i \in 1..(Len(fd) - 1)
    <2>1. i \in 1..(n - 1) /\ i + 1 \in 1..(n - 1) /\ i + 1 \in Nat
      BY <1>2, <1>5
    <2>2. fd[i] = feed[i + 1] /\ fd[i + 1] = feed[(i + 1) + 1]
      BY <1>5, <2>1
    <2> QED BY <1>2, <2>1, <2>2
  <1>7. fd # <<>> => AtLive(fd[Len(fd)]) /\ Follows(feed[1], fd[1])
    <2> SUFFICES ASSUME fd # <<>> PROVE AtLive(fd[Len(fd)]) /\ Follows(feed[1], fd[1])
      OBVIOUS
    <2>1. n - 1 \in 1..(n - 1) /\ 1 \in 1..(n - 1)
      BY <1>2, <1>5
    <2>2. fd[Len(fd)] = feed[n] /\ fd[1] = feed[2]
      BY <1>2, <1>5, <2>1
    <2> QED BY <1>2, <2>1, <2>2
  <1>8. \A i \in 1..Len(fd) : fd[i].kind = "start" => fd[i].msg # 0 /\ fd[i].char = 0
    BY <1>2, <1>5
  <1>9. fd = <<>> => AtLive(feed[1])
    BY <1>2, <1>5
  <1>10. Rest(feed[1], fd)
    BY <1>5, <1>6, <1>7, <1>8, <1>9 DEF Rest
  <1> QED BY <1>2, <1>3, <1>4, <1>10

\* An observer that has read the first event and has no message open, or the one that
\* this event writes, at its place.
LEMMA RestKept ==
    ASSUME NEW d, NEW e, NEW p, p = obs', Rest(e, feed'), UNCHANGED <<task, live>>,
           \A m \in Open(p) : Writes(e) /\ e.msg = m /\ e.char = Pos(d, p, m)
    PROVE  FeedOK(d, obs)'
  <1>1. \A x : AtLive(x) <=> AtLive(x)'
    BY DEF AtLive
  <1>2. ASSUME NEW m \in Open(p)
        PROVE  IF feed' = <<>> THEN AtLive(Event("delta", m, Pos(d, p, m)))
               ELSE Follows(Event("delta", m, Pos(d, p, m)), feed'[1])
    <2>1. Writes(e) /\ e.msg = m /\ e.char = Pos(d, p, m)
      BY <1>2
    <2>2. PICK x : x = Event("delta", m, Pos(d, p, m))
      OBVIOUS
    <2>3. Writes(x) /\ x.msg = e.msg /\ x.char = e.char
      BY <2>1, <2>2 DEF Event, Writes
    <2>4. \A f : Follows(e, f) => Follows(x, f)
      BY <2>1, <2>3 DEF Follows
    <2>5. AtLive(e) => AtLive(x)
      BY <2>1, <2>3 DEF AtLive
    <2> QED BY <2>2, <2>4, <2>5 DEF Rest
  <1>3. FeedOK(d, p)'
    BY <1>1, <1>2 DEF FeedOK, Rest, Open, Pos, Cut, AtLive
  <1> QED BY <1>3

\* A step that leaves the task, the stream and the page as they are.
LEMMA Moved ==
    ASSUME NEW d, NEW p, p = obs', UNCHANGED <<task, gw, page>>,
           ObsOK(d, p), StreamOK(d, p), DraftsOK(d)
    PROVE  ObsOK(d, obs)' /\ StreamOK(d, obs)' /\ DraftsOK(d)'
  <1>1. \A id, n : Below(p, id, n) => Below(obs, id, n)'
    BY DEF Below
  <1>2. \A fs : FramesOK(d, p, fs) => FramesOK(d, obs, fs)'
    BY <1>1 DEF FramesOK, FrameOK
  <1>3. Session(d, p) => Session(d, obs)'
    BY DEF Session, Open, Pos, Cut
  <1>4. ObsOK(d, obs)'
    BY <1>2, <1>3 DEF ObsOK, IsObs
  <1>5. StreamOK(d, obs)'
    BY <1>1, <1>2 DEF StreamOK
  <1>6. DraftsOK(d)'
    BY DEF DraftsOK
  <1> QED BY <1>4, <1>5, <1>6

\* The start of a message the observer does not have: its first cut is at its start.
LEMMA StartsKeep ==
    ASSUME NEW c \in Cuts, NEW o, ObsOK(c, o), StreamOK(c, o), o.pc = "on",
           NEW m \in Msgs, m \notin DOMAIN o.msgs, Open(o) = {},
           NEW ms, ms = With(o.msgs, m, [offset |-> 1, pending |-> <<>>, ended |-> FALSE]),
           NEW q, q = Frame(<<o.phase, m>>, 0, "start", <<>>),
           NEW p, p = enqueue([o EXCEPT !.msgs = ms], <<q>>)
    PROVE  /\ ObsOK(c, p) /\ StreamOK(c, p)
           /\ p.pc # "off" => p.pc = "on" /\ \A n \in Open(p) : n = m /\ Pos(c, p, n) = 0
  <1>1. /\ IsObs(o) /\ o.pc \in {"on", "drain"} /\ o.queue \in Seq(Wire) /\ Session(c, o)
        /\ Len(o.queue) \in Nat /\ Len(o.queue) <= MaxQueue /\ MaxQueue \in Nat
    BY StreamAssumption DEF ObsOK
  <1>2. PICK fs : fs = <<q>>
    OBVIOUS
  <1>3. /\ IsObs(p) /\ p.phase = o.phase /\ p.hint = o.hint /\ p.msgs = ms
        /\ Over(o, fs) => p.pc = "off" /\ p.queue = <<>>
        /\ ~Over(o, fs) => p.pc = o.pc /\ p.queue = o.queue \o fs
    BY <1>1, <1>2 DEF enqueue, IsObs, ObsFields, Over
  <1>4. CASE Over(o, fs)
    BY <1>3, <1>4, StopKeeps
  <1>5. CASE ~Over(o, fs)
    <2>1. PICK id : id = <<o.phase, m>>
      OBVIOUS
    <2>2. id \in Ids /\ id[1] = o.phase /\ id[2] = m /\ c[id][1] = 0
      BY <1>1, <2>1 DEF Session, Ids, Cuts
    <2>3. q.id = id /\ q.offset = 0 /\ q.type = "start" /\ q.text = <<>>
      BY <2>1 DEF Frame
    <2>4. q \in Wire
      <3>1. <<>> \in Seq(1..TextLen)
        OBVIOUS
      <3> QED BY <2>1, <2>2, <3>1 DEF Frame, Wire, Kinds
    <2>5. /\ DOMAIN p.msgs = DOMAIN o.msgs \cup {m}
          /\ p.msgs[m] = [offset |-> 1, pending |-> <<>>, ended |-> FALSE]
          /\ \A n \in DOMAIN o.msgs : p.msgs[n] = o.msgs[n]
      BY <1>3 DEF With
    <2>6. p.msgs[m].offset = 1 /\ p.msgs[m].pending = <<>> /\ ~ p.msgs[m].ended
      BY <2>5
    <2>7. Cut(c, p, m) = 0 /\ Pos(c, p, m) = 0
      BY <1>3, <2>1, <2>2, <2>6 DEF Cut, Pos
    <2>8. \A n \in Open(p) : n = m
      BY <2>5 DEF Open
    <2>9. p.pc = "on" /\ p.queue = Append(o.queue, q) /\ Len(o.queue) < MaxQueue
      <3>1. p.pc = "on" /\ p.queue = o.queue \o <<q>> /\ ~ (Len(o.queue) + Len(<<q>>) > MaxQueue)
        BY <1>2, <1>3, <1>5 DEF Over
      <3>2. Len(<<q>>) = 1
        OBVIOUS
      <3>3. Len(o.queue) < MaxQueue
        BY <1>1, <3>1, <3>2
      <3> QED BY <1>1, <2>4, <3>1, <3>3, SMTT(30)
    <2>10. Session(c, p)
      <3>1. ASSUME NEW n \in DOMAIN p.msgs
            PROVE  /\ n \in Msgs
                   /\ p.msgs[n] \in [offset : Nat \ {0}, pending : Seq(1..TextLen), ended : BOOLEAN]
                   /\ IF p.msgs[n].ended THEN p.msgs[n].pending = <<>>
                      ELSE /\ Pos(c, p, n) <= TextLen
                           /\ p.msgs[n].pending = Part(Cut(c, p, n), Pos(c, p, n))
        <4>1. CASE n # m
          <5>1. n \in DOMAIN o.msgs /\ p.msgs[n] = o.msgs[n] /\ n \notin Open(o)
            BY <2>5, <3>1, <4>1
          <5> QED BY <1>1, <5>1 DEF Session, Open
        <4>2. CASE n = m
          <5>1. Part(0, 0) = <<>> /\ <<>> \in Seq(1..TextLen) /\ 0 <= TextLen
            BY StreamAssumption DEF Part
          <5>2. p.msgs[m] \in [offset : Nat \ {0}, pending : Seq(1..TextLen), ended : BOOLEAN]
            <6>1. PICK e \in Seq(1..TextLen) : e = <<>>
              BY <5>1
            <6>2. [offset |-> 1, pending |-> e, ended |-> FALSE]
                      \in [offset : Nat \ {0}, pending : Seq(1..TextLen), ended : BOOLEAN]
              OBVIOUS
            <6> QED BY <2>5, <6>1, <6>2
          <5> QED BY <2>6, <2>7, <4>2, <5>1, <5>2
        <4> QED BY <4>1, <4>2
      <3> QED BY <1>1, <1>3, <2>8, <2>9, <3>1 DEF Session
    <2>11. FrameOK(c, q)
      BY <2>3, <2>4 DEF FrameOK
    <2>12. Below(p, q.id, q.offset + 1)
      <3>1. p.phase <= task.asked /\ (p.hint \/ task.st = "INPUT_REQUIRED" => p.phase < task.asked)
        BY <2>10 DEF Session
      <3>2. q.id[1] = p.phase /\ q.id[2] \in DOMAIN p.msgs /\ q.offset + 1 <= p.msgs[q.id[2]].offset
        BY <1>3, <2>2, <2>3, <2>5, <2>6
      <3> QED BY <2>2, <2>3, <3>1, <3>2 DEF Below
    <2>13. /\ \A n \in DOMAIN o.msgs : /\ o.msgs[n].offset \in Nat
                                       /\ n \in DOMAIN p.msgs /\ o.msgs[n].offset <= p.msgs[n].offset
           /\ \A n \in DOMAIN p.msgs : p.msgs[n].offset \in Nat
      <3>1. \A n \in DOMAIN o.msgs : o.msgs[n].offset \in Nat
        BY <1>1, OpenFacts
      <3> QED BY <2>5, <2>6, <3>1
    <2>14. ObsOK(c, p) /\ StreamOK(c, p)
      BY <1>1, <1>3, <2>9, <2>10, <2>11, <2>12, <2>13, SendKeeps
    <2> QED BY <2>7, <2>8, <2>9, <2>14
  <1> QED BY <1>4, <1>5

\* One more character of the open message.
LEMMA CharKeeps ==
    ASSUME NEW c \in Cuts, NEW o, ObsOK(c, o), StreamOK(c, o), o.pc = "on",
           NEW m \in Open(o), Pos(c, o, m) < TextLen,
           NEW p, p = [o EXCEPT !.msgs[m].pending = Append(@, Pos(c, o, m) + 1)]
    PROVE  /\ ObsOK(c, p) /\ StreamOK(c, p)
           /\ p.pc = "on" /\ \A n \in Open(p) : n = m /\ Pos(c, p, n) = Pos(c, o, m) + 1
  <1>1. IsObs(o) /\ Session(c, o) /\ m \in DOMAIN o.msgs
    BY DEF ObsOK, Open
  <1>2. PICK s \in [offset : Nat \ {0}, pending : Seq(1..TextLen), ended : BOOLEAN] :
            s = o.msgs[m]
    BY <1>1 DEF Session
  <1>3. PICK a, b : a = Cut(c, o, m) /\ b = Pos(c, o, m)
    OBVIOUS
  <1>4. a \in 0..TextLen /\ b \in 0..TextLen /\ a <= b /\ b < TextLen /\ s.pending = Part(a, b)
    <2>1. a \in 0..TextLen /\ a <= b /\ Len(o.msgs[m].pending) \in Nat
      BY <1>1, <1>3, OpenFacts
    <2>4. PICK l \in Nat : l = Len(o.msgs[m].pending)
      BY <2>1
    <2>2. b = a + l /\ b < TextLen
      BY <1>3, <2>4 DEF Pos
    <2>3. s.pending = Part(a, b)
      BY <1>1, <1>2, <1>3 DEF Session, Open
    <2>6. a \in Nat /\ TextLen \in Nat
      BY <2>1, StreamAssumption
    <2>7. b \in Nat
      <3>1. a + l \in Nat
        BY <2>4, <2>6, SMTT(30)
      <3>2. b = a + l
        BY <2>2
      <3> QED BY <3>1, <3>2, Zenon
    <2>5. b \in 0..TextLen
      BY <2>2, <2>6, <2>7
    <2> QED BY <2>1, <2>2, <2>3, <2>5
  <1>5. Append(s.pending, b + 1) = Part(a, b + 1) /\ b + 1 \in 1..TextLen
        /\ Part(a, b + 1) \in Seq(1..TextLen) /\ Len(Part(a, b + 1)) = (b + 1) - a
    <2>1. a \in Nat /\ b \in Nat /\ b + 1 \in Nat /\ b + 1 <= TextLen /\ a <= b + 1
      BY <1>4, StreamAssumption
    <2>2. Append(Part(a, b), b + 1) = Part(a, b + 1)
      BY <1>4, <2>1, PartGrows
    <2>3. Part(a, b + 1) \in Seq(1..TextLen) /\ Len(Part(a, b + 1)) = (b + 1) - a
      BY <2>1, PartFacts
    <2> QED BY <1>4, <2>1, <2>2, <2>3
  <1>6. PICK ms : ms = [o.msgs EXCEPT ![m].pending = Append(@, b + 1)]
    OBVIOUS
  <1>7. p = [o EXCEPT !.msgs = ms]
    BY <1>3, <1>6
  <1>8. /\ IsObs(p) /\ p.phase = o.phase /\ p.hint = o.hint /\ p.msgs = ms
        /\ p.pc = o.pc /\ p.queue = o.queue
    BY <1>1, <1>7 DEF IsObs, ObsFields
  <1>9. /\ DOMAIN p.msgs = DOMAIN o.msgs
        /\ \A n \in DOMAIN o.msgs : n # m => p.msgs[n] = o.msgs[n]
        /\ p.msgs[m] = [s EXCEPT !.pending = Part(a, b + 1)]
    BY <1>1, <1>2, <1>5, <1>6, <1>8
  <1>10. /\ p.msgs[m] \in [offset : Nat \ {0}, pending : Seq(1..TextLen), ended : BOOLEAN]
         /\ p.msgs[m].offset = o.msgs[m].offset /\ p.msgs[m].pending = Part(a, b + 1)
         /\ p.msgs[m].ended = o.msgs[m].ended
    <2>1. PICK e \in Seq(1..TextLen) : e = Part(a, b + 1)
      BY <1>5
    <2>2. PICK t : t = [s EXCEPT !.pending = e]
      OBVIOUS
    <2>3. /\ t \in [offset : Nat \ {0}, pending : Seq(1..TextLen), ended : BOOLEAN]
          /\ t.offset = s.offset /\ t.pending = e
      BY <2>2
    <2>4. t.ended = s.ended
      BY <2>2
    <2> QED BY <1>2, <1>9, <2>1, <2>2, <2>3, <2>4
  <1>11. Cut(c, p, m) = a /\ Pos(c, p, m) = b + 1
    <2>1. Cut(c, p, m) = a
      BY <1>3, <1>8, <1>10 DEF Cut
    <2>2. Pos(c, p, m) = a + ((b + 1) - a)
      BY <1>5, <1>10, <2>1 DEF Pos
    <2> QED BY <1>4, <2>1, <2>2, StreamAssumption
  <1>12. Open(p) = Open(o)
    BY <1>9, <1>10 DEF Open
  <1>13. \A n \in Open(o) : n = m
    BY <1>1 DEF Session
  <1>14. Session(c, p)
    <2>1. ASSUME NEW n \in DOMAIN o.msgs
          PROVE  /\ n \in Msgs
                 /\ p.msgs[n] \in [offset : Nat \ {0}, pending : Seq(1..TextLen), ended : BOOLEAN]
                 /\ IF p.msgs[n].ended THEN p.msgs[n].pending = <<>>
                    ELSE /\ Pos(c, p, n) <= TextLen
                         /\ p.msgs[n].pending = Part(Cut(c, p, n), Pos(c, p, n))
      <3>1. CASE n # m
        <4>1. p.msgs[n] = o.msgs[n] /\ n \notin Open(o)
          BY <1>9, <1>13, <2>1, <3>1
        <4> QED BY <1>1, <2>1, <4>1 DEF Session, Open
      <3>2. CASE n = m
        <4>1. m \in Msgs /\ ~ p.msgs[m].ended
          BY <1>1, <1>10 DEF Session, Open
        <4>2. Pos(c, p, m) <= TextLen /\ p.msgs[m].pending = Part(Cut(c, p, m), Pos(c, p, m))
          <5>1. b + 1 <= TextLen
            BY <1>5, StreamAssumption
          <5> QED BY <1>10, <1>11, <5>1
        <4> QED BY <1>10, <3>2, <4>1, <4>2
      <3> QED BY <3>1, <3>2
    <2> QED BY <1>1, <1>8, <1>9, <1>12, <2>1 DEF Session
  <1>15. \A n \in DOMAIN o.msgs : o.msgs[n].offset \in Nat /\ p.msgs[n].offset = o.msgs[n].offset
    <2>1. \A n \in DOMAIN o.msgs : o.msgs[n].offset \in Nat
      BY <1>1, OpenFacts
    <2> QED BY <1>9, <1>10, <2>1
  <1>16. ObsOK(c, p) /\ StreamOK(c, p)
    <2>1. o.pc # "off" /\ p.pc \in {"on", "drain"}
      BY <1>8
    <2>2. /\ \A n \in DOMAIN o.msgs : n \in DOMAIN p.msgs /\ o.msgs[n].offset <= p.msgs[n].offset
          /\ \A n \in DOMAIN p.msgs : p.msgs[n].offset \in Nat
      BY <1>9, <1>15
    <2> QED BY <1>8, <1>14, <1>15, <2>1, <2>2, SendKeeps
  <1> QED BY <1>3, <1>8, <1>11, <1>12, <1>13, <1>16

----
\* Every step of the observer

\* A cut of every message for which the next state is in order.
Kept == LiveOK' /\ \E d \in Cuts : Drafting(d, obs)'

\* An observer whose open message is the one its event writes.
LEMMA ReadTo ==
    ASSUME NEW d \in Cuts, NEW e, NEW p, p = obs', UNCHANGED <<task, live, gw, page>>, LiveOK,
           ObsOK(d, p), StreamOK(d, p), DraftsOK(d), Rest(e, feed') \/ p.pc # "on",
           p.pc = "on" => \A m \in Open(p) : Writes(e) /\ e.msg = m /\ e.char = Pos(d, p, m)
    PROVE  Kept
  <1>1. ObsOK(d, obs)' /\ StreamOK(d, obs)' /\ DraftsOK(d)'
    BY Moved
  <1>2. FeedOK(d, obs)'
    <2>1. CASE p.pc = "on"
      BY <2>1, RestKept
    <2>2. CASE p.pc # "on"
      <3>1. ~ (obs'.pc = "on")
        BY <2>2
      <3> QED BY <3>1 DEF FeedOK
    <2> QED BY <2>1, <2>2
  <1>3. LiveOK'
    BY DEF LiveOK
  <1> QED BY <1>1, <1>2, <1>3 DEF Kept, Drafting

LEMMA ReadsKeep ==
    ASSUME NEW c \in Cuts, Drafting(c, obs), LiveOK, ObserverReads PROVE Kept
  <1>1. /\ UNCHANGED <<task, live, gw, page>> /\ obs.pc = "on" /\ feed # <<>>
        /\ ObsOK(c, obs) /\ StreamOK(c, obs) /\ DraftsOK(c) /\ FeedOK(c, obs)
    BY DEF ObserverReads, Drafting
  <1>2. PICK e, p : e = Head(feed) /\ p = obs'
    OBVIOUS
  <1>3. p = OnEvent(e) /\ feed' = Tail(feed)
    BY <1>2 DEF ObserverReads
  <1>4. /\ e \in Events /\ Rest(e, feed')
        /\ e.kind = "start" => e.msg # 0 /\ e.char = 0
        /\ \A m \in Open(obs) : Follows(Event("delta", m, Pos(c, obs, m)), e)
    BY <1>1, <1>2, <1>3, FeedRest
  <1>5. \A m \in Open(obs) : /\ e.msg = m
                             /\ \/ e.kind = "message"
                                \/ e.kind = "delta" /\ e.char = Pos(c, obs, m) + 1
    BY <1>4 DEF Follows, Writes, Event
  <1>6. Session(c, obs)
    BY <1>1 DEF ObsOK
  <1>7. ASSUME p = obs, Open(obs) = {} PROVE Kept
    BY <1>1, <1>2, <1>4, <1>7, ReadTo
  <1>8. CASE e.kind = "start"
    <2>1. Open(obs) = {}
      BY <1>5, <1>8
    <2>2. CASE e.msg \in DOMAIN obs.msgs
      <3>1. p = obs
        BY <1>3, <1>8, <2>2 DEF OnEvent
      <3> QED BY <1>7, <2>1, <3>1
    <2>3. CASE e.msg \notin DOMAIN obs.msgs
      <3>1. PICK m, ms, q :
               /\ m = e.msg
               /\ ms = With(obs.msgs, m, [offset |-> 1, pending |-> <<>>, ended |-> FALSE])
               /\ q = Frame(<<obs.phase, m>>, 0, "start", <<>>)
        OBVIOUS
      <3>2. p = enqueue([obs EXCEPT !.msgs = ms], <<q>>)
        BY <1>3, <1>8, <2>3, <3>1 DEF OnEvent
      <3>3. m \in Msgs
        BY <1>4, <1>8, <3>1, StreamAssumption DEF Events, Msgs
      <3>4. /\ ObsOK(c, p) /\ StreamOK(c, p)
            /\ p.pc # "off" => p.pc = "on" /\ \A n \in Open(p) : n = m /\ Pos(c, p, n) = 0
        BY <1>1, <2>1, <2>3, <3>1, <3>2, <3>3, StartsKeep
      <3>5. Writes(e) /\ e.msg = m /\ e.char = 0
        BY <1>4, <1>8, <3>1 DEF Writes
      <3> QED BY <1>1, <1>2, <1>4, <3>4, <3>5, ReadTo
    <2> QED BY <2>2, <2>3
  <1>9. CASE e.kind = "delta"
    <2>1. CASE e.msg \notin DOMAIN obs.msgs \/ obs.msgs[e.msg].ended
      <3>1. p = obs
        BY <1>3, <1>9, <2>1 DEF OnEvent
      <3>2. Open(obs) = {}
        BY <1>5, <2>1 DEF Open
      <3> QED BY <1>7, <3>1, <3>2
    <2>2. CASE ~ (e.msg \notin DOMAIN obs.msgs \/ obs.msgs[e.msg].ended)
      <3>1. PICK m \in Open(obs) : m = e.msg
        BY <2>2 DEF Open
      <3>2. e.char = Pos(c, obs, m) + 1
        BY <1>5, <1>9, <3>1
      <3>3. p = [obs EXCEPT !.msgs[m].pending = Append(@, e.char)]
        BY <1>3, <1>9, <2>2, <3>1 DEF OnEvent
      <3>4. Pos(c, obs, m) < TextLen
        <4>1. e.char \in 0..TextLen
          BY <1>4 DEF Events
        <4>2. Pos(c, obs, m) \in Int
          <5>1. m \in DOMAIN obs.msgs
            BY <3>1 DEF Open
          <5>2. Cut(c, obs, m) \in 0..TextLen /\ Len(obs.msgs[m].pending) \in Nat
            BY <1>6, <5>1, OpenFacts
          <5>3. PICK x \in Int : x = Cut(c, obs, m)
            BY <5>2
          <5>4. PICK y \in Int : y = Len(obs.msgs[m].pending)
            BY <5>2
          <5>5. x + y \in Int
            OBVIOUS
          <5>6. Pos(c, obs, m) = x + y
            BY <5>3, <5>4 DEF Pos
          <5> QED BY <5>5, <5>6, Zenon
        <4> QED BY <3>2, <4>1, <4>2, StreamAssumption
      <3>5. /\ ObsOK(c, p) /\ StreamOK(c, p)
            /\ p.pc = "on" /\ \A n \in Open(p) : n = m /\ Pos(c, p, n) = Pos(c, obs, m) + 1
        BY <1>1, <3>2, <3>3, <3>4, CharKeeps
      <3>6. Writes(e)
        BY <1>9 DEF Writes
      <3> QED BY <1>1, <1>2, <1>4, <3>1, <3>2, <3>5, <3>6, ReadTo
    <2> QED BY <2>1, <2>2
  <1>10. CASE e.kind = "message" /\ e.msg \in Open(obs)
    <2>1. PICK m \in Open(obs) : m = e.msg
      BY <1>10
    <2>2. PICK ts : ts = {n \in {m} : ~ obs.msgs[n].ended}
      OBVIOUS
    <2>3. /\ m \in DOMAIN obs.msgs /\ ~ obs.msgs[m].ended
          /\ \A n : n \in ts <=> n = m
      BY <2>1, <2>2 DEF Open
    <2>4. p = end(obs, {m})
      BY <1>3, <1>10, <2>1, <2>3 DEF OnEvent
    <2>5. p = send(flush(obs), ts, "end")
      BY <2>2, <2>3, <2>4 DEF end
    <2>6. PICK d \in Cuts : /\ ObsOK(d, p) /\ StreamOK(d, p) /\ DraftsOK(d)
                            /\ p.pc # "off" => p.pc = obs.pc /\ Open(p) = {}
      BY <1>1, <2>1, <2>3, <2>5, EndsKeep
    <2> QED BY <1>1, <1>2, <1>4, <2>6, ReadTo
  <1>11. CASE e.kind = "message" /\ e.msg \notin Open(obs)
    <2>1. Open(obs) = {}
      BY <1>5, <1>11
    <2>2. p = obs
      <3>1. CASE e.msg \notin DOMAIN obs.msgs
        BY <1>3, <1>11, <3>1 DEF OnEvent
      <3>2. CASE e.msg \in DOMAIN obs.msgs
        <4>1. obs.msgs[e.msg].ended
          BY <1>11, <3>2 DEF Open
        <4>2. {n \in {e.msg} : ~ obs.msgs[n].ended} = {}
          BY <4>1
        <4>3. end(obs, {e.msg}) = obs
          BY <4>2 DEF end
        <4> QED BY <1>3, <1>11, <3>2, <4>3 DEF OnEvent
      <3> QED BY <3>1, <3>2
    <2> QED BY <1>7, <2>1, <2>2
  <1>12. CASE e.kind = "idle"
    <2>1. Open(obs) = {}
      BY <1>5, <1>12
    <2>2. {n \in DOMAIN obs.msgs : ~ obs.msgs[n].ended} = {}
      BY <2>1 DEF Open
    <2>3. end(obs, DOMAIN obs.msgs) = obs
      BY <2>2 DEF end
    <2>4. p = [obs EXCEPT !.pc = IF @ = "off" THEN "off" ELSE "drain"]
      BY <1>3, <1>12, <2>3 DEF OnEvent
    <2>5. /\ IsObs(obs)
          /\ IsObs(p) /\ p.pc = "drain" /\ p.phase = obs.phase /\ p.hint = obs.hint
          /\ p.msgs = obs.msgs /\ p.queue = obs.queue
      BY <1>1, <2>4 DEF ObsOK, IsObs, ObsFields
    <2>6. Open(p) = {} /\ Session(c, p)
      BY <1>6, <2>1, <2>5 DEF Session, Open, Pos, Cut
    <2>7. \A m \in DOMAIN obs.msgs : obs.msgs[m].offset \in Nat
      BY <1>6, OpenFacts
    <2>8. ObsOK(c, p) /\ StreamOK(c, p)
      BY <1>1, <2>5, <2>6, <2>7, SendKeeps
    <2> QED BY <1>1, <1>2, <2>5, <2>8, ReadTo
  <1> QED BY <1>4, <1>8, <1>9, <1>10, <1>11, <1>12 DEF Events

LEMMA FlushesKeep ==
    ASSUME NEW c \in Cuts, Drafting(c, obs), LiveOK, ObserverFlushes PROVE Kept
  <1>1. /\ UNCHANGED <<task, live, feed, gw, page>> /\ obs.pc # "off"
        /\ ObsOK(c, obs) /\ StreamOK(c, obs) /\ DraftsOK(c) /\ FeedOK(c, obs)
    BY DEF ObserverFlushes, Drafting
  <1>2. PICK p : p = flush(obs) /\ p = obs'
    BY DEF ObserverFlushes
  <1>3. PICK d \in Cuts : ObsOK(d, p) /\ StreamOK(d, p) /\ DraftsOK(d) /\ Caught(c, d, obs, p)
    BY <1>1, <1>2, FlushKeeps
  <1>4. ObsOK(d, obs)' /\ StreamOK(d, obs)' /\ DraftsOK(d)'
    BY <1>1, <1>2, <1>3, Moved
  <1>5. FeedOK(d, p)
    BY <1>1, <1>3 DEF FeedOK, Caught
  <1>6. FeedOK(d, obs)' /\ LiveOK'
    BY <1>1, <1>2, <1>5, ZenonT(60) DEF FeedOK, AtLive, Open, Pos, Cut, LiveOK
  <1> QED BY <1>4, <1>6 DEF Kept, Drafting

\* A batch that reaches the stream holds frames of the queue.
LEMMA PublishedKeeps ==
    ASSUME NEW c \in Cuts, Shape, ObsOK(c, obs), StreamOK(c, obs), NEW g, g \in {gw, Published}
    PROVE  /\ g.previews = gw.previews /\ g.acc = gw.acc
           /\ FramesOK(c, obs, g.wire)
  <1>1. PICK n : n = IF Len(obs.queue) < Batch THEN Len(obs.queue) ELSE Batch
    OBVIOUS
  <1>2. obs.queue \in Seq(Wire) /\ n \in 0..Len(obs.queue)
    BY <1>1, StreamAssumption DEF ObsOK
  <1>3. ToSet(SubSeq(obs.queue, 1, n)) \subseteq ToSet(obs.queue)
    BY <1>2 DEF ToSet
  <1>4. CASE g = gw
    BY <1>4 DEF StreamOK
  <1>5. CASE g # gw
    <2>1. g = [gw EXCEPT !.wire = @ \cup ToSet(SubSeq(obs.queue, 1, n))]
      BY <1>1, <1>5 DEF Published
    <2>2. /\ g.wire = gw.wire \cup ToSet(SubSeq(obs.queue, 1, n))
          /\ g.previews = gw.previews /\ g.acc = gw.acc
      BY <2>1 DEF Shape, StreamFields
    <2> QED BY <1>3, <2>2 DEF ObsOK, StreamOK, FramesOK
  <1> QED BY <1>4, <1>5

\* An observer that only loses frames, some of them to the stream.
LEMMA DropKeeps ==
    ASSUME NEW c \in Cuts, Drafting(c, obs), LiveOK, Shape, UNCHANGED <<task, live, page>>,
           gw' \in {gw, Published},
           NEW p, p = obs', IsObs(p), p.phase = obs.phase, p.hint = obs.hint,
           \/ p.pc = "off" /\ p.queue = <<>>
           \/ /\ p.pc = obs.pc /\ p.pc # "off" /\ p.msgs = obs.msgs /\ feed' = feed
              /\ p.queue \in Seq(Wire) /\ Len(p.queue) <= MaxQueue
              /\ ToSet(p.queue) \subseteq ToSet(obs.queue)
    PROVE  Kept
  <1>0. ObsOK(c, obs) /\ StreamOK(c, obs) /\ DraftsOK(c) /\ FeedOK(c, obs)
    BY DEF Drafting
  <1>1. PICK g : g = gw' /\ g \in {gw, Published}
    OBVIOUS
  <1>2. g.previews = gw.previews /\ g.acc = gw.acc /\ FramesOK(c, obs, g.wire)
    BY <1>0, <1>1, PublishedKeeps
  <1>3. \A id, n : Below(obs, id, n) => Below(obs, id, n)'
    BY DEF Below
  <1>4. \A fs : FramesOK(c, obs, fs) => \A f \in fs : FrameOK(c, f)' /\ Below(obs, f.id, f.offset + 1)'
    BY <1>3 DEF FramesOK, FrameOK
  <1>5. StreamOK(c, obs)'
    BY <1>0, <1>1, <1>2, <1>3, <1>4 DEF StreamOK, FramesOK
  <1>6. DraftsOK(c)' /\ LiveOK'
    BY <1>0, <1>1, <1>2 DEF DraftsOK, LiveOK
  <1>7. CASE p.pc = "off" /\ p.queue = <<>>
    <2>1. ObsOK(c, p)
      BY <1>0, <1>7, StopKeeps
    <2>2. ObsOK(c, obs)'
      BY <1>7, <2>1 DEF ObsOK, IsObs, FramesOK, FrameOK, Below, ToSet
    <2>3. FeedOK(c, obs)'
      BY <1>7 DEF FeedOK
    <2> QED BY <1>5, <1>6, <2>2, <2>3 DEF Kept, Drafting
  <1>8. CASE p.pc # "off"
    <2>1. /\ p.pc = obs.pc /\ p.msgs = obs.msgs /\ feed' = feed
          /\ p.queue \in Seq(Wire) /\ Len(p.queue) <= MaxQueue
          /\ ToSet(p.queue) \subseteq ToSet(obs.queue)
      BY <1>8
    <2>2. Session(c, p)
      BY <1>0, <1>8, <2>1 DEF ObsOK, Session, Open, Pos, Cut
    <2>3. ObsOK(c, p)
      BY <1>0, <2>1, <2>2 DEF ObsOK, FramesOK, Below
    <2>4. ObsOK(c, obs)'
      <3>1. Session(c, p) => Session(c, obs)'
        BY DEF Session, Open, Pos, Cut
      <3>2. \A id, n : Below(p, id, n) => Below(obs, id, n)'
        BY DEF Below
      <3>3. FramesOK(c, p, ToSet(p.queue)) => FramesOK(c, obs, ToSet(obs.queue))'
        BY <3>2 DEF FramesOK, FrameOK
      <3> QED BY <2>3, <3>1, <3>3 DEF ObsOK, IsObs
    <2>5. FeedOK(c, p)
      BY <1>0, <2>1 DEF FeedOK, Open, Pos, Cut
    <2>6. FeedOK(c, obs)'
      BY <2>1, <2>5 DEF FeedOK, AtLive, Open, Pos, Cut
    <2> QED BY <1>5, <1>6, <2>4, <2>6 DEF Kept, Drafting
  <1> QED BY <1>7, <1>8

LEMMA publishKeeps ==
    ASSUME NEW c \in Cuts, Drafting(c, obs), LiveOK, Shape, publish PROVE Kept
  <1>1. /\ ObsOK(c, obs) /\ obs.pc # "off" /\ UNCHANGED <<task, live, feed, page>>
        /\ gw' \in {gw, Published}
    BY DEF publish, Drafting
  <1>2. PICK p : p = obs'
    OBVIOUS
  <1>3. p = [obs EXCEPT !.queue = SubSeq(@, 1 + Batch, Len(@))]
    BY <1>2 DEF publish
  <1>4. PICK s \in Seq(Wire) : s = obs.queue /\ Len(s) <= MaxQueue
    BY <1>1 DEF ObsOK
  <1>5. /\ SubSeq(s, 1 + Batch, Len(s)) \in Seq(Wire) /\ Len(SubSeq(s, 1 + Batch, Len(s))) <= MaxQueue
        /\ ToSet(SubSeq(s, 1 + Batch, Len(s))) \subseteq ToSet(s)
    BY <1>4, StreamAssumption DEF ToSet
  <1>6. /\ IsObs(p) /\ p.pc = obs.pc /\ p.phase = obs.phase /\ p.hint = obs.hint
        /\ p.msgs = obs.msgs /\ p.queue = SubSeq(s, 1 + Batch, Len(s))
    BY <1>1, <1>3, <1>4 DEF ObsOK, IsObs, ObsFields
  <1> QED BY <1>1, <1>2, <1>4, <1>5, <1>6, DropKeeps

LEMMA StopsKeep ==
    ASSUME NEW c \in Cuts, Drafting(c, obs), LiveOK, Shape, ObserverStops PROVE Kept
  <1>1. /\ UNCHANGED <<task, live, page>> /\ gw' \in {gw, Published}
    BY DEF ObserverStops
  <1>2. PICK p : p = obs'
    OBVIOUS
  <1>3. p = [IdleObserver EXCEPT !.phase = obs.phase, !.hint = obs.hint]
    BY <1>2 DEF ObserverStops
  <1>4. IsObs(p) /\ p.pc = "off" /\ p.phase = obs.phase /\ p.hint = obs.hint /\ p.queue = <<>>
    BY <1>3 DEF IsObs, ObsFields, IdleObserver
  <1> QED BY <1>1, <1>2, <1>4, DropKeeps

\* A phase that is observed has no frame yet.
LEMMA ObservesKeep ==
    ASSUME NEW c \in Cuts, Drafting(c, obs), LiveOK, task \in Task, ObserverStarts PROVE Kept
  <1>1. /\ ObsOK(c, obs) /\ StreamOK(c, obs) /\ DraftsOK(c)
        /\ UNCHANGED <<task, live, gw, page>> /\ obs.hint /\ obs.pc = "off" /\ feed' = <<>>
    BY DEF ObserverStarts, Drafting
  <1>2. PICK p : p = obs'
    OBVIOUS
  <1>3. p = [IdleObserver EXCEPT !.pc = IF eligible THEN "on" ELSE "off",
                                 !.phase = task.asked, !.hint = FALSE]
    BY <1>2 DEF ObserverStarts
  <1>4. /\ IsObs(p) /\ p.pc = IF eligible THEN "on" ELSE "off"
        /\ p.phase = task.asked /\ p.queue = <<>> /\ DOMAIN p.msgs = {}
    BY <1>3 DEF IsObs, ObsFields, IdleObserver
  <1>5. ~ p.hint
    BY <1>3 DEF IdleObserver
  <1>6. task.asked \in 0..MaxReqs
    BY DEF Task
  <1>7. \A id, n : Below(obs, id, n) => Below(p, id, n)
    <2> TAKE id, n
    <2> SUFFICES ASSUME Below(obs, id, n) PROVE Below(p, id, n)
      OBVIOUS
    <2>1. id \in Ids /\ id[1] <= task.asked /\ id[1] < task.asked
      BY <1>1 DEF Below
    <2>2. id[1] # task.asked
      BY <1>6, <2>1 DEF Ids
    <2> QED BY <1>4, <2>1, <2>2 DEF Below
  <1>8. StreamOK(c, p)
    BY <1>1, <1>7 DEF StreamOK, FramesOK
  <1>9. Open(p) = {}
    BY <1>4 DEF Open
  <1>10. p.pc # "off" => Session(c, p)
    <2>1. p.pc # "off" => task.st # "INPUT_REQUIRED"
      BY <1>4 DEF eligible
    <2>2. p.phase \in 0..MaxReqs /\ p.phase <= task.asked
      BY <1>4, <1>6
    <2> QED BY <1>4, <1>5, <1>9, <2>1, <2>2 DEF Session
  <1>11. ObsOK(c, p)
    <2>1. <<>> \in Seq(Wire) /\ Len(<<>>) <= MaxQueue /\ ToSet(<<>>) = {}
      BY StreamAssumption DEF ToSet
    <2>2. p.hint \in BOOLEAN
      BY <1>3 DEF IdleObserver
    <2> QED BY <1>4, <1>10, <2>1, <2>2 DEF ObsOK, FramesOK
  <1>12. ObsOK(c, obs)' /\ StreamOK(c, obs)' /\ DraftsOK(c)'
    BY <1>1, <1>2, <1>8, <1>11, Moved
  <1>13. FeedOK(c, obs)'
    <2>1. feed' \in Seq(Events) /\ Len(feed') = 0
      BY <1>1
    <2>2. Open(obs') = {}
      BY <1>2, <1>9
    <2> QED BY <1>1, <2>1, <2>2 DEF FeedOK, Open
  <1>14. LiveOK'
    BY <1>1 DEF LiveOK
  <1> QED BY <1>12, <1>13, <1>14 DEF Kept, Drafting

----
\* Every step of the agent and the task

\* The task goes on, and a phase that may be observed again is one without frames.
LEMMA TaskKept ==
    ASSUME NEW c \in Cuts, Drafting(c, obs), UNCHANGED <<gw, page>>,
           NEW p, p = obs', IsObs(p), p.pc = obs.pc, p.phase = obs.phase, p.msgs = obs.msgs,
           p.queue = obs.queue, p.hint \in BOOLEAN,
           \A x \in 0..MaxReqs :
              /\ x <= task.asked
              /\ obs.hint \/ task.st = "INPUT_REQUIRED" => x < task.asked
              => /\ x <= task'.asked
                 /\ p.hint \/ task'.st = "INPUT_REQUIRED" => x < task'.asked
    PROVE  ObsOK(c, obs)' /\ StreamOK(c, obs)' /\ DraftsOK(c)'
  <1>1. ASSUME NEW id, NEW n, Below(obs, id, n) PROVE Below(obs, id, n)'
    <2>1. id \in Ids /\ id[1] \in 0..MaxReqs
      BY <1>1 DEF Below, Ids
    <2>2. /\ id[1] <= task'.asked
          /\ p.hint \/ task'.st = "INPUT_REQUIRED" => id[1] < task'.asked
      BY <1>1, <2>1 DEF Below
    <2>3. p.pc # "off" /\ id[1] = p.phase => id[2] \in DOMAIN p.msgs /\ n <= p.msgs[id[2]].offset
      BY <1>1 DEF Below
    <2> QED BY <2>1, <2>2, <2>3 DEF Below
  <1>2. \A fs : FramesOK(c, obs, fs) => \A f \in fs : FrameOK(c, f)' /\ Below(obs, f.id, f.offset + 1)'
    BY <1>1 DEF FramesOK, FrameOK
  <1>3. Session(c, obs) => Session(c, obs)'
    <2> SUFFICES ASSUME Session(c, obs) PROVE Session(c, obs)'
      OBVIOUS
    <2>1. /\ p.phase \in 0..MaxReqs /\ p.phase <= task'.asked
          /\ p.hint \/ task'.st = "INPUT_REQUIRED" => p.phase < task'.asked
      BY DEF Session
    <2> QED BY <2>1 DEF Session, Open, Pos, Cut
  <1>4. ObsOK(c, obs)'
    BY <1>2, <1>3 DEF Drafting, ObsOK, IsObs, FramesOK
  <1>5. StreamOK(c, obs)'
    BY <1>1, <1>2 DEF Drafting, StreamOK, FramesOK
  <1>6. DraftsOK(c)'
    BY DEF Drafting, DraftsOK
  <1> QED BY <1>4, <1>5, <1>6

\* An event that the agent writes continues the feed.
LEMMA EmitKeeps ==
    ASSUME NEW c, FeedOK(c, obs), obs' = obs, NEW e \in Events, Emit(e),
           e.kind = "start" => e.msg # 0 /\ e.char = 0,
           \A x : AtLive(x) => Follows(x, e), AtLive(e)'
    PROVE  FeedOK(c, obs)'
  <1> SUFFICES ASSUME obs.pc = "on" PROVE FeedOK(c, obs)'
    BY DEF FeedOK
  <1>1. PICK n, fd : n = Len(feed) /\ fd = feed'
    OBVIOUS
  <1>2. /\ feed \in Seq(Events) /\ n \in Nat
        /\ \A i \in 1..(n - 1) : Follows(feed[i], feed[i + 1])
        /\ feed # <<>> => AtLive(feed[n])
        /\ \A i \in 1..n : feed[i].kind = "start" => feed[i].msg # 0 /\ feed[i].char = 0
        /\ \A m \in Open(obs) : IF feed = <<>> THEN AtLive(Event("delta", m, Pos(c, obs, m)))
                                ELSE Follows(Event("delta", m, Pos(c, obs, m)), feed[1])
    BY <1>1 DEF FeedOK
  <1>3. fd = Append(feed, e)
    BY <1>1 DEF Emit
  <1>4. /\ fd \in Seq(Events) /\ Len(fd) = n + 1 /\ fd # <<>> /\ fd[n + 1] = e
        /\ \A i \in 1..n : fd[i] = feed[i]
    BY <1>1, <1>2, <1>3, AppendProperties
  <1>5. feed = <<>> <=> n = 0
    BY <1>1, <1>2, EmptySeq
  <1>6. \A i \in 1..(Len(fd) - 1) : Follows(fd[i], fd[i + 1])
    <2> TAKE i \in 1..(Len(fd) - 1)
    <2>1. i \in 1..n
      BY <1>2, <1>4
    <2>2. CASE i = n
      BY <1>2, <1>4, <1>5, <2>1, <2>2
    <2>3. CASE i # n
      <3>1. i \in 1..(n - 1) /\ i + 1 \in 1..n
        BY <1>2, <2>1, <2>3
      <3> QED BY <1>2, <1>4, <2>1, <3>1
    <2> QED BY <2>2, <2>3
  <1>7. \A i \in 1..Len(fd) : fd[i].kind = "start" => fd[i].msg # 0 /\ fd[i].char = 0
    BY <1>2, <1>4
  <1>8. \A m \in Open(obs) : Follows(Event("delta", m, Pos(c, obs, m)), fd[1])
    BY <1>2, <1>4, <1>5
  <1>9. AtLive(fd[Len(fd)])'
    BY <1>2, <1>4
  <1> QED BY <1>1, <1>4, <1>6, <1>7, <1>8, <1>9 DEF FeedOK, Open, Pos, Cut

LEMMA TaskStepKeeps ==
    ASSUME NEW c \in Cuts, Drafting(c, obs), LiveOK, TaskInv, TaskStep PROVE Kept
  <1>0. /\ UNCHANGED <<gw, page>> /\ IsObs(obs) /\ obs.hint \in BOOLEAN /\ FeedOK(c, obs)
        /\ task \in Task /\ task.asked \in Int
    BY DEF TaskStep, BeginMessage, WriteChar, EndMessage, Ask, AnswerElsewhere, Resolve, Complete,
       Drafting, ObsOK, TaskInv, Task
  <1>1. ASSUME obs' = obs, task'.asked = task.asked,
               task'.st = "INPUT_REQUIRED" => task.st = "INPUT_REQUIRED"
        PROVE  ObsOK(c, obs)' /\ StreamOK(c, obs)' /\ DraftsOK(c)'
    <2>1. PICK p : p = obs'
      OBVIOUS
    <2>2. p = obs
      BY <1>1, <2>1
    <2>3. \A x \in 0..MaxReqs :
              /\ x <= task.asked
              /\ obs.hint \/ task.st = "INPUT_REQUIRED" => x < task.asked
              => /\ x <= task'.asked
                 /\ p.hint \/ task'.st = "INPUT_REQUIRED" => x < task'.asked
      BY <1>1, <2>2
    <2> QED BY <1>0, <2>1, <2>2, <2>3, TaskKept
  <1>2. CASE BeginMessage
    <2>1. PICK e : e = Event("start", task.n + 1, 0)
      OBVIOUS
    <2>2. e.kind = "start" /\ e.msg = task.n + 1 /\ e.char = 0 /\ task.n \in 0..MaxMsgs
          /\ task.n < MaxMsgs
      BY <1>0, <1>2, <2>1 DEF Event, BeginMessage, Task
    <2>3. e \in Events
      BY <2>1, <2>2, StreamAssumption DEF Event, Events
    <2>4. Emit(e) /\ ~ live.on /\ live' = [on |-> TRUE, k |-> 0] /\ UNCHANGED <<task, obs>>
      BY <1>2, <2>1 DEF BeginMessage
    <2>5. \A x : AtLive(x) => Follows(x, e)
      BY <2>2, <2>4 DEF AtLive, Follows
    <2>6. AtLive(e)'
      BY <2>2, <2>4 DEF AtLive, Writes
    <2>7. FeedOK(c, obs)'
      BY <1>0, <2>2, <2>3, <2>4, <2>5, <2>6, EmitKeeps
    <2>8. LiveOK'
      BY <2>4, StreamAssumption DEF LiveOK
    <2> QED BY <1>1, <2>4, <2>7, <2>8 DEF Kept, Drafting
  <1>3. CASE WriteChar
    <2>1. PICK e : e = Event("delta", task.n + 1, live.k + 1)
      OBVIOUS
    <2>2. e.kind = "delta" /\ e.msg = task.n + 1 /\ e.char = live.k + 1 /\ task.n \in 0..MaxMsgs
          /\ task.n < MaxMsgs /\ live.k \in 0..TextLen /\ live.k < TextLen
      BY <1>0, <1>3, <2>1 DEF Event, WriteChar, Task, TaskInv, LiveOK
    <2>3. e \in Events
      BY <2>1, <2>2, StreamAssumption DEF Event, Events
    <2>4. Emit(e) /\ live.on /\ live' = [live EXCEPT !.k = @ + 1] /\ UNCHANGED <<task, obs>>
      BY <1>3, <2>1 DEF WriteChar
    <2>9. live'.on /\ live'.k = live.k + 1
      BY <2>4 DEF LiveOK
    <2>5. \A x : AtLive(x) => Follows(x, e)
      BY <2>2, <2>4 DEF AtLive, Follows
    <2>6. AtLive(e)'
      BY <2>2, <2>4, <2>9 DEF AtLive, Writes
    <2>7. FeedOK(c, obs)'
      BY <1>0, <2>2, <2>3, <2>4, <2>5, <2>6, EmitKeeps
    <2>8. LiveOK'
      BY <2>2, <2>4, StreamAssumption DEF LiveOK
    <2> QED BY <1>1, <2>4, <2>7, <2>8 DEF Kept, Drafting
  <1>4. CASE EndMessage
    <2>1. PICK e : e = Event("message", task.n + 1, 0)
      OBVIOUS
    <2>2. e.kind = "message" /\ e.msg = task.n + 1 /\ e.char = 0 /\ task.n \in 0..MaxMsgs
          /\ task.n < MaxMsgs
      BY <1>0, <1>4, <2>1 DEF Event, EndMessage, Task, TaskInv
    <2>3. e \in Events
      BY <2>1, <2>2, StreamAssumption DEF Event, Events
    <2>4. Emit(e) /\ live.on /\ live' = [on |-> FALSE, k |-> 0] /\ UNCHANGED obs
          /\ task'.asked = task.asked /\ task'.st = task.st
      BY <1>0, <1>4, <2>1 DEF EndMessage, Task
    <2>5. \A x : AtLive(x) => Follows(x, e)
      BY <2>2, <2>4 DEF AtLive, Follows
    <2>6. AtLive(e)'
      BY <2>2, <2>4 DEF AtLive, Writes
    <2>7. FeedOK(c, obs)'
      BY <1>0, <2>2, <2>3, <2>4, <2>5, <2>6, EmitKeeps
    <2>8. LiveOK'
      BY <2>4, StreamAssumption DEF LiveOK
    <2> QED BY <1>1, <2>4, <2>7, <2>8 DEF Kept, Drafting
  <1>5. CASE Ask \/ Complete
    <2>1. PICK e : e = Event("idle", 0, 0)
      OBVIOUS
    <2>2. e.kind = "idle" /\ e \in Events
      BY <2>1, StreamAssumption DEF Event, Events
    <2>3. Emit(e) /\ ~ live.on /\ UNCHANGED <<live, obs>>
      BY <1>5, <2>1 DEF Ask, Complete
    <2>4. \A x : AtLive(x) => Follows(x, e)
      BY <2>2, <2>3 DEF AtLive, Follows
    <2>5. AtLive(e)'
      BY <2>2, <2>3 DEF AtLive, Writes
    <2>6. FeedOK(c, obs)'
      BY <1>0, <2>2, <2>3, <2>4, <2>5, EmitKeeps
    <2>7. LiveOK'
      BY <2>3 DEF LiveOK
    <2>8. ObsOK(c, obs)' /\ StreamOK(c, obs)' /\ DraftsOK(c)'
      <3>1. CASE Complete
        <4>1. task'.asked = task.asked /\ task'.st = "COMPLETED"
          BY <1>0, <3>1 DEF Complete, Task
        <4> QED BY <1>1, <2>3, <4>1
      <3>2. CASE Ask
        <4>1. task'.asked = task.asked + 1
          BY <1>0, <3>2 DEF Ask, Task
        <4>2. PICK p : p = obs' /\ p = obs
          BY <2>3
        <4>3. \A x \in 0..MaxReqs :
                  /\ x <= task.asked
                  /\ obs.hint \/ task.st = "INPUT_REQUIRED" => x < task.asked
                  => /\ x <= task'.asked
                     /\ p.hint \/ task'.st = "INPUT_REQUIRED" => x < task'.asked
          BY <1>0, <4>1
        <4> QED BY <1>0, <4>2, <4>3, TaskKept
      <3> QED BY <1>5, <3>1, <3>2
    <2> QED BY <2>6, <2>7, <2>8 DEF Kept, Drafting
  <1>6. ASSUME UNCHANGED <<live, feed>>, task'.n = task.n, obs'.pc = obs.pc,
               obs'.msgs = obs.msgs, obs'.phase = obs.phase
        PROVE  FeedOK(c, obs)' /\ LiveOK'
    BY <1>0, <1>6 DEF FeedOK, LiveOK, AtLive, Open, Pos, Cut
  <1>7. CASE AnswerElsewhere
    <2>1. /\ task'.asked = task.asked /\ task'.st = task.st /\ task'.n = task.n
          /\ UNCHANGED <<live, feed, obs>>
      BY <1>0, <1>7 DEF AnswerElsewhere, Answered, Task
    <2> QED BY <1>1, <1>6, <2>1 DEF Kept, Drafting
  <1>8. CASE Resolve
    <2>1. /\ task'.asked = task.asked /\ task'.st = "WORKING" /\ task'.n = task.n
          /\ task.st = "INPUT_REQUIRED" /\ UNCHANGED <<live, feed>>
      BY <1>0, <1>8 DEF Resolve, Task
    <2>2. PICK p : p = obs' /\ p = [obs EXCEPT !.hint = TRUE]
      BY <1>8 DEF Resolve
    <2>3. /\ IsObs(p) /\ p.pc = obs.pc /\ p.phase = obs.phase /\ p.msgs = obs.msgs
          /\ p.queue = obs.queue /\ p.hint \in BOOLEAN
      BY <1>0, <2>2 DEF IsObs, ObsFields
    <2>4. \A x \in 0..MaxReqs :
              /\ x <= task.asked
              /\ obs.hint \/ task.st = "INPUT_REQUIRED" => x < task.asked
              => /\ x <= task'.asked
                 /\ p.hint \/ task'.st = "INPUT_REQUIRED" => x < task'.asked
      BY <2>1
    <2>5. ObsOK(c, obs)' /\ StreamOK(c, obs)' /\ DraftsOK(c)'
      BY <1>0, <2>2, <2>3, <2>4, TaskKept
    <2> QED BY <1>6, <2>1, <2>2, <2>3, <2>5 DEF Kept, Drafting
  <1> QED BY <1>2, <1>3, <1>4, <1>5, <1>7, <1>8 DEF TaskStep

\* The cuts, the channel, the observer and the feed stay in order in every step.
LEMMA DraftKept == ASSUME IInv, DraftInv, [Next]_vars PROVE DraftInv'
  <1>1. Shape /\ TaskInv /\ task \in Task /\ LiveOK
    BY DEF IInv, TaskInv, DraftInv
  <1>2. PICK c \in Cuts : Drafting(c, obs)
    BY DEF DraftInv
  <1>3. SUFFICES Kept
    BY DEF Kept, DraftInv
  <1>4. CASE TaskStep
    BY <1>1, <1>2, <1>4, TaskStepKeeps
  <1>5. CASE ObserverStep
    BY <1>1, <1>2, <1>5, ObservesKeep, ReadsKeep, FlushesKeep, publishKeeps, StopsKeep DEF ObserverStep
  <1>6. CASE Quiet
    <2>1. Less
      BY <1>1, <1>6, QuietLess
    <2>2. UNCHANGED <<task, live, feed, obs>>
      BY <1>6 DEF Quiet, StreamStarts, ReadPlain, ReadChange, Snapshot, ReadFails, StartFails,
         WaitedTooLong, Deadline, Disconnect
    <2> QED BY <1>1, <1>2, <2>1, <2>2, LessKeeps DEF Kept
  <1>7. CASE PageStep
    <2>1. Less
      BY <1>1, <1>7, PageLess
    <2>2. UNCHANGED <<live, feed, obs>>
      BY <1>7 DEF PageStep, Load, resume, ReconcilePending, Submit
    <2>3. task' = task \/ task' = Answered(task)
      BY <1>7 DEF PageStep, Load, resume, ReconcilePending, Submit
    <2>4. task'.asked = task.asked /\ task'.n = task.n /\ task'.st = task.st
      BY <1>1, <2>3 DEF Answered, Task
    <2> QED BY <1>1, <1>2, <2>1, <2>2, <2>4, LessKeeps DEF Kept
  <1>8. CASE \E f \in gw.wire : receive(f)
    BY <1>1, <1>2, <1>8, ReceiveKeeps DEF Kept
  <1>9. CASE WritePreview
    BY <1>1, <1>2, <1>9, WriteKeeps DEF Kept
  <1>10. CASE UNCHANGED vars
    <2>1. Less
      BY <1>10 DEF Less, vars
    <2> QED BY <1>1, <1>2, <1>10, <2>1, LessKeeps DEF Kept, vars
  <1> QED BY <1>4, <1>5, <1>6, <1>7, <1>8, <1>9, <1>10 DEF Next, StreamStep, Quiet

\* However an observer cut the text into frames, and whatever the channel lost, repeated
\* or reordered, the frames of a message and the drafts made of them are parts of its
\* text that meet at the same cuts.
THEOREM DraftInvariant == Spec => []DraftInv
  <1>1. Init => DraftInv
    <2> SUFFICES ASSUME Init PROVE DraftInv
      OBVIOUS
    <2>1. PICK c : c = [id \in Ids |-> [n \in Nat |-> 0]]
      OBVIOUS
    <2>2. c \in Cuts
      BY <2>1, StreamAssumption DEF Cuts
    <2>3. <<>> \in Seq(Wire) /\ Len(<<>>) <= MaxQueue /\ ToSet(<<>>) = {}
      BY StreamAssumption DEF ToSet
    <2>4. ObsOK(c, obs) /\ obs.pc = "off"
      <3>1. IsObs(obs) /\ obs.pc = "off" /\ obs.hint \in BOOLEAN /\ obs.queue = <<>>
        BY DEF Init, IdleObserver, IsObs, ObsFields
      <3> QED BY <2>3, <3>1 DEF ObsOK, FramesOK
    <2>5. StreamOK(c, obs)
      <3>1. gw.wire = {} /\ gw.previews = <<>> /\ DOMAIN gw.acc = {}
        BY NewStreamIsEmpty DEF Init
      <3> QED BY <2>3, <3>1 DEF StreamOK, FramesOK
    <2>6. DraftsOK(c)
      BY DEF Init, DraftsOK, NoDrafts
    <2>7. LiveOK
      BY StreamAssumption DEF Init, LiveOK
    <2> QED BY <2>2, <2>4, <2>5, <2>6, <2>7 DEF DraftInv, Drafting, FeedOK
  <1>2. IInv /\ DraftInv /\ [Next]_vars => DraftInv'
    BY DraftKept
  <1> QED BY <1>1, <1>2, StreamInvariant, PTL DEF Spec

\* Every preview on a page is a prefix of its message, for messages of any length, any
\* number of frames and phases, and any loss, repetition or order of the frames.
THEOREM ShownDraftIsPrefix == Spec => []DraftIsPrefix
  <1>1. DraftInv => DraftIsPrefix
    BY PartIsPrefix DEF DraftInv, Drafting, DraftsOK, DraftIsPrefix
  <1> QED BY <1>1, DraftInvariant, PTL

----
\* Types and bounds

\* A stream has written, read and sent in a snapshot no more of n messages than there are.
StreamTypes(g, n) ==
    /\ g.pc \in {"off", "history", "loop", "snapshot"}
    /\ g.seen \in 0..n /\ g.last \in 0..n
    /\ g.pc = "snapshot" => g.read.n \in 0..n

PageTypes(p) ==
    /\ p.pc \in {"run", "resume", "load", "connect", "panel", "rest"}
    /\ p.shown \in [Msgs -> 0..2]

BoundInv == StreamTypes(gw, task.n) /\ PageTypes(page) /\ faults \in 0..MaxFaults

LEMMA ShownType == ASSUME NEW n PROVE Shown(n) \in [Msgs -> 0..2]
  BY DEF Shown

\* The page after an event of the stream.
LEMMA PageOpsTypes ==
    ASSUME NEW p, p = [f \in PageFields |-> p[f]], PageTypes(p),
           NEW n, NEW q, NEW ms, NEW d, NEW out
    PROVE  /\ PageTypes(OnSnapshot(p, n, q)) /\ PageTypes(OnMessages(p, ms))
           /\ PageTypes(OnDraft(p, d)) /\ PageTypes(OnEnd(p, out, q))
  <1>1. PageTypes(OnSnapshot(p, n, q))
    BY ShownType DEF OnSnapshot, PageTypes, PageFields
  <1>2. PageTypes(OnMessages(p, ms))
    <2>1. PICK sh : sh = [m \in Msgs |-> IF m \in ms /\ p.shown[m] < 2 THEN p.shown[m] + 1
                                         ELSE p.shown[m]]
      OBVIOUS
    <2>2. sh \in [Msgs -> 0..2]
      <3>1. ASSUME NEW m \in Msgs
            PROVE  (IF m \in ms /\ p.shown[m] < 2 THEN p.shown[m] + 1 ELSE p.shown[m]) \in 0..2
        <4>1. p.shown[m] \in 0..2
          BY DEF PageTypes
        <4> QED BY <4>1
      <3> QED BY <2>1, <3>1
    <2>3. OnMessages(p, ms) \in {p, [p EXCEPT !.shown = sh], [p EXCEPT !.text = TRUE]}
      BY <2>1 DEF OnMessages
    <2> QED BY <2>2, <2>3 DEF PageTypes, PageFields
  <1>3. PageTypes(OnDraft(p, d))
    BY DEF OnDraft, PageTypes, PageFields
  <1>4. PageTypes(OnEnd(p, out, q))
    BY DEF OnEnd, PageTypes, PageFields
  <1> QED BY <1>1, <1>2, <1>3, <1>4

\* A stream that begins, or is gone.
LEMMA NewStreamTypes ==
    ASSUME NEW n \in Nat, NEW ids
    PROVE  StreamTypes(NewStream(ids), n) /\ StreamTypes(NoStream, n)
  BY DEF StreamTypes, NewStream, NoStream

\* The agent writes messages and takes none back.
LEMMA TaskTypes ==
    ASSUME IInv, BoundInv, TaskStep
    PROVE  BoundInv'
  <1>1. UNCHANGED <<gw, page, faults>>
    BY DEF TaskStep, BeginMessage, WriteChar, EndMessage, Ask, AnswerElsewhere, Resolve, Complete
  <1>2. task.n \in Nat /\ task'.n \in {task.n, task.n + 1}
    <2>1. task \in Task
      BY DEF IInv, TaskInv
    <2>2. task'.n \in {task.n, task.n + 1}
      BY <2>1 DEF TaskStep, BeginMessage, WriteChar, EndMessage, Ask, AnswerElsewhere, Resolve,
         Complete, Answered, Task
    <2> QED BY <2>1, <2>2, StreamAssumption DEF Task
  <1>3. \A i \in 0..task.n : i \in 0..task'.n
    BY <1>2
  <1> QED BY <1>1, <1>3 DEF BoundInv, StreamTypes, PageTypes

\* Frames touch none of it.
LEMMA FrameTypes ==
    ASSUME Shape, BoundInv, UNCHANGED task,
           \A f \in {"pc", "seen", "last", "read"} : gw'[f] = gw[f],
           gw' = [f \in StreamFields |-> gw'[f]],
           PageTypes(page'), faults' \in 0..MaxFaults
    PROVE  BoundInv'
  BY DEF BoundInv, StreamTypes, StreamFields, Shape, PageTypes

\* The observer, the channel and the previews.
LEMMA PreviewTypes ==
    ASSUME IInv, BoundInv, \/ ObserverStep \/ WritePreview
                           \/ \E f \in gw.wire : receive(f)
    PROVE  BoundInv'
  <1>1. Shape /\ UNCHANGED task
    BY DEF IInv, ObserverStep, ObserverStarts, ObserverReads, ObserverFlushes, publish,
           ObserverStops, WritePreview, receive
  <1>2. page' = page \/ \E d : page' = OnDraft(page, d)
    BY DEF ObserverStep, ObserverStarts, ObserverReads, ObserverFlushes, publish,
           ObserverStops, WritePreview, receive
  <1>3. PageTypes(page')
    BY <1>1, <1>2, PageOpsTypes DEF Shape, BoundInv
  <1>4. faults' = faults \/ Fault
    BY DEF ObserverStep, ObserverStarts, ObserverReads, ObserverFlushes, publish,
           ObserverStops, WritePreview, receive
  <1>5. faults' \in 0..MaxFaults
    BY <1>4, StreamAssumption DEF Fault, BoundInv
  <1>6. /\ gw' = [f \in StreamFields |-> gw'[f]]
        /\ \A f \in {"pc", "seen", "last", "read"} : gw'[f] = gw[f]
    <2>1. CASE ObserverStep
      <3>1. gw' \in {gw, Published}
        BY <2>1 DEF ObserverStep, ObserverStarts, ObserverReads, ObserverFlushes, publish,
               ObserverStops
      <3> QED BY <1>1, <3>1 DEF Published, Shape, StreamFields
    <2>2. CASE WritePreview
      BY <1>1, <2>2 DEF WritePreview, Shape, StreamFields
    <2>3. CASE \E f \in gw.wire : receive(f)
      BY <1>1, <2>3, ZenonT(60) DEF receive, Shape, StreamFields
    <2> QED BY <2>1, <2>2, <2>3
  <1> QED BY <1>1, <1>3, <1>5, <1>6, FrameTypes

\* The reads of the stream, its end and its cuts.
LEMMA QuietTypes ==
    ASSUME IInv, BoundInv, Quiet
    PROVE  BoundInv'
  <1>1. Shape /\ UNCHANGED task /\ page = [f \in PageFields |-> page[f]] /\ PageTypes(page)
    BY DEF IInv, Shape, BoundInv, Quiet, StreamStarts, ReadPlain, ReadChange, Snapshot, ReadFails, StartFails,
       WaitedTooLong, Deadline, Disconnect
  <1>2. task.n \in Nat
    BY StreamAssumption DEF IInv, TaskInv, Task
  <1>3. faults' \in 0..MaxFaults
    <2>1. faults' = faults \/ Fault
      BY DEF Quiet, StreamStarts, ReadPlain, ReadChange, Snapshot, ReadFails, StartFails,
         WaitedTooLong, Deadline, Disconnect
    <2> QED BY <2>1, StreamAssumption DEF Fault, BoundInv
  <1>4. SUFFICES StreamTypes(gw', task.n) /\ PageTypes(page')
    BY <1>1, <1>3 DEF BoundInv, StreamTypes, PageTypes
  <1>5. CASE StreamStarts
    <2>1. PICK q : q = IF gw.resumed = {} THEN task.pending ELSE {}
      OBVIOUS
    <2>2. PICK p : p = OnSnapshot(page, task.n, q)
      OBVIOUS
    <2>3. PICK g : g = [gw EXCEPT !.pc = "loop", !.last = task.n, !.seen = task.n,
                                  !.preview = Previewing]
      OBVIOUS
    <2>4. StreamTypes(g, task.n)
      BY <1>1, <1>2, <2>3 DEF StreamTypes, Shape, StreamFields
    <2>5. page' = p /\ gw' = Connected(g, p)
      BY <1>5, <2>1, <2>2, <2>3 DEF StreamStarts
    <2> QED BY <1>1, <1>2, <2>2, <2>4, <2>5, PageOpsTypes, NewStreamTypes DEF Connected
  <1>6. CASE ReadPlain
    <2>1. PICK ms : page' = OnMessages(page, ms)
      BY <1>6 DEF ReadPlain
    <2>2. /\ gw'.pc = "loop" /\ gw'.last = gw.last /\ gw'.seen \in {gw.seen, task.n}
      BY <1>1, <1>6 DEF ReadPlain, Shape, StreamFields
    <2>3. StreamTypes(gw', task.n)
      BY <1>2, <2>2 DEF BoundInv, StreamTypes
    <2> QED BY <1>1, <2>1, <2>3, PageOpsTypes
  <1>7. CASE ReadChange
    <2>1. /\ gw'.pc = "snapshot" /\ gw'.last = gw.last /\ gw'.seen = gw.seen
          /\ gw'.read = task /\ page' = page
      BY <1>1, <1>7 DEF ReadChange, Shape, StreamFields
    <2>2. StreamTypes(gw', task.n)
      BY <1>2, <2>1 DEF BoundInv, StreamTypes
    <2> QED BY <1>1, <2>1, <2>2
  <1>8. CASE Snapshot
    <2>1. PICK q : q = IF gw.accepted THEN task.pending ELSE {}
      OBVIOUS
    <2>2. PICK p : p = OnSnapshot(page, task.n, q)
      OBVIOUS
    <2>3. p = [f \in PageFields |-> p[f]] /\ PageTypes(p)
      BY <1>1, <2>2, PageEvents, PageOpsTypes
    <2>4. CASE gw.read.st # "WORKING" /\ gw.accepted
      <3>1. page' = OnEnd(p, Outcome(gw.read), gw.read.pending) /\ gw' = NoStream
        BY <1>8, <2>1, <2>2, <2>4 DEF Snapshot
      <3> QED BY <1>2, <2>3, <3>1, PageOpsTypes, NewStreamTypes
    <2>5. CASE ~(gw.read.st # "WORKING" /\ gw.accepted)
      <3>1. PICK g : g = [gw EXCEPT !.pc = "loop", !.last = task.n, !.read = <<>>,
                                     !.seen = IF gw.read.n > @ THEN gw.read.n ELSE @]
        OBVIOUS
      <3>2. g.pc = "loop" /\ g.last = task.n /\ g.seen \in {gw.seen, gw.read.n}
        BY <1>1, <3>1 DEF Shape, StreamFields
      <3>3. gw.pc = "snapshot"
        BY <1>8 DEF Snapshot
      <3>4. StreamTypes(g, task.n)
        BY <1>2, <3>2, <3>3 DEF BoundInv, StreamTypes
      <3>5. page' = p /\ gw' = Connected(g, p)
        BY <1>8, <2>1, <2>2, <2>5, <3>1 DEF Snapshot
      <3> QED BY <1>2, <2>3, <3>4, <3>5, NewStreamTypes DEF Connected
    <2> QED BY <2>4, <2>5
  <1>9. CASE Reconnect
    <2>1. PICK p : p = OnSnapshot(page, gw.last, {})
      OBVIOUS
    <2>2. p = [f \in PageFields |-> p[f]] /\ PageTypes(p)
      BY <1>1, <2>1, PageEvents, PageOpsTypes, SMTT(30)
    <2>3. page' = OnEnd(p, "error", {}) /\ gw' = NoStream
      BY <1>9, <2>1 DEF Reconnect
    <2> QED BY <1>2, <2>2, <2>3, PageOpsTypes, NewStreamTypes
  <1>10. CASE gw' = [gw EXCEPT !.pc = "loop", !.fails = @ + 1, !.read = <<>>] /\ page' = page
    <2>1. gw'.pc = "loop" /\ gw'.last = gw.last /\ gw'.seen = gw.seen
      BY <1>1, <1>10 DEF Shape, StreamFields
    <2> QED BY <1>1, <1>10, <2>1 DEF BoundInv, StreamTypes
  <1>11. CASE StartFails
    BY <1>1, <1>2, <1>11, PageOpsTypes, NewStreamTypes DEF StartFails
  <1>12. CASE Disconnect
    <2>1. PageTypes([page EXCEPT !.pc = "load"])
      BY <1>1 DEF PageTypes, PageFields
    <2> QED BY <1>2, <1>12, <2>1, NewStreamTypes DEF Disconnect
  <1> QED BY <1>5, <1>6, <1>7, <1>8, <1>9, <1>10, <1>11, <1>12
          DEF Quiet, ReadFails, WaitedTooLong, Deadline

\* The page's own requests.
LEMMA PageStepTypes ==
    ASSUME IInv, BoundInv, PageStep
    PROVE  BoundInv'
  <1>1. task \in Task /\ page = [f \in PageFields |-> page[f]] /\ PageTypes(page) /\ faults' = faults
    BY DEF IInv, TaskInv, Shape, BoundInv, PageStep, Load, resume, ReconcilePending, Submit
  <1>2. task.n \in Nat /\ task'.n = task.n
    <2>1. task' = task \/ task' = Answered(task)
      BY DEF PageStep, Load, resume, ReconcilePending, Submit
    <2>2. task'.n = task.n
      BY <1>1, <2>1 DEF Answered, Task
    <2>3. task.n \in Nat
      BY <1>1, StreamAssumption DEF Task
    <2> QED BY <2>2, <2>3
  <1>3. gw' = gw \/ \E ids : gw' = NewStream(ids)
    BY DEF PageStep, Load, resume, ReconcilePending, Submit
  <1>4. StreamTypes(gw', task.n)
    BY <1>2, <1>3, NewStreamTypes DEF BoundInv
  <1>5. PageTypes(page')
    <2>1. CASE Load
      <3>1. page'.shown = Shown(task.n) /\ page'.pc \in {"connect", "panel", "rest"}
        BY <2>1 DEF Load
      <3> QED BY <3>1, ShownType DEF PageTypes
    <2>2. CASE ~Load
      <3>1. page' \in {[page EXCEPT !.pc = "load"], [page EXCEPT !.pc = "resume"],
                       [page EXCEPT !.pc = "run"]}
        BY <2>2 DEF PageStep, resume, ReconcilePending, Submit
      <3> QED BY <1>1, <3>1 DEF PageTypes, PageFields
    <2> QED BY <2>1, <2>2
  <1> QED BY <1>1, <1>2, <1>4, <1>5 DEF BoundInv, StreamTypes, PageTypes

\* Neither queue of frames outgrows its limit, a stream has written no message that the
\* task does not have, and no step leaves the values of the code.
THEOREM StreamTypesHold == Spec => []TypeOK
  <1>1. Init => BoundInv
    <2> SUFFICES ASSUME Init PROVE BoundInv
      OBVIOUS
    <2>1. task.n = 0 /\ gw = NewStream({}) /\ faults \in 0..MaxFaults
      BY StreamAssumption DEF Init
    <2>2. PageTypes(page)
      BY ShownType DEF Init, PageTypes
    <2> QED BY <2>1, <2>2, NewStreamTypes DEF BoundInv
  <1>2. IInv /\ BoundInv /\ [Next]_vars => BoundInv'
    <2> SUFFICES ASSUME IInv, BoundInv, [Next]_vars PROVE BoundInv'
      OBVIOUS
    <2>1. CASE UNCHANGED vars
      BY <2>1 DEF vars, BoundInv, StreamTypes, PageTypes
    <2> QED BY <2>1, TaskTypes, PreviewTypes, QuietTypes, PageStepTypes
            DEF Next, StreamStep, Quiet
  <1>3. IInv /\ DraftInv /\ BoundInv => TypeOK
    <2> SUFFICES ASSUME IInv, DraftInv, BoundInv PROVE TypeOK
      OBVIOUS
    <2>1. PICK c \in Cuts : ObsOK(c, obs) /\ StreamOK(c, obs) /\ DraftsOK(c)
      BY DEF DraftInv, Drafting
    <2>2. task \in Task /\ live \in [on : BOOLEAN, k : 0..TextLen]
      BY DEF IInv, TaskInv, DraftInv, LiveOK
    <2>3. obs.pc \in {"off", "on", "drain"} /\ Len(obs.queue) <= MaxQueue
      BY <2>1 DEF ObsOK
    <2>4. /\ Len(gw.previews) <= MaxQueue
          /\ \A f \in gw.wire : f.id \in Ids /\ f.type \in Kinds
      BY <2>1 DEF StreamOK, FramesOK, FrameOK, Wire
    <2>5. DOMAIN page.drafts \subseteq Ids
      BY <2>1 DEF DraftsOK
    <2> QED BY <2>2, <2>3, <2>4, <2>5 DEF TypeOK, BoundInv, StreamTypes, PageTypes
  <1> QED BY <1>1, <1>2, <1>3, StreamInvariant, DraftInvariant, PTL DEF Spec

====
