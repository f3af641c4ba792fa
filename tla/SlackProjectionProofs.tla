---- MODULE SlackProjectionProofs ----
(***************************************************************************)
(* Proofs about SlackProjection, for any number of messages, requests,      *)
(* projectors, preview workers and faults: its types, that nothing is       *)
(* posted twice and one card is started, that no older status replaces a    *)
(* newer one, and that a finished task ends up shown.                       *)
(***************************************************************************)
EXTENDS SlackProjection, WellFoundedInduction, TLAPS

----
\* The inductive invariant

\* A projector that has claimed the row; that has read the task; that has an item.
Posting == {"post", "finishItem", "failItem"}
Ending == {"stop", "status", "finish"}
Reading == {"start", "record", "items"} \cup Posting \cup Ending
Busy == {"read", "fallback"} \cup Reading

\* What is to be projected of the task that was read.
Wanted(w) == 1..worker[w].view.said \cup worker[w].view.pending

\* The task: a review waits exactly while input is required.
TaskInv ==
    /\ task.version >= 1 /\ shown <= task.version
    /\ (task.state = "INPUT_REQUIRED") <=> (task.pending # {})
    /\ row.last = "COMPLETED" => task.state = "COMPLETED"

\* What a projector read is the task as it is or as it was; a finished task is final.
ViewInv(w) ==
    /\ worker[w].last = "COMPLETED" => task.state = "COMPLETED"
    /\ worker[w].pc \in {"idle", "claim", "read"} => worker[w].view = NoView
    /\ worker[w].view # NoView =>
           /\ worker[w].view.version \in 1..task.version
           /\ worker[w].view.state = "COMPLETED" => worker[w].view = task
           /\ worker[w].view.state = "INPUT_REQUIRED" => worker[w].view.pending # {}
           /\ worker[w].last = "COMPLETED" => worker[w].view.state = "COMPLETED"
    /\ worker[w].pc \in Reading => worker[w].view # NoView

\* What is no longer to do was posted, and its receipt says so.
TodoInv(w) ==
    worker[w].pc \in Reading =>
        /\ worker[w].todo \subseteq Wanted(w)
        /\ \A i \in Wanted(w) \ worker[w].todo :
               posts[i] >= 1 /\ (doubt \/ item[i].status = "posted")
        /\ worker[w].pc \in Ending => worker[w].todo = {}
        /\ worker[w].pc \in Posting => worker[w].at \in worker[w].todo
        /\ worker[w].pc = "finishItem" => posts[worker[w].at] >= 1

\* The item that is held by a projector is its own.
HoldInv(w) ==
    worker[w].pc \in Posting /\ ~doubt =>
        item[worker[w].at].status = "posting" /\ item[worker[w].at].claim = w

\* The projector that holds an item has posted it and not yet recorded that.
Unrecorded(i) == item[i].claim \in Workers /\ worker[item[i].claim].pc = "finishItem"

\* The receipt of an item says whether it was posted; a claim that is not live is that
\* of a projector that died before it posted.
ItemInv(i) ==
    /\ item[i].status = "posted" => posts[i] >= 1 /\ item[i].claim = None
    /\ ~doubt =>
           /\ item[i].status = "posted" => posts[i] = 1
           /\ item[i].status = "failed" => posts[i] = 0 /\ item[i].claim = None
           /\ item[i].status = "posting" =>
                  \/ item[i].claim = Gone /\ posts[i] = 0
                  \/ /\ item[i].claim \in Workers /\ item[i].live
                     /\ worker[item[i].claim].pc \in Posting
                     /\ worker[item[i].claim].at = i
                     /\ posts[i] = IF Unrecorded(i) THEN 1 ELSE 0

\* Open buttons are on record.
ControlInv(q) ==
    ~doubt /\ control[q] = "open" =>
        \/ item[q].status = "posted" /\ item[q].ts
        \/ item[q].status = "posting" /\ Unrecorded(q)

\* A projector in its lease owns the row: nobody else changes what it read there.
LeaseInv(w) ==
    /\ worker[w].card <= Len(cards)
    /\ Owns(w) => worker[w].pc \in Busy
    /\ worker[w].pc \in Busy /\ ~overrun =>
           /\ Owns(w) /\ row.status = "streaming" /\ row.live
           /\ worker[w].last = row.last
           /\ worker[w].pc \in {"record"} => worker[w].card = Len(cards)
           /\ worker[w].pc \notin {"record"} => worker[w].card = row.card
           /\ worker[w].pc \in Reading => shown <= worker[w].view.version
           /\ worker[w].pc = "finish" => shown = worker[w].view.version
           /\ worker[w].pc \in Ending /\ ~doubt =>
                  \A q \in Reqs : control[q] = "open" => q \in worker[w].view.pending

\* So does a preview worker, which has a title left to write.
PreviewInv(v) ==
    /\ preview[v].pc \in {"claim", "write"} => preview[v].updates < MaxUpdates
    /\ preview[v].pc \in {"write", "release"} /\ ~overrun =>
           Owns(v) /\ row.status = "streaming" /\ row.live

\* A card that was started is known, or no other one may be started.
CardInv ==
    ~overrun /\ ~doubt =>
        /\ Len(cards) <= 1
        /\ Len(cards) = 1 =>
               \/ row.card = 1 \/ row.last = "COMPLETED" \/ has_human_input_receipt
               \/ \E w \in Workers : worker[w].pc = "record"

\* A projector that claims the row, or raises, after the task has finished.
Retries == \E w \in Workers : worker[w].pc \in {"claim", "fallback"}

\* The projector that owns the row works on the finished task.
Final(w) == worker[w].pc = "read" \/ (worker[w].pc \in Reading /\ worker[w].view.state = "COMPLETED")

\* When the last event was taken, the finished task is shown or will be.
EndInv ==
    task.state = "COMPLETED" /\ ~notices =>
        \/ Retries
        \/ \E w \in Workers : Owns(w) /\ Final(w)
        \/ AllShown /\ \A w \in Workers : ~Owns(w)

IInv ==
    /\ TypeOK /\ TaskInv
    /\ \A w \in Workers : ViewInv(w) /\ TodoInv(w) /\ HoldInv(w) /\ LeaseInv(w)
    /\ \A i \in Items : ItemInv(i)
    /\ \A q \in Reqs : ControlInv(q)
    /\ \A v \in Previews : PreviewInv(v)
    /\ CardInv
    /\ EndInv

----
\* Items, records and sequences

LEMMA ItemSets ==
    /\ Msgs \subseteq Items /\ Reqs \subseteq Items /\ Items \subseteq Nat \ {0}
    /\ Msgs \cap Reqs = {} /\ Items = Msgs \cup Reqs
    /\ \A n \in 0..MaxMsgs : 1..n \subseteq Msgs
  BY ProjectionAssumption DEF Items, Msgs, Reqs

\* The least of a set of items.
LEMMA LeastItem ==
    ASSUME NEW T, T \subseteq Items, T # {}
    PROVE  (CHOOSE j \in T : \A k \in T : j <= k) \in T
  <1>1. T \subseteq Nat
    BY ItemSets
  <1>2. PICK i \in T : \A j \in T : ~ (<<j, i>> \in OpToRel(<, Nat))
    BY <1>1, NatLessThanWellFounded, WFMin, Zenon
  <1>3. \A j \in T : ~(j < i)
    BY <1>1, <1>2 DEF OpToRel
  <1>4. \A j \in T : i <= j
    BY <1>1, <1>3
  <1> QED BY <1>4, Zenon

LEMMA SetWorker ==
    ASSUME TypeOK, NEW w \in Workers, NEW l \in Worker, worker' = [worker EXCEPT ![w] = l]
    PROVE  /\ worker' \in [Workers -> Worker]
           /\ worker'[w] = l
           /\ \A v \in Workers \ {w} : worker'[v] = worker[v]
  BY DEF TypeOK

\* A projector that only moves keeps what it read.
LEMMA GotoWorker ==
    ASSUME TypeOK, NEW w \in Workers, NEW p \in Pcs, Goto(w, p)
    PROVE  /\ worker' \in [Workers -> Worker]
           /\ \A v \in Workers \ {w} : worker'[v] = worker[v]
           /\ worker'[w].pc = p /\ worker'[w].view = worker[w].view
           /\ worker'[w].last = worker[w].last /\ worker'[w].card = worker[w].card
           /\ worker'[w].todo = worker[w].todo /\ worker'[w].at = worker[w].at
  <1> DEFINE l == [worker[w] EXCEPT !.pc = p]
  <1>1. worker[w] \in Worker /\ worker' = [worker EXCEPT ![w] = l]
    BY DEF TypeOK, Goto
  <1>2. /\ l \in Worker
        /\ l.pc = p /\ l.view = worker[w].view /\ l.last = worker[w].last
        /\ l.card = worker[w].card /\ l.todo = worker[w].todo /\ l.at = worker[w].at
    BY <1>1 DEF Worker
  <1> HIDE DEF l
  <1> QED BY <1>1, <1>2, SetWorker

LEMMA NoViewIs == NoView \in TaskView /\ NoView.version = 0
  BY ProjectionAssumption DEF NoView, TaskView, States, Working

LEMMA IdleIs ==
    /\ IdleWorker \in Worker /\ IdleWorker.pc = "idle" /\ IdleWorker.view = NoView
    /\ IdleWorker.last = "NULL"
  BY NoViewIs DEF IdleWorker, Worker, Pcs

\* A projector that ends is idle.
LEMMA IdleAgain ==
    ASSUME TypeOK, NEW w \in Workers, worker' = [worker EXCEPT ![w] = IdleWorker]
    PROVE  /\ worker' \in [Workers -> Worker]
           /\ worker'[w] = IdleWorker
           /\ \A v \in Workers \ {w} : worker'[v] = worker[v]
  BY IdleIs, SetWorker

LEMMA SetReceipt ==
    ASSUME TypeOK, NEW i \in Items, NEW r \in Receipt, item' = [item EXCEPT ![i] = r]
    PROVE  /\ item' \in [Items -> Receipt]
           /\ item'[i] = r
           /\ \A j \in Items \ {i} : item'[j] = item[j]
  BY DEF TypeOK

LEMMA SetPreview ==
    ASSUME TypeOK, NEW v \in Previews, NEW l \in Preview, preview' = [preview EXCEPT ![v] = l]
    PROVE  /\ preview' \in [Previews -> Preview]
           /\ preview'[v] = l
           /\ \A u \in Previews \ {v} : preview'[u] = preview[u]
  BY DEF TypeOK

\* Slack changes a card; the list of cards stays as long as it is.
LEMMA SetCard ==
    ASSUME TypeOK, NEW c, NEW x \in {"working", "draft", "stopped"},
           cards' = [cards EXCEPT ![c] = x]
    PROVE  cards' \in Seq({"working", "draft", "stopped"}) /\ Len(cards') = Len(cards)
  <1> DEFINE S == {"working", "draft", "stopped"}
  <1>1. cards \in Seq(S)
    BY DEF TypeOK
  <1> HIDE DEF S
  <1>2. cards \in [1..Len(cards) -> S] /\ Len(cards) \in Nat
    BY <1>1
  <1>3. x \in S
    BY DEF S
  <1>4. cards' \in [1..Len(cards) -> S]
    BY <1>2, <1>3
  <1>5. cards' \in Seq(S) /\ Len(cards') = Len(cards)
    BY <1>2, <1>4
  <1> QED BY <1>5 DEF S

\* What a projector that read the task works on.
LEMMA WantedItems ==
    ASSUME TypeOK, NEW w \in Workers
    PROVE  /\ Wanted(w) \subseteq Items /\ worker[w].view.pending \subseteq Reqs
           /\ 1..worker[w].view.said \subseteq Msgs
  <1>1. worker[w].view \in TaskView
    BY DEF TypeOK, Worker
  <1>2. worker[w].view.said \in 0..MaxMsgs /\ worker[w].view.pending \subseteq Reqs
    BY <1>1 DEF TaskView
  <1> QED BY <1>2, ItemSets DEF Wanted

----
\* What the steps of others leave alone

LEMMA ViewKept ==
    ASSUME NEW v \in Workers, ViewInv(v), UNCHANGED task,
           worker'[v].pc = worker[v].pc, worker'[v].view = worker[v].view,
           worker'[v].last = worker[v].last
    PROVE  ViewInv(v)'
  BY DEF ViewInv

\* What was posted stays so.
Posted ==
    /\ doubt => doubt'
    /\ \A i \in Items : posts'[i] >= posts[i]
    /\ \A i \in Items : item[i].status = "posted" => item'[i].status = "posted"

LEMMA TodoKept ==
    ASSUME TypeOK, TypeOK', NEW v \in Workers, TodoInv(v), Posted, worker'[v] = worker[v]
    PROVE  TodoInv(v)'
  <1>1. CASE worker[v].pc \notin Reading
    BY <1>1 DEF TodoInv
  <1>2. CASE worker[v].pc \in Reading
    <2>1. Wanted(v)' = Wanted(v) /\ Wanted(v) \subseteq Items
      BY WantedItems DEF Wanted
    <2>2. \A i \in Items : posts[i] \in Nat /\ posts'[i] \in Nat
      BY DEF TypeOK
    <2>3. worker[v].pc \in Posting => worker[v].at \in Items
      BY <1>2, <2>1 DEF TodoInv
    <2>4. worker[v].pc = "finishItem" => posts'[worker[v].at] >= 1
      BY <1>2, <2>2, <2>3 DEF TodoInv, Posted, Posting
    <2>5. \A i \in Wanted(v) \ worker[v].todo :
             posts'[i] >= 1 /\ (doubt' \/ item'[i].status = "posted")
      BY <1>2, <2>1, <2>2 DEF TodoInv, Posted
    <2>6. /\ worker[v].todo \subseteq Wanted(v)
          /\ worker[v].pc \in Ending => worker[v].todo = {}
          /\ worker[v].pc \in Posting => worker[v].at \in worker[v].todo
      BY <1>2 DEF TodoInv
    <2> QED BY <1>2, <2>1, <2>4, <2>5, <2>6 DEF TodoInv
  <1> QED BY <1>1, <1>2

\* No projector takes an item, gives one back or gets on with it.
SamePosting ==
    \A v \in Workers : worker[v].pc \in Posting \/ worker'[v].pc \in Posting =>
        worker'[v].pc = worker[v].pc /\ worker'[v].at = worker[v].at

LEMMA ItemsKept ==
    ASSUME IInv, SamePosting, UNCHANGED <<item, posts, control>>, doubt => doubt'
    PROVE  /\ \A v \in Workers : HoldInv(v)'
           /\ \A i \in Items : ItemInv(i)'
           /\ \A q \in Reqs : ControlInv(q)'
  <1>1. ASSUME NEW v \in Workers PROVE HoldInv(v)'
    BY DEF IInv, HoldInv, SamePosting
  <1>2. ASSUME NEW i \in Items PROVE ItemInv(i)'
    <2>1. ItemInv(i)
      BY DEF IInv
    <2>2. ASSUME ~doubt', item[i].status = "posting", item[i].claim \in Workers
          PROVE  /\ worker'[item[i].claim].pc = worker[item[i].claim].pc
                 /\ worker'[item[i].claim].at = worker[item[i].claim].at
                 /\ item[i].claim # Gone
      BY <2>1, <2>2, ProjectionAssumption DEF ItemInv, SamePosting
    <2> QED BY <2>1, <2>2 DEF ItemInv, Unrecorded
  <1>3. ASSUME NEW q \in Reqs PROVE ControlInv(q)'
    <2>1. ControlInv(q)
      BY DEF IInv
    <2>2. Unrecorded(q) => Unrecorded(q)'
      BY DEF Unrecorded, SamePosting, Posting
    <2> QED BY <2>1, <2>2 DEF ControlInv
  <1> QED BY <1>1, <1>2, <1>3

\* A projector in its lease is alone.
LEMMA Alone ==
    ASSUME IInv, NEW w \in Workers, worker[w].pc \in Busy, ~overrun
    PROVE  /\ \A v \in Workers \ {w} : worker[v].pc \notin Busy
           /\ \A v \in Previews : preview[v].pc \notin {"write", "release"}
           /\ row.claim = w /\ row.status = "streaming" /\ row.live
  <1>1. LeaseInv(w) /\ row.claim = w
    BY DEF IInv, LeaseInv, Owns
  <1>2. \A v \in Workers \ {w} : worker[v].pc \notin Busy
    BY <1>1 DEF IInv, LeaseInv, Owns
  <1>3. \A v \in Previews : preview[v].pc \notin {"write", "release"}
    BY <1>1, ProjectionAssumption DEF IInv, PreviewInv, Owns
  <1> QED BY <1>1, <1>2, <1>3 DEF LeaseInv

\* The others after a step of a projector that holds the row or lost it.
LEMMA OthersKept ==
    ASSUME IInv, TypeOK', NEW w \in Workers, worker[w].pc \in Busy,
           UNCHANGED overrun, UNCHANGED preview,
           row'.claim \in {row.claim, None, Gone}, Len(cards') >= Len(cards),
           \A v \in Workers \ {w} : worker'[v] = worker[v]
    PROVE  /\ \A v \in Workers \ {w} : LeaseInv(v)'
           /\ \A v \in Previews : PreviewInv(v)'
  <1>1. ASSUME NEW v \in Workers \ {w} PROVE LeaseInv(v)'
    <2>1. Owns(v)' => Owns(v)
      BY ProjectionAssumption DEF Owns
    <2>2. ~overrun => worker[v].pc \notin Busy
      BY Alone
    <2>3. LeaseInv(v)
      BY DEF IInv
    <2>4. worker'[v].card <= Len(cards')
      <3>1. worker[v].card \in Nat /\ Len(cards) \in Nat /\ Len(cards') \in Nat
        BY DEF IInv, TypeOK, Worker
      <3> QED BY <2>3, <3>1 DEF LeaseInv
    <2> QED BY <2>1, <2>2, <2>3, <2>4 DEF LeaseInv
  <1>2. ASSUME NEW v \in Previews PROVE PreviewInv(v)'
    BY Alone DEF IInv, PreviewInv
  <1> QED BY <1>1, <1>2

LEMMA CardKept ==
    ASSUME IInv, overrun => overrun', Posted, Len(cards') = Len(cards),
           row'.card = row.card, row'.last = row.last,
           \A v \in Workers : worker[v].pc = "record" => worker'[v].pc = "record"
    PROVE  CardInv'
  <1>1. CardInv
    BY DEF IInv
  <1>2. has_human_input_receipt => has_human_input_receipt'
    BY ItemSets DEF has_human_input_receipt, Posted
  <1> QED BY <1>1, <1>2 DEF CardInv, Posted

\* A finished task stays shown, or on its way, after a step of a projector that has read
\* the task and goes on with it, or is about to raise.
LEMMA EndKept ==
    ASSUME IInv, TypeOK', NEW w \in Workers, worker[w].pc \in Reading,
           UNCHANGED <<task, notices, overrun>>, Posted,
           row'.claim = row.claim,
           row.card = 0 /\ ~Owns(w) => row'.card = 0,
           \A v \in Workers \ {w} : worker'[v] = worker[v],
           \/ worker'[w].pc = "fallback"
           \/ worker'[w].pc \in Reading /\ worker'[w].view = worker[w].view
    PROVE  EndInv'
  <1> SUFFICES ASSUME task.state = "COMPLETED", ~notices
               PROVE  \/ Retries'
                      \/ \E v \in Workers : Owns(v)' /\ Final(v)'
                      \/ AllShown' /\ \A v \in Workers : ~Owns(v)'
    BY DEF EndInv
  <1>1. \/ Retries
        \/ \E v \in Workers : Owns(v) /\ Final(v)
        \/ AllShown /\ \A v \in Workers : ~Owns(v)
    BY DEF IInv, EndInv
  <1>2. CASE Retries
    <2>1. PICK v \in Workers : worker[v].pc \in {"claim", "fallback"}
      BY <1>2 DEF Retries
    <2>2. v # w
      BY <2>1 DEF Reading, Posting, Ending
    <2> QED BY <2>1, <2>2 DEF Retries
  <1>3. ASSUME NEW v \in Workers, Owns(v), Final(v)
        PROVE  Retries' \/ \E u \in Workers : Owns(u)' /\ Final(u)'
    <2>1. CASE v # w
      BY <1>3, <2>1 DEF Owns, Final
    <2>2. CASE v = w
      BY <1>3, <2>2 DEF Owns, Final, Retries, Reading, Posting, Ending
    <2> QED BY <2>1, <2>2
  <1>4. CASE AllShown /\ \A v \in Workers : ~Owns(v)
    <2>1. worker[w].pc \in Busy /\ ~Owns(w)
      BY <1>4 DEF Busy
    <2>2. overrun
      BY <2>1, Alone DEF Owns
    <2>3. \A i \in 1..task.said : i \in Items
      BY ItemSets DEF IInv, TypeOK, TaskView
    <2>4. \A i \in Items : posts[i] \in Nat /\ posts'[i] \in Nat
      BY DEF IInv, TypeOK
    <2>5. \A i \in 1..task.said : posts'[i] >= 1
      BY <1>4, <2>3, <2>4 DEF AllShown, Posted
    <2>6. row'.card = 0
      BY <1>4, <2>1 DEF AllShown
    <2>7. AllShown'
      BY <2>2, <2>5, <2>6 DEF AllShown
    <2> QED BY <1>4, <2>7 DEF Owns
  <1> QED BY <1>1, <1>2, <1>3, <1>4

\* The shape of a step of a projector that has read the task and stays at work.
LEMMA WorkKeeps ==
    ASSUME IInv, TypeOK', TaskInv', NEW w \in Workers, worker[w].pc \in Reading,
           UNCHANGED <<task, notices, preview, overrun>>, Posted,
           row'.claim = row.claim, Len(cards') >= Len(cards),
           row.card = 0 /\ ~Owns(w) => row'.card = 0,
           \A v \in Workers \ {w} : worker'[v] = worker[v],
           worker'[w].pc \in Reading \cup {"fallback"},
           worker'[w].view = worker[w].view, worker'[w].last = worker[w].last,
           TodoInv(w)', LeaseInv(w)', CardInv',
           \A v \in Workers : HoldInv(v)',
           \A i \in Items : ItemInv(i)',
           \A q \in Reqs : ControlInv(q)'
    PROVE  IInv'
  <1>1. TypeOK /\ \A v \in Workers : ViewInv(v) /\ TodoInv(v)
    BY DEF IInv
  <1>2. worker[w].pc \in Busy
    BY DEF Busy
  <1>3. /\ \A v \in Workers \ {w} : LeaseInv(v)'
        /\ \A v \in Previews : PreviewInv(v)'
    BY <1>2, OthersKept
  <1>4. \A v \in Workers \ {w} : TodoInv(v)' /\ ViewInv(v)'
    BY <1>1, TodoKept, ViewKept
  <1>5. ViewInv(w)'
    BY <1>1 DEF ViewInv, Reading, Posting, Ending
  <1>6. EndInv'
    BY EndKept
  <1> QED BY <1>3, <1>4, <1>5, <1>6 DEF IInv

\* ... that does not touch an item, the row or Slack.
LEMMA MoveKeeps ==
    ASSUME IInv, TypeOK', NEW w \in Workers, worker[w].pc \in Reading \ Posting,
           UNCHANGED <<task, notices, preview, overrun, row, item, posts, control, shown>>,
           doubt => doubt', Len(cards') >= Len(cards),
           \A v \in Workers \ {w} : worker'[v] = worker[v],
           worker'[w].pc \in (Reading \ Posting) \cup {"fallback"},
           worker'[w].view = worker[w].view, worker'[w].last = worker[w].last,
           TodoInv(w)', LeaseInv(w)', CardInv'
    PROVE  IInv'
  <1>1. SamePosting
    BY DEF SamePosting, Reading, Posting, Ending
  <1>2. /\ \A v \in Workers : HoldInv(v)'
        /\ \A i \in Items : ItemInv(i)'
        /\ \A q \in Reqs : ControlInv(q)'
    BY <1>1, ItemsKept
  <1>3. Posted
    BY DEF Posted, IInv, TypeOK
  <1>4. TaskInv'
    BY DEF IInv, TaskInv
  <1> QED BY <1>2, <1>3, <1>4, WorkKeeps

\* A projector that goes on to other items, or raises.
LEMMA GoOn ==
    ASSUME IInv, TypeOK', NEW w \in Workers, worker[w].pc \in Reading,
           Posted, UNCHANGED <<row, shown, overrun>>, Len(cards') >= Len(cards),
           worker'[w].pc \in {"items", "post", "failItem", "fallback"},
           worker'[w].view = worker[w].view, worker'[w].last = worker[w].last,
           worker'[w].card = row.card \/ worker'[w].card = worker[w].card,
           worker[w].pc # "record",
           worker'[w].todo = worker[w].todo,
           worker'[w].pc \in {"items", "fallback"} \/ worker'[w].at \in worker[w].todo
    PROVE  TodoInv(w)' /\ LeaseInv(w)'
  <1>1. TypeOK /\ TodoInv(w) /\ LeaseInv(w)
    BY DEF IInv
  <1>2. Wanted(w)' = Wanted(w) /\ Wanted(w) \subseteq Items
    BY <1>1, WantedItems DEF Wanted
  <1>3. \A i \in Items : posts[i] \in Nat /\ posts'[i] \in Nat
    BY <1>1 DEF TypeOK
  <1>4. \A i \in Wanted(w) \ worker[w].todo :
             posts'[i] >= 1 /\ (doubt' \/ item'[i].status = "posted")
    BY <1>1, <1>2, <1>3 DEF TodoInv, Posted
  <1>5. worker[w].todo \subseteq Wanted(w)
    BY <1>1 DEF TodoInv
  <1>6. TodoInv(w)'
    BY <1>2, <1>4, <1>5 DEF TodoInv, Ending, Posting
  <1>7. worker[w].pc \in Busy /\ worker'[w].pc \in Busy
    BY DEF Busy, Reading, Posting
  <1>8. worker'[w].card <= Len(cards')
    <2>1. /\ worker[w].card \in Nat /\ Len(cards) \in Nat /\ Len(cards') \in Nat
          /\ row.card \in Nat /\ row.card <= Len(cards)
      BY <1>1 DEF TypeOK, Worker, Row
    <2> QED BY <1>1, <2>1 DEF LeaseInv
  <1>9. LeaseInv(w)'
    BY <1>1, <1>7, <1>8 DEF LeaseInv, Owns, Ending
  <1> QED BY <1>6, <1>9

----
\* The steps of a projector on its card

LEMMA StepStart ==
    ASSUME IInv, NEW w \in Workers, start_stream(w)
    PROVE  IInv'
  <1>1. /\ worker[w].pc = "start" /\ worker[w].pc \in Reading \ Posting /\ worker[w] \in Worker
        /\ UNCHANGED <<task, row, item, posts, control, shown, notices, preview, overrun>>
    BY DEF start_stream, Reading, Posting, IInv, TypeOK
  <1>2. TypeOK /\ TodoInv(w) /\ LeaseInv(w) /\ CardInv
    BY DEF IInv
  <1>3. /\ cards \in Seq({"working", "draft", "stopped"}) /\ Len(cards) \in Nat
        /\ Append(cards, "working") \in Seq({"working", "draft", "stopped"})
        /\ Len(Append(cards, "working")) = Len(cards) + 1
        /\ row.card \in Nat /\ row.card <= Len(cards)
    BY <1>2 DEF TypeOK, Row
  <1>4. CASE /\ CanStart(w)
             /\ cards' = Append(cards, "working")
             /\ worker' = [worker EXCEPT ![w] = [worker[w] EXCEPT !.pc = "record",
                               !.card = Len(cards) + 1]]
             /\ UNCHANGED <<doubt, faults>>
    <2> DEFINE l == [worker[w] EXCEPT !.pc = "record", !.card = Len(cards) + 1]
    <2>1. /\ l \in Worker /\ l.pc = "record" /\ l.card = Len(cards) + 1
          /\ l.view = worker[w].view /\ l.last = worker[w].last /\ l.todo = worker[w].todo
      <3>1. worker[w] \in Worker
        BY <1>1
      <3>2. PICK n \in Nat : n = Len(cards) + 1
        BY <1>3
      <3> QED BY <3>1, <3>2 DEF Worker, Pcs
    <2>2. worker' = [worker EXCEPT ![w] = l]
      BY <1>4
    <2> HIDE DEF l
    <2>3. /\ worker' \in [Workers -> Worker]
          /\ worker'[w].pc = "record" /\ worker'[w].card = Len(cards) + 1
          /\ worker'[w].view = worker[w].view /\ worker'[w].last = worker[w].last
          /\ worker'[w].todo = worker[w].todo
          /\ \A v \in Workers \ {w} : worker'[v] = worker[v]
      BY <1>2, <2>1, <2>2, SetWorker
    <2>4. TypeOK'
      BY <1>1, <1>2, <1>3, <1>4, <2>3 DEF TypeOK
    <2>5. TodoInv(w)'
      BY <1>1, <1>2, <1>4, <2>3 DEF TodoInv, Wanted, Reading, Posting, Ending
    <2>6. LeaseInv(w)'
      BY <1>1, <1>2, <1>3, <1>4, <2>3 DEF LeaseInv, Owns, Busy, Reading, Posting, Ending
    <2>7. ASSUME ~overrun, ~doubt
          PROVE  Len(cards) = 0
      <3>1. /\ worker[w].last = row.last /\ worker[w].card = row.card
        BY <1>1, <1>2, <2>7 DEF LeaseInv, Busy
      <3>2. /\ row.card = 0 /\ row.last # "COMPLETED" /\ ~has_human_input_receipt
        BY <1>4, <3>1 DEF CanStart, Working
      <3>3. \A v \in Workers : worker[v].pc # "record"
        BY <1>1, <2>7, Alone DEF Busy, Reading
      <3>4. Len(cards) <= 1 /\ Len(cards) # 1
        BY <1>2, <2>7, <3>2, <3>3 DEF CardInv
      <3>5. PICK n \in Nat : n = Len(cards)
        BY <1>3
      <3>6. n <= 1 /\ n # 1
        BY <3>4, <3>5
      <3>7. n = 0
        BY <3>6
      <3> QED BY <3>5, <3>7
    <2>8. CardInv'
      BY <1>1, <1>3, <1>4, <2>3, <2>7 DEF CardInv
    <2>9. worker'[w].pc \in Reading \ Posting
      BY <2>3 DEF Reading, Posting
    <2> QED BY <1>1, <1>3, <1>4, <2>3, <2>4, <2>5, <2>6, <2>8, <2>9, MoveKeeps
  <1>5. CASE /\ Goto(w, "items")
             /\ faults' = faults \/ Fault
             /\ \/ cards' = Append(cards, "working") /\ doubt' = TRUE
                \/ UNCHANGED <<cards, doubt>>
    <2>1. /\ worker' \in [Workers -> Worker]
          /\ \A v \in Workers \ {w} : worker'[v] = worker[v]
          /\ worker'[w].pc = "items" /\ worker'[w].view = worker[w].view
          /\ worker'[w].last = worker[w].last /\ worker'[w].card = worker[w].card
          /\ worker'[w].todo = worker[w].todo
      BY <1>2, <1>5, GotoWorker DEF Pcs
    <2>2. faults' \in 0..MaxFaults /\ doubt' \in BOOLEAN
      <3>1. faults' \in 0..MaxFaults
        BY <1>2, <1>5, ProjectionAssumption DEF TypeOK, Fault
      <3>2. doubt \in BOOLEAN
        BY <1>2 DEF TypeOK
      <3> QED BY <1>5, <3>1, <3>2
    <2>3. cards' \in Seq({"working", "draft", "stopped"}) /\ row.card <= Len(cards')
          /\ Len(cards') >= Len(cards)
      BY <1>3, <1>5
    <2>4. TypeOK'
      BY <1>1, <1>2, <2>1, <2>2, <2>3 DEF TypeOK
    <2>5. Posted
      BY <1>1, <1>2, <1>5 DEF Posted, TypeOK
    <2>6. TodoInv(w)' /\ LeaseInv(w)'
      BY <1>1, <2>1, <2>3, <2>4, <2>5, GoOn
    <2>7. CASE doubt'
      <3>1. CardInv'
        BY <2>7 DEF CardInv
      <3> QED BY <1>1, <1>5, <2>1, <2>3, <2>4, <2>6, <3>1, MoveKeeps DEF Reading, Posting
    <2>8. CASE ~doubt'
      <3>1. UNCHANGED <<cards, doubt>>
        BY <1>5, <2>8
      <3>2. \A v \in Workers : worker[v].pc = "record" => worker'[v].pc = "record"
        BY <1>1, <2>1
      <3>3. CardInv'
        BY <1>1, <2>5, <3>1, <3>2, CardKept
      <3> QED BY <1>1, <2>1, <2>3, <2>4, <2>6, <3>1, <3>3, MoveKeeps DEF Reading, Posting
    <2> QED BY <2>7, <2>8
  <1> QED BY <1>4, <1>5 DEF start_stream

LEMMA StepRecord ==
    ASSUME IInv, NEW w \in Workers, update_stream_message(w)
    PROVE  IInv'
  <1>1. /\ worker[w].pc = "record" /\ worker[w].pc \in Reading \ Posting
        /\ Goto(w, "items")
        /\ row' = IF Owns(w) THEN [row EXCEPT !.card = worker[w].card] ELSE row
        /\ UNCHANGED <<task, item, slackVars, notices, preview, overrun, doubt, faults>>
    BY DEF update_stream_message, Reading, Posting
  <1>2. TypeOK /\ TodoInv(w) /\ LeaseInv(w) /\ CardInv /\ TaskInv
    BY DEF IInv
  <1>3. /\ worker' \in [Workers -> Worker]
        /\ \A v \in Workers \ {w} : worker'[v] = worker[v]
        /\ worker'[w].pc = "items" /\ worker'[w].view = worker[w].view
        /\ worker'[w].last = worker[w].last /\ worker'[w].card = worker[w].card
        /\ worker'[w].todo = worker[w].todo
    BY <1>1, <1>2, GotoWorker DEF Pcs
  <1>4. row \in Row /\ worker[w] \in Worker /\ row.card <= Len(cards)
    BY <1>2 DEF TypeOK
  <1>5. /\ row' \in Row /\ row'.claim = row.claim /\ row'.status = row.status
        /\ row'.live = row.live /\ row'.last = row.last
        /\ row'.card = IF Owns(w) THEN worker[w].card ELSE row.card
    BY <1>1, <1>4 DEF Row, Worker
  <1>6. worker[w].card \in Nat /\ worker[w].card <= Len(cards) /\ Len(cards) \in Nat
    BY <1>2, <1>4 DEF LeaseInv, Worker, TypeOK
  <1>7. TypeOK' /\ cards' = cards
    BY <1>1, <1>2, <1>3, <1>4, <1>5, <1>6 DEF TypeOK, slackVars
  <1>8. Posted /\ SamePosting
    BY <1>1, <1>2, <1>3 DEF Posted, TypeOK, slackVars, SamePosting, Posting
  <1>9. TodoInv(w)'
    BY <1>1, <1>2, <1>3 DEF TodoInv, Wanted, slackVars, Reading, Posting, Ending
  <1>10. LeaseInv(w)'
    BY <1>1, <1>2, <1>3, <1>5, <1>6, <1>7 DEF LeaseInv, Owns, slackVars, Busy, Reading, Posting, Ending
  <1>11. CardInv'
    <2> SUFFICES ASSUME ~overrun, ~doubt
                 PROVE  CardInv'
      BY <1>1 DEF CardInv
    <2>1. Owns(w) /\ worker[w].card = Len(cards)
      BY <1>1, <1>2 DEF LeaseInv, Busy
    <2>2. row'.card = Len(cards)
      BY <1>5, <2>1
    <2> QED BY <1>2, <1>7, <2>2 DEF CardInv
  <1>12. /\ \A v \in Workers : HoldInv(v)'
         /\ \A i \in Items : ItemInv(i)'
         /\ \A q \in Reqs : ControlInv(q)'
    BY <1>1, <1>8, ItemsKept DEF slackVars
  <1>13. TaskInv'
    BY <1>1, <1>2, <1>5 DEF TaskInv, slackVars
  <1>14. row.card = 0 /\ ~Owns(w) => row'.card = 0
    BY <1>5
  <1> QED BY <1>1, <1>3, <1>5, <1>6, <1>7, <1>8, <1>9, <1>10, <1>11, <1>12, <1>13, <1>14, WorkKeeps
             DEF Reading

----
\* The steps of a projector on an item

\* A step of projector w on item i leaves what holds of the other items.
LEMMA OtherItems ==
    ASSUME IInv, NEW w \in Workers, NEW i \in Items,
           worker[w].pc \notin Posting \/ worker[w].at = i,
           \A v \in Workers \ {w} : worker'[v] = worker[v],
           \A j \in Items \ {i} : item'[j] = item[j] /\ posts'[j] = posts[j],
           \A q \in Reqs \ {i} : control'[q] = control[q],
           doubt => doubt',
           doubt \/ item'[i] = item[i] \/ item[i].status # "posting" \/ item[i].claim \in {w, Gone}
    PROVE  /\ \A v \in Workers \ {w} : HoldInv(v)'
           /\ \A j \in Items \ {i} : ItemInv(j)'
           /\ \A q \in Reqs \ {i} : ControlInv(q)'
  <1>1. ASSUME NEW v \in Workers \ {w}, worker[v].pc \in Posting, ~doubt'
        PROVE  item'[worker[v].at].status = "posting" /\ item'[worker[v].at].claim = v
    <2>1. /\ worker[v].at \in Items
          /\ item[worker[v].at].status = "posting" /\ item[worker[v].at].claim = v
      <3>1. TodoInv(v) /\ HoldInv(v) /\ TypeOK /\ worker[v].pc \in Reading
        BY <1>1 DEF IInv, Reading
      <3>2. worker[v].at \in Items
        BY <1>1, <3>1, WantedItems DEF TodoInv
      <3> QED BY <1>1, <3>1, <3>2 DEF HoldInv
    <2>2. v # Gone
      BY ProjectionAssumption
    <2> QED BY <1>1, <2>1, <2>2
  <1>2. \A v \in Workers \ {w} : HoldInv(v)'
    BY <1>1 DEF HoldInv
  <1>3. ASSUME NEW j \in Items \ {i}, item[j].status = "posting", item[j].claim \in Workers, ~doubt'
        PROVE  item[j].claim # w
    <2>1. worker[item[j].claim].pc \in Posting /\ worker[item[j].claim].at = j
      BY <1>3, ProjectionAssumption DEF IInv, ItemInv
    <2> QED BY <2>1
  <1>4. ASSUME NEW j \in Items \ {i} PROVE ItemInv(j)'
    <2>1. ItemInv(j) /\ item'[j] = item[j] /\ posts'[j] = posts[j]
      BY DEF IInv
    <2> QED BY <1>3, <2>1, ProjectionAssumption DEF ItemInv, Unrecorded
  <1>5. ASSUME NEW q \in Reqs \ {i} PROVE ControlInv(q)'
    <2>1. ControlInv(q) /\ item'[q] = item[q] /\ control'[q] = control[q] /\ q \in Items \ {i}
      BY ItemSets DEF IInv
    <2> QED BY <1>3, <2>1 DEF ControlInv, Unrecorded
  <1> QED BY <1>2, <1>4, <1>5

LEMMA StepClaimItem ==
    ASSUME IInv, NEW w \in Workers, claim_item(w)
    PROVE  IInv'
  <1>1. /\ worker[w].pc = "items" /\ worker[w].pc \in Reading \ Posting /\ worker[w].todo # {}
        /\ UNCHANGED <<task, row, slackVars, notices, preview, overrun, doubt, faults>>
        /\ UNCHANGED <<cards, posts, control, shown>>
    BY DEF claim_item, Reading, Posting, slackVars
  <1>2. TypeOK /\ TodoInv(w) /\ LeaseInv(w) /\ worker[w] \in Worker /\ TaskInv
    BY DEF IInv, TypeOK
  <1>3. worker[w].todo \subseteq Wanted(w) /\ Wanted(w) \subseteq Items
    BY <1>1, <1>2, WantedItems DEF TodoInv
  <1>4. PICK i \in worker[w].todo : i = CHOOSE j \in worker[w].todo : \A k \in worker[w].todo : j <= k
    BY <1>1, <1>3, LeastItem
  <1>5. i \in Items /\ item[i] \in Receipt /\ ItemInv(i) /\ Len(cards) \in Nat
    BY <1>2, <1>3 DEF IInv, TypeOK
  <1>6. CASE /\ item[i].status = "failed" \/ (item[i].status = "posting" /\ ~item[i].live)
             /\ item' = [item EXCEPT ![i] = [status |-> "posting", ts |-> item[i].ts,
                                             claim |-> w, live |-> TRUE]]
             /\ worker' = [worker EXCEPT ![w] = [worker[w] EXCEPT !.pc = "post", !.at = i]]
    <2> DEFINE l == [worker[w] EXCEPT !.pc = "post", !.at = i]
               r == [status |-> "posting", ts |-> item[i].ts, claim |-> w, live |-> TRUE]
    <2>1. /\ l \in Worker /\ l.pc = "post" /\ l.at = i /\ l.view = worker[w].view
          /\ l.last = worker[w].last /\ l.todo = worker[w].todo /\ l.card = worker[w].card
      BY <1>2, <1>5 DEF Worker, Pcs
    <2>2. r \in Receipt /\ r.status = "posting" /\ r.claim = w /\ r.live
      BY <1>5 DEF Receipt, Claims
    <2>3. worker' = [worker EXCEPT ![w] = l] /\ item' = [item EXCEPT ![i] = r]
      BY <1>6
    <2> HIDE DEF l, r
    <2>4. /\ worker' \in [Workers -> Worker]
          /\ worker'[w].pc = "post" /\ worker'[w].at = i
          /\ worker'[w].view = worker[w].view /\ worker'[w].last = worker[w].last
          /\ worker'[w].todo = worker[w].todo /\ worker'[w].card = worker[w].card
          /\ \A v \in Workers \ {w} : worker'[v] = worker[v]
      BY <1>2, <2>1, <2>3, SetWorker
    <2>5. /\ item' \in [Items -> Receipt]
          /\ item'[i].status = "posting" /\ item'[i].claim = w /\ item'[i].live
          /\ \A j \in Items \ {i} : item'[j] = item[j]
      BY <1>2, <1>5, <2>2, <2>3, SetReceipt
    <2>6. TypeOK'
      BY <1>1, <1>2, <2>4, <2>5 DEF TypeOK
    <2>7. ~doubt => posts[i] = 0 /\ (item[i].status # "posting" \/ item[i].claim = Gone)
      BY <1>5, <1>6 DEF ItemInv
    <2>8. Posted
      BY <1>1, <1>2, <1>6, <2>5 DEF Posted, TypeOK
    <2>9. TodoInv(w)' /\ LeaseInv(w)'
      BY <1>1, <1>5, <2>4, <2>6, <2>8, GoOn
    <2>10. CardInv'
      BY <1>1, <2>4, <2>8, CardKept
    <2>11. /\ \A v \in Workers \ {w} : HoldInv(v)'
           /\ \A j \in Items \ {i} : ItemInv(j)'
           /\ \A q \in Reqs \ {i} : ControlInv(q)'
      BY <1>1, <1>5, <2>4, <2>5, <2>7, OtherItems
    <2>12. HoldInv(w)'
      BY <2>4, <2>5 DEF HoldInv
    <2>13. ItemInv(i)'
      BY <1>1, <2>4, <2>5, <2>7 DEF ItemInv, Unrecorded, Posting
    <2>14. ASSUME i \in Reqs PROVE ControlInv(i)'
      <3>1. ControlInv(i)
        BY <2>14 DEF IInv
      <3>2. ~doubt => control[i] # "open"
        BY <1>6, <2>7, <3>1, ProjectionAssumption DEF ControlInv, Unrecorded
      <3> QED BY <1>1, <3>2 DEF ControlInv
    <2>15. TaskInv'
      BY <1>1, <1>2 DEF TaskInv
    <2>16. /\ \A v \in Workers : HoldInv(v)'
           /\ \A j \in Items : ItemInv(j)'
           /\ \A q \in Reqs : ControlInv(q)'
      BY <2>11, <2>12, <2>13, <2>14
    <2>17. worker'[w].pc \in Reading
      BY <2>4 DEF Reading, Posting
    <2> QED BY <1>1, <1>5, <2>4, <2>6, <2>8, <2>9, <2>10, <2>15, <2>16, <2>17, WorkKeeps
  <1>7. CASE Goto(w, "fallback") /\ UNCHANGED item
    <2>1. /\ worker' \in [Workers -> Worker]
          /\ \A v \in Workers \ {w} : worker'[v] = worker[v]
          /\ worker'[w].pc = "fallback" /\ worker'[w].view = worker[w].view
          /\ worker'[w].last = worker[w].last /\ worker'[w].card = worker[w].card
          /\ worker'[w].todo = worker[w].todo
      BY <1>2, <1>7, GotoWorker DEF Pcs
    <2>2. TypeOK'
      BY <1>1, <1>2, <1>7, <2>1 DEF TypeOK
    <2>3. Posted
      BY <1>1, <1>2, <1>7 DEF Posted, TypeOK
    <2>4. TodoInv(w)' /\ LeaseInv(w)'
      BY <1>1, <1>5, <2>1, <2>2, <2>3, GoOn
    <2>5. CardInv'
      BY <1>1, <2>1, <2>3, CardKept
    <2> QED BY <1>1, <1>5, <1>7, <2>1, <2>2, <2>4, <2>5, MoveKeeps
  <1>8. CASE /\ item[i].status = "posted"
             /\ worker' = [worker EXCEPT ![w] = [worker[w] EXCEPT !.todo = worker[w].todo \ {i}]]
             /\ UNCHANGED item
    <2> DEFINE l == [worker[w] EXCEPT !.todo = worker[w].todo \ {i}]
    <2>1. /\ l \in Worker /\ l.pc = "items" /\ l.view = worker[w].view
          /\ l.last = worker[w].last /\ l.todo = worker[w].todo \ {i} /\ l.card = worker[w].card
      <3>1. worker[w].todo \ {i} \in SUBSET Items
        BY <1>3
      <3> QED BY <1>1, <1>2, <3>1 DEF Worker
    <2>2. worker' = [worker EXCEPT ![w] = l]
      BY <1>8
    <2> HIDE DEF l
    <2>3. /\ worker' \in [Workers -> Worker]
          /\ worker'[w].pc = "items" /\ worker'[w].todo = worker[w].todo \ {i}
          /\ worker'[w].view = worker[w].view /\ worker'[w].last = worker[w].last
          /\ worker'[w].card = worker[w].card
          /\ \A v \in Workers \ {w} : worker'[v] = worker[v]
      BY <1>2, <2>1, <2>2, SetWorker
    <2>4. TypeOK'
      BY <1>1, <1>2, <1>8, <2>3 DEF TypeOK
    <2>5. Posted
      BY <1>1, <1>2, <1>8 DEF Posted, TypeOK
    <2>6. posts[i] >= 1
      BY <1>5, <1>8 DEF ItemInv
    <2>7. TodoInv(w)'
      BY <1>1, <1>2, <1>8, <2>3, <2>6 DEF TodoInv, Wanted, Ending, Posting
    <2>8. LeaseInv(w)'
      BY <1>1, <1>2, <2>3 DEF LeaseInv, Owns, Busy, Ending
    <2>9. CardInv'
      BY <1>1, <2>3, <2>5, CardKept
    <2> QED BY <1>1, <1>5, <1>8, <2>3, <2>4, <2>7, <2>8, <2>9, MoveKeeps
  <1> QED BY <1>4, <1>6, <1>7, <1>8 DEF claim_item

LEMMA StepPost ==
    ASSUME IInv, NEW w \in Workers, Post(w)
    PROVE  IInv'
  <1>1. /\ worker[w].pc = "post" /\ worker[w].pc \in Reading /\ worker[w].pc \in Posting
        /\ UNCHANGED <<task, row, item, cards, shown, notices, preview, overrun>>
    BY DEF Post, Reading, Posting
  <1>2. TypeOK /\ TodoInv(w) /\ LeaseInv(w) /\ HoldInv(w) /\ TaskInv /\ Len(cards) \in Nat
    BY DEF IInv, TypeOK
  <1>3. PICK i \in Items : i = worker[w].at /\ i \in worker[w].todo
    BY <1>1, <1>2, WantedItems DEF TodoInv
  <1>4. ItemInv(i) /\ posts[i] \in Nat
    BY <1>2 DEF IInv, TypeOK
  <1>5. PICK p \in {"finishItem", "failItem"} :
          /\ Goto(w, p)
          /\ faults' = faults \/ Fault
          /\ \/ p = "finishItem" /\ Appears(i) /\ doubt' = doubt
             \/ p = "failItem" /\ UNCHANGED <<posts, control, doubt>>
             \/ p = "failItem" /\ Appears(i) /\ doubt' = TRUE
    BY <1>3 DEF Post
  <1>6. /\ worker' \in [Workers -> Worker]
        /\ \A v \in Workers \ {w} : worker'[v] = worker[v]
        /\ worker'[w].pc = p /\ worker'[w].view = worker[w].view
        /\ worker'[w].last = worker[w].last /\ worker'[w].card = worker[w].card
        /\ worker'[w].todo = worker[w].todo /\ worker'[w].at = i
    BY <1>2, <1>3, <1>5, GotoWorker DEF Pcs
  <1>7. /\ posts' \in [Items -> Nat]
        /\ posts'[i] \in {posts[i], posts[i] + 1}
        /\ \A j \in Items \ {i} : posts'[j] = posts[j]
        /\ p = "finishItem" => posts'[i] = posts[i] + 1
        /\ p = "failItem" /\ ~doubt' => posts'[i] = posts[i]
    <2>1. posts \in [Items -> Nat]
      BY <1>2 DEF TypeOK
    <2>2. ASSUME Appears(i)
          PROVE  /\ posts' \in [Items -> Nat] /\ posts'[i] = posts[i] + 1
                 /\ \A j \in Items \ {i} : posts'[j] = posts[j]
      BY <1>4, <2>1, <2>2 DEF Appears
    <2>3. ASSUME UNCHANGED posts
          PROVE  /\ posts' \in [Items -> Nat] /\ posts'[i] = posts[i]
                 /\ \A j \in Items \ {i} : posts'[j] = posts[j]
      BY <2>1, <2>3
    <2> QED BY <1>5, <2>2, <2>3
  <1>8. /\ control' \in [Reqs -> {"none", "open", "closed"}]
        /\ \A q \in Reqs \ {i} : control'[q] = control[q]
        /\ p = "failItem" /\ ~doubt' => control' = control
    BY <1>2, <1>5 DEF Appears, TypeOK
  <1>9. doubt' \in BOOLEAN /\ (doubt => doubt')
    <2>1. doubt \in BOOLEAN
      BY <1>2 DEF TypeOK
    <2>2. doubt' = doubt \/ doubt' = TRUE
      BY <1>5
    <2> QED BY <2>1, <2>2
  <1>10. faults' \in 0..MaxFaults
    BY <1>2, <1>5, ProjectionAssumption DEF TypeOK, Fault
  <1>11. TypeOK'
    BY <1>1, <1>2, <1>6, <1>7, <1>8, <1>9, <1>10 DEF TypeOK
  <1>12. Posted
    <2>1. \A j \in Items : posts'[j] >= posts[j]
      BY <1>2, <1>7 DEF TypeOK
    <2> QED BY <1>1, <1>9, <2>1 DEF Posted
  <1>13. /\ \A v \in Workers \ {w} : HoldInv(v)'
         /\ \A j \in Items \ {i} : ItemInv(j)'
         /\ \A q \in Reqs \ {i} : ControlInv(q)'
    BY <1>1, <1>3, <1>6, <1>7, <1>8, <1>9, OtherItems
  <1>14. ~doubt => item[i].status = "posting" /\ item[i].claim = w
    BY <1>1, <1>2, <1>3 DEF HoldInv
  <1>15. HoldInv(w)'
    BY <1>1, <1>6, <1>9, <1>14 DEF HoldInv
  <1>16. ~doubt => posts[i] = 0 /\ item[i].live
    BY <1>1, <1>4, <1>14, ProjectionAssumption DEF ItemInv, Unrecorded
  <1>17. ItemInv(i)'
    <2>1. item[i].status = "posted" => posts'[i] >= 1 /\ item[i].claim = None
      BY <1>4, <1>7 DEF ItemInv
    <2>2. ~doubt' => posts'[i] = IF p = "finishItem" THEN 1 ELSE 0
      BY <1>7, <1>9, <1>16
    <2> QED BY <1>1, <1>6, <1>9, <1>14, <1>16, <2>1, <2>2 DEF ItemInv, Unrecorded, Posting
  <1>18. ASSUME i \in Reqs PROVE ControlInv(i)'
    <2>1. CASE p = "finishItem"
      BY <1>1, <1>6, <1>9, <1>14, <2>1 DEF ControlInv, Unrecorded
    <2>2. CASE p = "failItem"
      <3>1. ControlInv(i)
        BY <1>18 DEF IInv
      <3>2. ~doubt => control[i] # "open"
        BY <1>1, <1>14, <3>1 DEF ControlInv, Unrecorded
      <3> QED BY <1>8, <1>9, <2>2, <3>2 DEF ControlInv
    <2> QED BY <2>1, <2>2
  <1>19. TodoInv(w)' /\ LeaseInv(w)'
    <2>1. CASE p = "failItem"
      BY <1>1, <1>2, <1>3, <1>6, <1>11, <1>12, <2>1, GoOn
    <2>2. CASE p = "finishItem"
      <3>1. /\ Wanted(w)' = Wanted(w) /\ Wanted(w) \subseteq Items
            /\ \A j \in Items : posts[j] \in Nat /\ posts'[j] \in Nat
        BY <1>2, <1>6, <1>7, WantedItems DEF Wanted, TypeOK
      <3>2. \A j \in Wanted(w) \ worker[w].todo :
               posts'[j] >= 1 /\ (doubt' \/ item'[j].status = "posted")
        BY <1>1, <1>2, <1>12, <3>1 DEF TodoInv, Posted
      <3>3. posts'[i] >= 1
        BY <1>4, <1>7, <2>2
      <3>4. TodoInv(w)'
        BY <1>1, <1>2, <1>3, <1>6, <2>2, <3>1, <3>2, <3>3 DEF TodoInv, Ending
      <3>5. LeaseInv(w)'
        BY <1>1, <1>2, <1>6, <2>2 DEF LeaseInv, Owns, Busy, Reading, Posting, Ending
      <3> QED BY <3>4, <3>5
    <2> QED BY <2>1, <2>2
  <1>20. CardInv'
    BY <1>1, <1>6, <1>12, CardKept
  <1>21. TaskInv'
    BY <1>1, <1>2 DEF TaskInv
  <1>22. /\ \A v \in Workers : HoldInv(v)'
         /\ \A j \in Items : ItemInv(j)'
         /\ \A q \in Reqs : ControlInv(q)'
    BY <1>13, <1>15, <1>17, <1>18
  <1>23. worker'[w].pc \in Reading
    BY <1>6 DEF Reading, Posting
  <1> QED BY <1>1, <1>2, <1>6, <1>11, <1>12, <1>19, <1>20, <1>21, <1>22, <1>23, WorkKeeps

\* The receipt of an item that its projector gives back; another's is left alone.
LEMMA GiveBack ==
    ASSUME IInv, NEW w \in Workers, worker[w].pc \in {"finishItem", "failItem"},
           NEW s \in {"posted", "failed"}, s = "posted" <=> worker[w].pc = "finishItem",
           SetItem(w, s), UNCHANGED <<posts, control, doubt>>,
           \A v \in Workers \ {w} : worker'[v] = worker[v], worker'[w].pc \notin Posting
    PROVE  /\ item' \in [Items -> Receipt] /\ Posted
           /\ \A v \in Workers : HoldInv(v)'
           /\ \A j \in Items : ItemInv(j)'
           /\ \A q \in Reqs : ControlInv(q)'
           /\ worker[w].at \in Items
           /\ s = "posted" => doubt \/ item'[worker[w].at].status = "posted"
  <1>1. TypeOK /\ TodoInv(w) /\ HoldInv(w) /\ worker[w].pc \in Reading /\ worker[w].pc \in Posting
    BY DEF IInv, Reading, Posting
  <1>2. PICK i \in Items : i = worker[w].at /\ i \in worker[w].todo
    BY <1>1, WantedItems DEF TodoInv
  <1>3. ItemInv(i) /\ item[i] \in Receipt /\ posts[i] \in Nat
    BY <1>1 DEF IInv, TypeOK
  <1> DEFINE r == [status |-> s, claim |-> None, ts |-> s = "posted", live |-> FALSE]
  <1>4. r \in Receipt /\ r.status = s /\ r.claim = None /\ r.ts = (s = "posted")
    BY DEF Receipt, Claims
  <1>5. item' = IF OwnsItem(w) THEN [item EXCEPT ![i] = r] ELSE item
    BY <1>2 DEF SetItem
  <1> HIDE DEF r
  <1>6. /\ item' \in [Items -> Receipt]
        /\ \A j \in Items \ {i} : item'[j] = item[j]
        /\ OwnsItem(w) => item'[i] = r
        /\ ~OwnsItem(w) => item'[i] = item[i]
    BY <1>1, <1>4, <1>5, SetReceipt DEF TypeOK
  <1>7. ~doubt => /\ OwnsItem(w) /\ item[i].status = "posting" /\ item[i].claim = w
                  /\ posts[i] = IF s = "posted" THEN 1 ELSE 0
    BY <1>1, <1>2, <1>3, ProjectionAssumption DEF HoldInv, OwnsItem, ItemInv, Unrecorded
  <1>8. posts[i] >= 1 \/ worker[w].pc # "finishItem"
    BY <1>1, <1>2 DEF TodoInv
  <1>9. item'[i].status = "posted" => posts[i] >= 1 /\ item'[i].claim = None
    BY <1>3, <1>4, <1>6, <1>8 DEF ItemInv
  <1>10. ItemInv(i)'
    BY <1>4, <1>6, <1>7, <1>9 DEF ItemInv
  <1>11. HoldInv(w)'
    BY DEF HoldInv
  <1>12. ASSUME i \in Reqs PROVE ControlInv(i)'
    <2>1. CASE s = "posted"
      BY <1>4, <1>6, <1>7, <2>1 DEF ControlInv
    <2>2. CASE s = "failed"
      <3>1. ControlInv(i)
        BY <1>12 DEF IInv
      <3>2. ~doubt => control[i] # "open"
        BY <1>7, <2>2, <3>1 DEF ControlInv, Unrecorded
      <3> QED BY <3>2 DEF ControlInv
    <2> QED BY <2>1, <2>2
  <1>13. /\ \A v \in Workers \ {w} : HoldInv(v)'
         /\ \A j \in Items \ {i} : ItemInv(j)'
         /\ \A q \in Reqs \ {i} : ControlInv(q)'
    BY <1>1, <1>2, <1>6, <1>7, OtherItems
  <1>14. Posted
    <2>1. item[i].status = "posted" => ~OwnsItem(w)
      BY <1>2, <1>3, ProjectionAssumption DEF ItemInv, OwnsItem
    <2>2. \A j \in Items : posts'[j] >= posts[j]
      BY <1>1 DEF TypeOK
    <2> QED BY <1>6, <2>1, <2>2 DEF Posted
  <1> QED BY <1>2, <1>4, <1>6, <1>7, <1>10, <1>11, <1>12, <1>13, <1>14

LEMMA StepFinishItem ==
    ASSUME IInv, NEW w \in Workers, finish_item(w)
    PROVE  IInv'
  <1>1. /\ worker[w].pc = "finishItem" /\ worker[w].pc \in Reading /\ worker[w].pc \in Posting
        /\ UNCHANGED <<task, row, cards, posts, control, shown, notices, preview, overrun, doubt, faults>>
        /\ SetItem(w, "posted")
    BY DEF finish_item, Reading, Posting, slackVars
  <1>2. /\ TypeOK /\ TodoInv(w) /\ LeaseInv(w) /\ TaskInv /\ Len(cards) \in Nat
        /\ worker[w] \in Worker
    BY DEF IInv, TypeOK
  <1>3. PICK i \in Items : i = worker[w].at /\ i \in worker[w].todo
    BY <1>1, <1>2, WantedItems DEF TodoInv
  <1> DEFINE l == [worker[w] EXCEPT !.pc = "items", !.todo = worker[w].todo \ {i}, !.at = 0]
  <1>4. worker' = [worker EXCEPT ![w] = l]
    BY <1>3 DEF finish_item
  <1>5. /\ l \in Worker /\ l.pc = "items" /\ l.view = worker[w].view /\ l.last = worker[w].last
        /\ l.todo = worker[w].todo \ {i} /\ l.card = worker[w].card
    <2>1. worker[w].todo \ {i} \in SUBSET Items
      BY <1>2 DEF Worker
    <2> QED BY <1>2, <2>1 DEF Worker, Pcs
  <1> HIDE DEF l
  <1>6. /\ worker' \in [Workers -> Worker]
        /\ worker'[w].pc = "items" /\ worker'[w].todo = worker[w].todo \ {i}
        /\ worker'[w].view = worker[w].view /\ worker'[w].last = worker[w].last
        /\ worker'[w].card = worker[w].card
        /\ \A v \in Workers \ {w} : worker'[v] = worker[v]
    BY <1>2, <1>4, <1>5, SetWorker
  <1>7. worker'[w].pc \notin Posting /\ worker'[w].pc \in Reading
    BY <1>6 DEF Posting, Reading
  <1>8. /\ item' \in [Items -> Receipt] /\ Posted
        /\ \A v \in Workers : HoldInv(v)'
        /\ \A j \in Items : ItemInv(j)'
        /\ \A q \in Reqs : ControlInv(q)'
        /\ doubt \/ item'[i].status = "posted"
    BY <1>1, <1>3, <1>6, <1>7, GiveBack
  <1>9. TypeOK'
    BY <1>1, <1>2, <1>6, <1>8 DEF TypeOK
  <1>10. TodoInv(w)'
    <2>1. /\ Wanted(w)' = Wanted(w) /\ Wanted(w) \subseteq Items
      BY <1>2, <1>6, WantedItems DEF Wanted
    <2>2. posts[i] >= 1
      BY <1>1, <1>2, <1>3 DEF TodoInv
    <2>3. \A j \in Wanted(w) \ worker[w].todo :
             posts[j] >= 1 /\ (doubt \/ item'[j].status = "posted")
      BY <1>1, <1>2, <1>8, <2>1 DEF TodoInv, Posted
    <2>4. worker'[w].todo \subseteq Wanted(w)
      BY <1>1, <1>2, <1>6 DEF TodoInv
    <2> QED BY <1>1, <1>6, <1>8, <2>1, <2>2, <2>3, <2>4 DEF TodoInv, Ending, Posting
  <1>11. LeaseInv(w)'
    BY <1>1, <1>2, <1>6 DEF LeaseInv, Owns, Busy, Reading, Posting, Ending
  <1>12. CardInv'
    BY <1>1, <1>6, <1>8, CardKept
  <1>13. TaskInv'
    BY <1>1, <1>2 DEF TaskInv
  <1> QED BY <1>1, <1>2, <1>6, <1>7, <1>8, <1>9, <1>10, <1>11, <1>12, <1>13, WorkKeeps

LEMMA StepFailItem ==
    ASSUME IInv, NEW w \in Workers, FailItem(w)
    PROVE  IInv'
  <1>1. /\ worker[w].pc = "failItem" /\ worker[w].pc \in Reading
        /\ UNCHANGED <<task, row, cards, posts, control, shown, notices, preview, overrun, doubt, faults>>
        /\ SetItem(w, "failed") /\ Goto(w, "fallback")
    BY DEF FailItem, Reading, Posting, slackVars
  <1>2. TypeOK /\ TaskInv /\ Len(cards) \in Nat
    BY DEF IInv, TypeOK
  <1>3. /\ worker' \in [Workers -> Worker]
        /\ \A v \in Workers \ {w} : worker'[v] = worker[v]
        /\ worker'[w].pc = "fallback" /\ worker'[w].view = worker[w].view
        /\ worker'[w].last = worker[w].last /\ worker'[w].card = worker[w].card
        /\ worker'[w].todo = worker[w].todo
    BY <1>1, <1>2, GotoWorker DEF Pcs
  <1>4. worker'[w].pc \notin Posting
    BY <1>3 DEF Posting
  <1>5. /\ item' \in [Items -> Receipt] /\ Posted
        /\ \A v \in Workers : HoldInv(v)'
        /\ \A j \in Items : ItemInv(j)'
        /\ \A q \in Reqs : ControlInv(q)'
    BY <1>1, <1>3, <1>4, GiveBack
  <1>6. TypeOK'
    BY <1>1, <1>2, <1>3, <1>5 DEF TypeOK
  <1>7. TodoInv(w)' /\ LeaseInv(w)'
    BY <1>1, <1>2, <1>3, <1>5, <1>6, GoOn
  <1>8. CardInv'
    BY <1>1, <1>3, <1>5, CardKept
  <1>9. TaskInv'
    BY <1>1, <1>2 DEF TaskInv
  <1> QED BY <1>1, <1>2, <1>3, <1>5, <1>6, <1>7, <1>8, <1>9, WorkKeeps

----
\* The last steps of a projector

\* A projector that raises on its way leaves everything else as it is.
LEMMA GiveUp ==
    ASSUME IInv, NEW w \in Workers, worker[w].pc \in {"items", "stop", "status"},
           UNCHANGED <<task, notices, preview, overrun, doubt, row, item, posts, control, shown>>,
           faults' = faults \/ Fault, Goto(w, "fallback"),
           cards' \in Seq({"working", "draft", "stopped"}), Len(cards') = Len(cards)
    PROVE  IInv'
  <1>1. TypeOK /\ Len(cards) \in Nat /\ worker[w].pc \in Reading \ Posting
    BY DEF IInv, TypeOK, Reading, Posting, Ending
  <1>2. /\ worker' \in [Workers -> Worker]
        /\ \A v \in Workers \ {w} : worker'[v] = worker[v]
        /\ worker'[w].pc = "fallback" /\ worker'[w].view = worker[w].view
        /\ worker'[w].last = worker[w].last /\ worker'[w].card = worker[w].card
        /\ worker'[w].todo = worker[w].todo
    BY <1>1, GotoWorker DEF Pcs
  <1>3. faults' \in 0..MaxFaults
    BY <1>1, ProjectionAssumption DEF TypeOK, Fault
  <1>4. TypeOK'
    BY <1>1, <1>2, <1>3 DEF TypeOK
  <1>5. Posted
    BY <1>1 DEF Posted, TypeOK
  <1>6. TodoInv(w)' /\ LeaseInv(w)'
    BY <1>1, <1>2, <1>4, <1>5, GoOn
  <1>7. CardInv'
    BY <1>2, <1>5, CardKept
  <1> QED BY <1>1, <1>2, <1>4, <1>6, <1>7, MoveKeeps

LEMMA StepClose ==
    ASSUME IInv, NEW w \in Workers, close_human_input(w)
    PROVE  IInv'
  <1>1. /\ worker[w].pc = "items" /\ worker[w].pc \in Reading \ Posting /\ worker[w].todo = {}
        /\ UNCHANGED <<task, row, cards, posts, shown, notices, preview, overrun, doubt>>
    BY DEF close_human_input, Reading, Posting
  <1>2. /\ TypeOK /\ TodoInv(w) /\ LeaseInv(w) /\ HoldInv(w) /\ TaskInv /\ Len(cards) \in Nat
        /\ cards \in Seq({"working", "draft", "stopped"})
    BY DEF IInv, TypeOK
  <1>3. ASSUME NEW q \in Stale(w), control' = [control EXCEPT ![q] = "closed"],
               item' = [item EXCEPT ![q] = [item[q] EXCEPT !.ts = FALSE]],
               UNCHANGED <<worker, faults>>
        PROVE  IInv'
    <2>1. q \in Reqs /\ q \in Items /\ item[q].status = "posted" /\ item[q] \in Receipt /\ ItemInv(q)
      BY <1>2, ItemSets DEF Stale, TypeOK, IInv
    <2> DEFINE r == [item[q] EXCEPT !.ts = FALSE]
    <2>2. r \in Receipt /\ r.status = "posted" /\ r.claim = item[q].claim
      BY <2>1 DEF Receipt
    <2>3. item' = [item EXCEPT ![q] = r]
      BY <1>3
    <2> HIDE DEF r
    <2>4. /\ item' \in [Items -> Receipt] /\ item'[q].status = "posted"
          /\ item'[q].claim = item[q].claim
          /\ \A j \in Items \ {q} : item'[j] = item[j]
      BY <1>2, <2>1, <2>2, <2>3, SetReceipt
    <2>5. /\ control' \in [Reqs -> {"none", "open", "closed"}] /\ control'[q] = "closed"
          /\ \A p \in Reqs \ {q} : control'[p] = control[p]
      BY <1>2, <1>3, <2>1 DEF TypeOK
    <2>6. TypeOK'
      BY <1>1, <1>2, <1>3, <2>4, <2>5 DEF TypeOK
    <2>7. Posted
      BY <1>1, <1>2, <2>4 DEF Posted, TypeOK
    <2>8. TodoInv(w)' /\ LeaseInv(w)'
      BY <1>1, <1>2, <1>3, <2>6, <2>7, GoOn
    <2>9. CardInv'
      BY <1>1, <1>3, <2>7, CardKept
    <2>10. /\ \A v \in Workers \ {w} : HoldInv(v)'
           /\ \A j \in Items \ {q} : ItemInv(j)'
           /\ \A p \in Reqs \ {q} : ControlInv(p)'
      BY <1>1, <1>3, <2>1, <2>4, <2>5, OtherItems
    <2>11. HoldInv(w)' /\ ControlInv(q)'
      BY <1>1, <1>3, <2>5 DEF HoldInv, ControlInv
    <2>12. ItemInv(q)'
      BY <1>1, <2>1, <2>4 DEF ItemInv
    <2>13. TaskInv'
      BY <1>1, <1>2 DEF TaskInv
    <2>14. /\ \A v \in Workers : HoldInv(v)'
           /\ \A j \in Items : ItemInv(j)'
           /\ \A p \in Reqs : ControlInv(p)'
      BY <2>10, <2>11, <2>12
    <2> QED BY <1>1, <1>2, <1>3, <2>6, <2>7, <2>8, <2>9, <2>13, <2>14, WorkKeeps
  <1>4. CASE Stale(w) = {} /\ Goto(w, "stop") /\ UNCHANGED <<control, item, faults>>
    <2>1. /\ worker' \in [Workers -> Worker]
          /\ \A v \in Workers \ {w} : worker'[v] = worker[v]
          /\ worker'[w].pc = "stop" /\ worker'[w].view = worker[w].view
          /\ worker'[w].last = worker[w].last /\ worker'[w].card = worker[w].card
          /\ worker'[w].todo = worker[w].todo
      BY <1>2, <1>4, GotoWorker DEF Pcs
    <2>2. TypeOK'
      BY <1>1, <1>2, <1>4, <2>1 DEF TypeOK
    <2>3. Posted
      BY <1>1, <1>2, <1>4 DEF Posted, TypeOK
    <2>4. TodoInv(w)'
      BY <1>1, <1>2, <1>4, <2>1 DEF TodoInv, Wanted, Posting
    <2>5. ASSUME ~overrun, ~doubt, NEW q \in Reqs, control[q] = "open"
          PROVE  q \in worker[w].view.pending
      <3>1. ControlInv(q)
        BY DEF IInv
      <3>2. ~Unrecorded(q)
        BY <1>1, <2>5, Alone DEF Unrecorded, Busy, Reading, Posting
      <3>3. item[q].status = "posted" /\ item[q].ts
        BY <2>5, <3>1, <3>2 DEF ControlInv
      <3> QED BY <1>4, <3>3 DEF Stale
    <2>6. LeaseInv(w)'
      BY <1>1, <1>2, <1>4, <2>1, <2>5 DEF LeaseInv, Owns, Busy, Reading, Ending
    <2>7. CardInv'
      BY <1>1, <2>1, <2>3, CardKept
    <2>8. worker'[w].pc \in Reading \ Posting
      BY <2>1 DEF Reading, Posting, Ending
    <2> QED BY <1>1, <1>2, <1>4, <2>1, <2>2, <2>4, <2>6, <2>7, <2>8, MoveKeeps
  <1>5. CASE Fault /\ Goto(w, "fallback") /\ UNCHANGED <<control, item>>
    BY <1>1, <1>2, <1>5, GiveUp
  <1> QED BY <1>3, <1>4, <1>5 DEF close_human_input

LEMMA StepStopStream ==
    ASSUME IInv, NEW w \in Workers, stop_stream(w)
    PROVE  IInv'
  <1>1. /\ worker[w].pc = "stop" /\ worker[w].pc \in Reading \ Posting
        /\ UNCHANGED <<task, row, item, posts, control, shown, notices, preview, overrun, doubt>>
    BY DEF stop_stream, Reading, Posting, Ending
  <1>2. TypeOK /\ TodoInv(w) /\ LeaseInv(w) /\ Len(cards) \in Nat
    BY DEF IInv, TypeOK
  <1>3. /\ cards' = cards \/ cards' = [cards EXCEPT ![worker[w].card] = "stopped"]
        /\ \/ Goto(w, "status") /\ faults' = faults
           \/ Goto(w, "fallback") /\ Fault
    BY DEF stop_stream
  <1>4. cards' \in Seq({"working", "draft", "stopped"}) /\ Len(cards') = Len(cards)
    BY <1>2, <1>3, SetCard DEF TypeOK
  <1>5. CASE Goto(w, "status") /\ faults' = faults
    <2>1. /\ worker' \in [Workers -> Worker]
          /\ \A v \in Workers \ {w} : worker'[v] = worker[v]
          /\ worker'[w].pc = "status" /\ worker'[w].view = worker[w].view
          /\ worker'[w].last = worker[w].last /\ worker'[w].card = worker[w].card
          /\ worker'[w].todo = worker[w].todo
      BY <1>2, <1>5, GotoWorker DEF Pcs
    <2>2. TypeOK'
      BY <1>1, <1>2, <1>4, <1>5, <2>1 DEF TypeOK
    <2>3. Posted
      BY <1>1, <1>2 DEF Posted, TypeOK
    <2>4. TodoInv(w)'
      BY <1>1, <1>2, <2>1 DEF TodoInv, Wanted, Posting, Ending
    <2>5. LeaseInv(w)'
      BY <1>1, <1>2, <1>4, <2>1 DEF LeaseInv, Owns, Busy, Reading, Ending
    <2>6. CardInv'
      BY <1>1, <1>4, <2>1, <2>3, CardKept
    <2>7. worker'[w].pc \in Reading \ Posting
      BY <2>1 DEF Reading, Posting, Ending
    <2> QED BY <1>1, <1>2, <1>4, <2>1, <2>2, <2>4, <2>5, <2>6, <2>7, MoveKeeps
  <1>6. CASE Goto(w, "fallback") /\ Fault
    BY <1>1, <1>4, <1>6, GiveUp
  <1> QED BY <1>3, <1>5, <1>6

LEMMA StepMark ==
    ASSUME IInv, NEW w \in Workers, mark_projection(w)
    PROVE  IInv'
  <1>1. /\ worker[w].pc = "status" /\ worker[w].pc \in Reading \ Posting
        /\ UNCHANGED <<task, item, cards, posts, control, notices, preview, overrun, doubt>>
    BY DEF mark_projection, Reading, Posting, Ending
  <1>2. /\ TypeOK /\ TodoInv(w) /\ LeaseInv(w) /\ TaskInv /\ ViewInv(w) /\ Len(cards) \in Nat
        /\ cards \in Seq({"working", "draft", "stopped"})
    BY DEF IInv, TypeOK
  <1>3. /\ worker[w].view \in TaskView /\ row \in Row /\ row.card <= Len(cards)
        /\ worker[w].view.state \in States /\ worker[w].view.version \in Nat
    BY <1>2 DEF TypeOK, Worker, TaskView
  <1>4. PICK s \in States, n \in Nat : s = worker[w].view.state /\ n = worker[w].view.version
    BY <1>3
  <1>5. n <= task.version /\ (s = "COMPLETED" => task.state = "COMPLETED")
    BY <1>1, <1>2, <1>4 DEF ViewInv
  <1>6. CASE /\ shown' = n
             /\ row' = IF RowFree
                       THEN [row EXCEPT !.last = s,
                                 !.status = IF is_settled(s) THEN "completed" ELSE "pending",
                                 !.card = IF is_settled(s) THEN 0 ELSE row.card]
                       ELSE row
             /\ Goto(w, "finish") /\ UNCHANGED faults
    <2>1. /\ worker' \in [Workers -> Worker]
          /\ \A v \in Workers \ {w} : worker'[v] = worker[v]
          /\ worker'[w].pc = "finish" /\ worker'[w].view = worker[w].view
          /\ worker'[w].last = worker[w].last /\ worker'[w].card = worker[w].card
          /\ worker'[w].todo = worker[w].todo
      BY <1>2, <1>6, GotoWorker DEF Pcs
    <2>2. row' \in Row /\ row'.claim = row.claim /\ row'.last \in {row.last, s}
          /\ row'.card \in {0, row.card}
      BY <1>3, <1>6 DEF Row
    <2>3. ~overrun => row' = row
      <3>1. ~overrun => ~RowFree
        BY <1>1, Alone DEF RowFree, Busy
      <3> QED BY <1>6, <3>1
    <2>4. row'.card <= Len(cards)
      BY <1>2, <1>3, <2>2
    <2>5. TypeOK'
      BY <1>1, <1>2, <1>6, <2>1, <2>2, <2>4 DEF TypeOK
    <2>6. Posted /\ SamePosting
      BY <1>1, <1>2, <2>1 DEF Posted, TypeOK, SamePosting, Posting
    <2>7. TodoInv(w)'
      BY <1>1, <1>2, <2>1 DEF TodoInv, Wanted, Posting, Ending
    <2>8. LeaseInv(w)'
      <3>1. /\ worker[w].pc \in Busy /\ worker'[w].pc \in Busy /\ worker[w].pc \in Ending
            /\ worker'[w].pc \in Reading
        BY <1>1, <2>1 DEF Busy, Reading, Ending
      <3>2. worker'[w].card <= Len(cards') /\ shown' <= worker'[w].view.version
        BY <1>1, <1>2, <1>4, <1>6, <2>1 DEF LeaseInv
      <3>3. shown' = worker'[w].view.version /\ worker'[w].pc = "finish"
        BY <1>4, <1>6, <2>1
      <3>4. CASE overrun
        BY <1>1, <3>1, <3>2, <3>4 DEF LeaseInv
      <3>5. CASE ~overrun
        BY <1>1, <1>2, <2>1, <2>3, <3>1, <3>2, <3>3, <3>5 DEF LeaseInv, Owns
      <3> QED BY <3>4, <3>5
    <2>9. CardInv'
      <3>1. CASE overrun
        BY <1>1, <3>1 DEF CardInv
      <3>2. CASE ~overrun
        BY <1>1, <2>1, <2>3, <2>6, <3>2, CardKept
      <3> QED BY <3>1, <3>2
    <2>10. /\ \A v \in Workers : HoldInv(v)'
           /\ \A i \in Items : ItemInv(i)'
           /\ \A q \in Reqs : ControlInv(q)'
      BY <1>1, <2>6, ItemsKept
    <2>11. TaskInv'
      BY <1>1, <1>2, <1>5, <1>6, <2>2 DEF TaskInv
    <2>12. worker'[w].pc \in Reading
      BY <2>1 DEF Reading, Ending
    <2>13. row.card = 0 /\ ~Owns(w) => row'.card = 0
      BY <2>2
    <2> QED BY <1>1, <1>2, <2>1, <2>2, <2>5, <2>6, <2>7, <2>8, <2>9, <2>10, <2>11, <2>12, <2>13, WorkKeeps
  <1>7. CASE Fault /\ Goto(w, "fallback") /\ UNCHANGED <<shown, row>>
    BY <1>1, <1>2, <1>7, GiveUp
  <1> QED BY <1>4, <1>6, <1>7 DEF mark_projection

\* A projector that is idle has nothing to keep.
LEMMA IdleInv ==
    ASSUME TypeOK', NEW w \in Workers, worker'[w] = IdleWorker, row'.claim # w
    PROVE  ViewInv(w)' /\ TodoInv(w)' /\ HoldInv(w)' /\ LeaseInv(w)'
  <1>1. /\ worker'[w].pc = "idle" /\ worker'[w].view = NoView /\ worker'[w].last = "NULL"
        /\ worker'[w].card = 0
    BY DEF IdleWorker
  <1>2. ViewInv(w)'
    BY <1>1 DEF ViewInv, Reading, Posting, Ending
  <1>3. TodoInv(w)' /\ HoldInv(w)'
    BY <1>1 DEF TodoInv, HoldInv, Reading, Posting, Ending
  <1>4. 0 <= Len(cards')
    <2>1. Len(cards') \in Nat
      BY DEF TypeOK
    <2> QED BY <2>1
  <1>5. LeaseInv(w)'
    BY <1>1, <1>4 DEF LeaseInv, Owns, Busy, Reading, Posting, Ending
  <1> QED BY <1>2, <1>3, <1>5

\* The shape of a step with which a projector ends.
LEMMA LeaveKeeps ==
    ASSUME IInv, TypeOK', TaskInv', NEW w \in Workers, worker[w].pc \in Busy,
           worker'[w] = IdleWorker, \A v \in Workers \ {w} : worker'[v] = worker[v],
           UNCHANGED <<task, cards, posts, control, shown, preview, overrun>>,
           Posted, row'.claim \in {row.claim, None, Gone}, row'.claim # w,
           \A v \in Workers \ {w} : HoldInv(v)',
           \A i \in Items : ItemInv(i)',
           \A q \in Reqs : ControlInv(q)',
           CardInv', EndInv'
    PROVE  IInv'
  <1>1. TypeOK /\ Len(cards) \in Nat /\ \A v \in Workers : ViewInv(v) /\ TodoInv(v)
    BY DEF IInv, TypeOK
  <1>2. /\ \A v \in Workers \ {w} : LeaseInv(v)'
        /\ \A v \in Previews : PreviewInv(v)'
    BY <1>1, OthersKept
  <1>3. \A v \in Workers \ {w} : ViewInv(v)' /\ TodoInv(v)'
    BY <1>1, ViewKept, TodoKept
  <1>4. ViewInv(w)' /\ TodoInv(w)' /\ HoldInv(w)' /\ LeaseInv(w)'
    BY IdleInv
  <1> QED BY <1>2, <1>3, <1>4 DEF IInv

\* A card that is forgotten is not started again: the task has finished, or a human was asked.
LEMMA CardForgotten ==
    ASSUME IInv, NEW w \in Workers, worker[w].pc = "finish", ~overrun, ~doubt,
           UNCHANGED <<cards, item>>,
           row'.last = worker[w].view.state,
           is_settled(worker[w].view.state) \/ row'.card = row.card
    PROVE  CardInv'
  <1>1. /\ CardInv /\ ViewInv(w) /\ LeaseInv(w) /\ TodoInv(w) /\ TypeOK
        /\ worker[w].pc \in Busy /\ worker[w].pc \in Reading /\ worker[w].pc \in Ending
    BY DEF IInv, Busy, Reading, Ending
  <1>2. worker[w].last = row.last /\ worker[w].view # NoView
    BY <1>1 DEF LeaseInv, ViewInv
  <1>3. row.last = "COMPLETED" => row'.last = "COMPLETED"
    BY <1>1, <1>2 DEF ViewInv
  <1>4. \A v \in Workers : worker[v].pc # "record"
    BY <1>1, Alone DEF Busy, Reading
  <1>5. has_human_input_receipt' <=> has_human_input_receipt
    BY DEF has_human_input_receipt
  <1>6. worker[w].view.state = "INPUT_REQUIRED" => has_human_input_receipt
    <2> SUFFICES ASSUME worker[w].view.state = "INPUT_REQUIRED" PROVE has_human_input_receipt
      OBVIOUS
    <2>1. PICK q \in worker[w].view.pending : TRUE
      BY <1>1, <1>2 DEF ViewInv
    <2>2. q \in Reqs /\ q \in Wanted(w)
      BY <1>1, WantedItems DEF Wanted
    <2>3. item[q].status = "posted"
      BY <1>1, <2>2 DEF TodoInv
    <2> QED BY <2>2, <2>3 DEF has_human_input_receipt
  <1>7. worker[w].view.state \in States
    BY <1>1 DEF TypeOK, Worker, TaskView
  <1>8. row'.card = row.card \/ row'.last = "COMPLETED" \/ has_human_input_receipt
    BY <1>6, <1>7 DEF is_settled, States
  <1> QED BY <1>1, <1>3, <1>4, <1>5, <1>8 DEF CardInv

LEMMA StepFinish ==
    ASSUME IInv, NEW w \in Workers, finish_stream(w)
    PROVE  IInv'
  <1>1. /\ worker[w].pc = "finish" /\ worker[w].pc \in Busy /\ worker[w].pc \in Reading
        /\ worker[w].pc \in Ending /\ worker[w].pc \notin Posting
        /\ UNCHANGED <<task, item, cards, posts, control, shown, preview, overrun, doubt, faults, notices>>
        /\ worker' = [worker EXCEPT ![w] = IdleWorker]
    BY DEF finish_stream, Return, Busy, Reading, Posting, Ending, slackVars
  <1>2. /\ TypeOK /\ TaskInv /\ ViewInv(w) /\ TodoInv(w) /\ LeaseInv(w) /\ EndInv /\ row \in Row
        /\ worker[w].view \in TaskView /\ Len(cards) \in Nat /\ row.card <= Len(cards)
    BY DEF IInv, TypeOK, Worker
  <1>3. PICK s \in States : s = worker[w].view.state
    BY <1>2 DEF TaskView
  <1>4. /\ Owns(w) => row' = [row EXCEPT !.last = s, !.claim = None, !.live = FALSE,
                                  !.status = IF is_settled(s) THEN "completed" ELSE "pending",
                                  !.card = IF is_settled(s) THEN 0 ELSE row.card]
        /\ ~Owns(w) => row' = row
    BY <1>3 DEF finish_stream
  <1>5. /\ row' \in Row
        /\ Owns(w) => /\ row'.last = s /\ row'.claim = None
                      /\ row'.card = IF is_settled(s) THEN 0 ELSE row.card
    <2>1. row \in Row /\ row.card \in Nat
      BY <1>2 DEF Row
    <2>2. CASE ~Owns(w)
      BY <1>4, <2>1, <2>2
    <2>3. CASE Owns(w)
      <3>1. PICK c \in Nat : c = IF is_settled(s) THEN 0 ELSE row.card
        BY <2>1
      <3>2. PICK x \in {"completed", "pending"} :
              x = IF is_settled(s) THEN "completed" ELSE "pending"
        OBVIOUS
      <3>3. row' = [row EXCEPT !.last = s, !.claim = None, !.live = FALSE,
                        !.status = x, !.card = c]
        BY <1>4, <2>3, <3>1, <3>2
      <3>4. row' \in Row /\ row'.last = s /\ row'.claim = None /\ row'.card = c
        BY <2>1, <3>3 DEF Row, Claims
      <3> QED BY <3>1, <3>4
    <2> QED BY <2>2, <2>3
  <1>6. /\ worker' \in [Workers -> Worker] /\ worker'[w] = IdleWorker
        /\ \A v \in Workers \ {w} : worker'[v] = worker[v]
    BY <1>1, <1>2, IdleAgain
  <1>7. row'.card <= Len(cards)
    BY <1>2, <1>4, <1>5
  <1>8. TypeOK'
    BY <1>1, <1>2, <1>5, <1>6, <1>7 DEF TypeOK
  <1>9. worker[w].view # NoView
    BY <1>1, <1>2 DEF ViewInv
  <1>10. TaskInv'
    BY <1>1, <1>2, <1>3, <1>4, <1>5, <1>9 DEF TaskInv, ViewInv
  <1>11. Posted /\ SamePosting
    BY <1>1, <1>2, <1>6, IdleIs DEF Posted, TypeOK, SamePosting, Posting
  <1>12. /\ \A v \in Workers : HoldInv(v)'
         /\ \A i \in Items : ItemInv(i)'
         /\ \A q \in Reqs : ControlInv(q)'
    BY <1>1, <1>11, ItemsKept
  <1>13. row'.claim \in {row.claim, None, Gone} /\ row'.claim # w
    BY <1>4, <1>5, ProjectionAssumption DEF Owns
  <1>14. CardInv'
    <2>1. CASE overrun \/ doubt
      BY <1>1, <2>1 DEF CardInv
    <2>2. CASE ~overrun /\ ~doubt
      <3>1. Owns(w)
        BY <1>1, <1>2, <2>2 DEF LeaseInv
      <3> QED BY <1>1, <1>3, <1>5, <2>2, <3>1, CardForgotten
    <2> QED BY <2>1, <2>2
  <1>15. EndInv'
    <2> SUFFICES ASSUME task.state = "COMPLETED", ~notices
                 PROVE  \/ Retries'
                        \/ \E v \in Workers : Owns(v)' /\ Final(v)'
                        \/ AllShown' /\ \A v \in Workers : ~Owns(v)'
      BY <1>1 DEF EndInv
    <2>1. \/ Retries
          \/ \E v \in Workers : Owns(v) /\ Final(v)
          \/ AllShown /\ \A v \in Workers : ~Owns(v)
      BY <1>2 DEF EndInv
    <2>2. CASE Retries
      BY <1>1, <1>6, <2>2 DEF Retries
    <2>3. ASSUME NEW v \in Workers, v # w, Owns(v), Final(v)
          PROVE  Owns(v)' /\ Final(v)'
      BY <1>4, <1>6, <2>3 DEF Owns, Final
    <2>4. CASE Owns(w) /\ Final(w)
      <3>1. s = "COMPLETED" /\ worker[w].view = task
        BY <1>1, <1>2, <1>3, <1>9, <2>4 DEF Final, ViewInv
      <3>2. \A i \in 1..task.said : posts[i] >= 1
        BY <1>1, <1>2, <3>1 DEF TodoInv, Wanted
      <3>3. row'.card = 0
        BY <1>5, <2>4, <3>1 DEF is_settled, Working
      <3>4. overrun \/ shown = task.version
        BY <1>1, <1>2, <3>1 DEF LeaseInv
      <3>5. overrun \/ doubt \/ \A q \in Reqs : control[q] # "open"
        BY <1>1, <1>2, <3>1 DEF LeaseInv, TaskInv
      <3>6. AllShown'
        BY <1>1, <3>2, <3>3, <3>4, <3>5 DEF AllShown
      <3>7. \A v \in Workers : ~Owns(v)'
        BY <1>5, <2>4, ProjectionAssumption DEF Owns
      <3> QED BY <3>6, <3>7
    <2>5. CASE AllShown /\ \A v \in Workers : ~Owns(v)
      <3>1. row' = row
        BY <1>4, <2>5
      <3> QED BY <1>1, <2>5, <3>1 DEF AllShown, Owns
    <2> QED BY <2>1, <2>2, <2>3, <2>4, <2>5
  <1> QED BY <1>1, <1>6, <1>8, <1>10, <1>11, <1>12, <1>13, <1>14, <1>15, LeaveKeeps

LEMMA StepFallback ==
    ASSUME IInv, NEW w \in Workers, FinishFallback(w)
    PROVE  IInv'
  <1>1. /\ worker[w].pc = "fallback" /\ worker[w].pc \in Busy /\ worker[w].pc \notin Posting
        /\ UNCHANGED <<task, item, cards, posts, control, shown, preview, overrun, doubt, faults>>
        /\ worker' = [worker EXCEPT ![w] = IdleWorker] /\ notices' = TRUE
    BY DEF FinishFallback, Raise, Busy, Reading, Posting, Ending, slackVars
  <1>2. /\ TypeOK /\ TaskInv /\ ViewInv(w) /\ LeaseInv(w) /\ CardInv /\ row \in Row
        /\ worker[w].view \in TaskView /\ worker[w].last \in States \cup {"NULL"}
        /\ Len(cards) \in Nat /\ row.card <= Len(cards)
    BY DEF IInv, TypeOK, Worker
  <1>3. PICK s \in States \cup {"NULL"} :
          s = IF worker[w].view = NoView THEN worker[w].last ELSE worker[w].view.state
    BY <1>2 DEF TaskView
  <1>4. /\ Owns(w) => row' = [row EXCEPT !.status = "fallback", !.claim = None, !.live = FALSE,
                                  !.last = s]
        /\ ~Owns(w) => row' = row
    BY <1>3 DEF FinishFallback
  <1>5. /\ row' \in Row /\ row'.card = row.card
        /\ Owns(w) => row'.last = s /\ row'.claim = None
    BY <1>2, <1>4 DEF Row, Claims
  <1>6. /\ worker' \in [Workers -> Worker] /\ worker'[w] = IdleWorker
        /\ \A v \in Workers \ {w} : worker'[v] = worker[v]
    BY <1>1, <1>2, IdleAgain
  <1>7. TypeOK'
    BY <1>1, <1>2, <1>5, <1>6 DEF TypeOK
  <1>8. TaskInv'
    <2>1. s = "COMPLETED" => task.state = "COMPLETED"
      BY <1>2, <1>3 DEF ViewInv
    <2> QED BY <1>1, <1>2, <1>4, <1>5, <2>1 DEF TaskInv
  <1>9. Posted /\ SamePosting
    BY <1>1, <1>2, <1>6, IdleIs DEF Posted, TypeOK, SamePosting, Posting
  <1>10. /\ \A v \in Workers : HoldInv(v)'
         /\ \A i \in Items : ItemInv(i)'
         /\ \A q \in Reqs : ControlInv(q)'
    BY <1>1, <1>9, ItemsKept
  <1>11. row'.claim \in {row.claim, None, Gone} /\ row'.claim # w
    BY <1>4, <1>5, ProjectionAssumption DEF Owns
  <1>12. CardInv'
    <2> SUFFICES ASSUME ~overrun, ~doubt PROVE CardInv'
      BY <1>1 DEF CardInv
    <2>1. worker[w].last = row.last
      BY <1>1, <1>2 DEF LeaseInv
    <2>2. row.last = "COMPLETED" => row'.last = "COMPLETED"
      BY <1>2, <1>3, <1>4, <1>5, <2>1 DEF ViewInv
    <2>3. \A v \in Workers : worker[v].pc # "record"
      BY <1>1, Alone DEF Busy, Reading
    <2>4. has_human_input_receipt' <=> has_human_input_receipt
      BY <1>1 DEF has_human_input_receipt
    <2> QED BY <1>1, <1>2, <1>5, <2>2, <2>3, <2>4 DEF CardInv
  <1>13. EndInv'
    BY <1>1 DEF EndInv
  <1> QED BY <1>1, <1>6, <1>7, <1>8, <1>9, <1>10, <1>11, <1>12, <1>13, LeaveKeeps

----
\* Projectors that do not hold the row

\* The items of a projector that dies are free once its lease ran out.
LEMMA ItemsLeft ==
    ASSUME IInv, TypeOK', NEW w \in Workers,
           \A v \in Workers \ {w} : worker'[v] = worker[v],
           item' = [i \in Items |-> IF item[i].claim = w THEN [item[i] EXCEPT !.claim = Gone]
                                    ELSE item[i]],
           UNCHANGED <<posts, control>>, doubt => doubt',
           worker[w].pc = "finishItem" => doubt'
    PROVE  /\ Posted
           /\ \A v \in Workers \ {w} : HoldInv(v)'
           /\ \A i \in Items : ItemInv(i)'
           /\ \A q \in Reqs : ControlInv(q)'
  <1>1. ASSUME NEW i \in Items
        PROVE  /\ item'[i].status = item[i].status /\ item'[i].ts = item[i].ts
               /\ item[i].claim = w => item'[i].claim = Gone
               /\ item[i].claim # w => item'[i] = item[i]
    <2>1. item[i] \in Receipt
      BY DEF IInv, TypeOK
    <2>2. item'[i] = IF item[i].claim = w THEN [item[i] EXCEPT !.claim = Gone] ELSE item[i]
      OBVIOUS
    <2> QED BY <2>1, <2>2 DEF Receipt
  <1>2. Posted
    BY <1>1 DEF Posted, IInv, TypeOK
  <1>3. ASSUME NEW v \in Workers \ {w} PROVE HoldInv(v)'
    <2>1. HoldInv(v) /\ TodoInv(v) /\ TypeOK
      BY DEF IInv
    <2>2. worker[v].pc \in Posting => worker[v].at \in Items
      BY <2>1, WantedItems DEF TodoInv, Reading
    <2> QED BY <1>1, <2>1, <2>2 DEF HoldInv
  <1>4. ASSUME NEW i \in Items PROVE ItemInv(i)'
    <2>1. ItemInv(i)
      BY DEF IInv
    <2>2. w # None /\ w # Gone /\ None # Gone /\ Gone \notin Workers /\ None \notin Workers
      BY ProjectionAssumption
    <2>3. CASE item[i].claim = w
      BY <1>1, <2>1, <2>2, <2>3 DEF ItemInv, Unrecorded
    <2>4. CASE item[i].claim # w
      BY <1>1, <2>1, <2>4 DEF ItemInv, Unrecorded
    <2> QED BY <2>3, <2>4
  <1>5. ASSUME NEW q \in Reqs PROVE ControlInv(q)'
    <2>1. ControlInv(q) /\ q \in Items
      BY ItemSets DEF IInv
    <2>2. ~doubt' /\ Unrecorded(q) => Unrecorded(q)'
      BY <1>1, <2>1 DEF Unrecorded
    <2> QED BY <1>1, <2>1, <2>2 DEF ControlInv
  <1> QED BY <1>2, <1>3, <1>4, <1>5

\* The shape of a step of a projector that has not claimed the row.
LEMMA AsideKeeps ==
    ASSUME IInv, TypeOK', NEW w \in Workers, worker[w].pc \notin Busy,
           worker'[w].pc \in {"idle", "claim"}, worker'[w].view = NoView,
           worker'[w].last \in {worker[w].last, "NULL"},
           worker'[w].card \in {worker[w].card, 0},
           \A v \in Workers \ {w} : worker'[v] = worker[v],
           UNCHANGED <<task, row, cards, posts, control, shown, preview, overrun>>, Posted,
           \A v \in Workers \ {w} : HoldInv(v)',
           \A i \in Items : ItemInv(i)',
           \A q \in Reqs : ControlInv(q)',
           EndInv'
    PROVE  IInv'
  <1>1. /\ TypeOK /\ TaskInv /\ CardInv /\ Len(cards) \in Nat
        /\ \A v \in Workers : ViewInv(v) /\ TodoInv(v) /\ LeaseInv(v)
        /\ \A v \in Previews : PreviewInv(v)
    BY DEF IInv, TypeOK
  <1>2. ASSUME NEW v \in Workers \ {w}
        PROVE  ViewInv(v)' /\ TodoInv(v)' /\ LeaseInv(v)'
    <2>1. LeaseInv(v)'
      <3>1. ~doubt' => ~doubt
        BY DEF Posted
      <3> QED BY <1>1, <3>1 DEF LeaseInv, Owns
    <2> QED BY <1>1, <2>1, ViewKept, TodoKept
  <1>3. worker'[w].pc \notin Busy \cup Reading \cup Posting
    BY DEF Busy, Reading, Posting, Ending
  <1>4. ViewInv(w)' /\ TodoInv(w)' /\ HoldInv(w)'
    BY <1>1, <1>3 DEF ViewInv, TodoInv, HoldInv
  <1>5. LeaseInv(w)'
    BY <1>1, <1>3 DEF LeaseInv, Owns
  <1>6. TaskInv' /\ \A v \in Previews : PreviewInv(v)'
    BY <1>1 DEF TaskInv, PreviewInv, Owns
  <1>7. \A v \in Workers : worker[v].pc = "record" => worker'[v].pc = "record"
    BY DEF Busy, Reading
  <1>8. CardInv'
    BY <1>7, CardKept
  <1> QED BY <1>2, <1>4, <1>5, <1>6, <1>8 DEF IInv

LEMMA StepCrash ==
    ASSUME IInv, NEW w \in Workers, Crash(w)
    PROVE  IInv'
  <1>1. /\ worker[w].pc # "idle" /\ Fault
        /\ doubt' = (doubt \/ worker[w].pc \in {"record", "finishItem"})
        /\ row' = IF Owns(w) THEN [row EXCEPT !.claim = Gone] ELSE row
        /\ worker' = [worker EXCEPT ![w] = IdleWorker] /\ notices' = TRUE
        /\ item' = [i \in Items |-> IF item[i].claim = w THEN [item[i] EXCEPT !.claim = Gone]
                                    ELSE item[i]]
        /\ UNCHANGED <<task, cards, posts, control, shown, preview, overrun>>
    BY DEF Crash, Raise, slackVars
  <1>2. TypeOK /\ TaskInv /\ CardInv /\ LeaseInv(w) /\ row \in Row /\ row.card <= Len(cards)
    BY DEF IInv, TypeOK
  <1>3. /\ row' \in Row /\ row'.card = row.card /\ row'.last = row.last
        /\ row'.claim \in {row.claim, None, Gone} /\ row'.claim # w
    BY <1>1, <1>2, ProjectionAssumption DEF Row, Claims, Owns
  <1>4. /\ worker' \in [Workers -> Worker] /\ worker'[w] = IdleWorker
        /\ \A v \in Workers \ {w} : worker'[v] = worker[v]
    BY <1>1, <1>2, IdleAgain
  <1>5. item' \in [Items -> Receipt]
    <2>1. item \in [Items -> Receipt]
      BY <1>2 DEF TypeOK
    <2>2. \A i \in Items : [item[i] EXCEPT !.claim = Gone] \in Receipt
      BY <2>1 DEF Receipt, Claims
    <2> QED BY <1>1, <2>1, <2>2
  <1>6. doubt' \in BOOLEAN /\ faults' \in 0..MaxFaults
    <2>1. faults' \in 0..MaxFaults
      BY <1>1, <1>2, ProjectionAssumption DEF TypeOK, Fault
    <2>2. doubt' \in BOOLEAN
      BY <1>1
    <2> QED BY <2>1, <2>2
  <1>7. TypeOK'
    BY <1>1, <1>2, <1>3, <1>4, <1>5, <1>6 DEF TypeOK
  <1>8. (doubt => doubt') /\ (worker[w].pc \in {"record", "finishItem"} => doubt')
    BY <1>1
  <1>9. /\ Posted
        /\ \A v \in Workers \ {w} : HoldInv(v)'
        /\ \A i \in Items : ItemInv(i)'
        /\ \A q \in Reqs : ControlInv(q)'
    BY <1>1, <1>4, <1>7, <1>8, ItemsLeft
  <1>10. EndInv'
    BY <1>1 DEF EndInv
  <1>11. CASE worker[w].pc \in Busy
    <2>1. TaskInv'
      BY <1>1, <1>2, <1>3 DEF TaskInv
    <2>2. CardInv'
      <3>1. CASE worker[w].pc = "record"
        BY <1>8, <3>1 DEF CardInv
      <3>2. CASE worker[w].pc # "record"
        BY <1>1, <1>3, <1>4, <1>9, <3>2, CardKept
      <3> QED BY <3>1, <3>2
    <2> QED BY <1>1, <1>3, <1>4, <1>7, <1>9, <1>10, <1>11, <2>1, <2>2, LeaveKeeps
  <1>12. CASE worker[w].pc \notin Busy
    <2>1. row' = row
      BY <1>1, <1>2, <1>12 DEF LeaseInv
    <2>2. /\ worker'[w].pc = "idle" /\ worker'[w].view = NoView /\ worker'[w].last = "NULL"
          /\ worker'[w].card = 0
      BY <1>4 DEF IdleWorker
    <2> QED BY <1>1, <1>4, <1>7, <1>9, <1>10, <1>12, <2>1, <2>2, AsideKeeps
  <1> QED BY <1>11, <1>12

LEMMA StepTake ==
    ASSUME IInv, NEW w \in Workers, Take(w)
    PROVE  IInv'
  <1>1. /\ worker[w].pc = "idle" /\ notices /\ notices' \in BOOLEAN /\ Goto(w, "claim")
        /\ UNCHANGED <<task, row, item, cards, posts, control, shown, preview, overrun, doubt, faults>>
    BY DEF Take, slackVars
  <1>2. TypeOK /\ ViewInv(w)
    BY DEF IInv
  <1>3. /\ worker' \in [Workers -> Worker]
        /\ \A v \in Workers \ {w} : worker'[v] = worker[v]
        /\ worker'[w].pc = "claim" /\ worker'[w].view = worker[w].view
        /\ worker'[w].last = worker[w].last /\ worker'[w].card = worker[w].card
    BY <1>1, <1>2, GotoWorker DEF Pcs
  <1>4. TypeOK'
    BY <1>1, <1>2, <1>3 DEF TypeOK
  <1>5. Posted /\ SamePosting
    <2>1. UNCHANGED <<item, posts, doubt>> /\ posts \in [Items -> Nat]
      BY <1>1, <1>2 DEF TypeOK
    <2>2. Posted
      BY <2>1 DEF Posted
    <2>3. SamePosting
      BY <1>1, <1>3 DEF SamePosting, Posting
    <2> QED BY <2>2, <2>3
  <1>6. /\ \A v \in Workers : HoldInv(v)'
        /\ \A i \in Items : ItemInv(i)'
        /\ \A q \in Reqs : ControlInv(q)'
    BY <1>1, <1>5, ItemsKept
  <1>7. EndInv'
    BY <1>3 DEF EndInv, Retries
  <1>8. worker[w].pc \notin Busy /\ worker'[w].view = NoView
    BY <1>1, <1>2, <1>3 DEF Busy, Reading, Posting, Ending, ViewInv
  <1> QED BY <1>1, <1>3, <1>4, <1>5, <1>6, <1>7, <1>8, AsideKeeps

LEMMA StepClaim ==
    ASSUME IInv, NEW w \in Workers, claim_task_stream(w)
    PROVE  IInv'
  <1>1. /\ worker[w].pc = "claim" /\ worker[w].pc \notin Busy
        /\ UNCHANGED <<task, item, cards, posts, control, shown, preview, overrun, doubt, faults>>
    BY DEF claim_task_stream, Busy, Reading, Posting, Ending, slackVars
  <1>2. /\ TypeOK /\ TaskInv /\ row \in Row /\ row.card <= Len(cards) /\ worker[w] \in Worker
        /\ posts \in [Items -> Nat]
        /\ \A v \in Workers : ViewInv(v) /\ TodoInv(v) /\ LeaseInv(v)
        /\ \A v \in Previews : PreviewInv(v)
    BY DEF IInv, TypeOK
  <1>3. Posted
    BY <1>1, <1>2 DEF Posted
  <1>4. CASE ~RowFree
    <2>1. worker' = [worker EXCEPT ![w] = IdleWorker] /\ notices' = TRUE /\ UNCHANGED row
      BY <1>4 DEF claim_task_stream, Raise
    <2>2. /\ worker' \in [Workers -> Worker] /\ worker'[w] = IdleWorker
          /\ \A v \in Workers \ {w} : worker'[v] = worker[v]
      BY <1>2, <2>1, IdleAgain
    <2>3. /\ worker'[w].pc = "idle" /\ worker'[w].view = NoView /\ worker'[w].last = "NULL"
          /\ worker'[w].card = 0
      BY <2>2 DEF IdleWorker
    <2>4. TypeOK'
      BY <1>1, <1>2, <2>1, <2>2 DEF TypeOK
    <2>5. SamePosting
      BY <1>1, <2>2, <2>3 DEF SamePosting, Posting
    <2>6. /\ \A v \in Workers : HoldInv(v)'
          /\ \A i \in Items : ItemInv(i)'
          /\ \A q \in Reqs : ControlInv(q)'
      BY <1>1, <2>5, ItemsKept
    <2>7. EndInv'
      BY <2>1 DEF EndInv
    <2> QED BY <1>1, <1>3, <2>1, <2>2, <2>3, <2>4, <2>6, <2>7, AsideKeeps
  <1>5. CASE RowFree
    <2> DEFINE l == [worker[w] EXCEPT !.pc = "read", !.last = row.last, !.card = row.card,
                         !.initiator = row.initiator]
    <2>1. /\ worker' = [worker EXCEPT ![w] = l] /\ UNCHANGED notices
          /\ row' = [row EXCEPT !.status = "streaming", !.claim = w, !.live = TRUE]
      BY <1>5 DEF claim_task_stream
    <2>2. /\ row' \in Row /\ row'.card = row.card /\ row'.last = row.last /\ row'.claim = w
          /\ row'.status = "streaming" /\ row'.live
      BY <1>2, <2>1 DEF Row, Claims
    <2>3. /\ l \in Worker /\ l.pc = "read" /\ l.last = row.last /\ l.card = row.card
          /\ l.view = worker[w].view
      BY <1>2 DEF Worker, Pcs, Row
    <2> HIDE DEF l
    <2>4. /\ worker' \in [Workers -> Worker]
          /\ \A v \in Workers \ {w} : worker'[v] = worker[v]
          /\ worker'[w].pc = "read" /\ worker'[w].last = row.last /\ worker'[w].card = row.card
          /\ worker'[w].view = NoView
      <3>1. worker[w].view = NoView
        BY <1>1, <1>2 DEF ViewInv
      <3> QED BY <1>2, <2>1, <2>3, <3>1, SetWorker
    <2>5. TypeOK'
      BY <1>1, <1>2, <2>1, <2>2, <2>4 DEF TypeOK
    <2>6. ASSUME ~overrun
          PROVE  /\ \A v \in Workers : worker[v].pc \notin Busy
                 /\ \A v \in Previews : preview[v].pc \notin {"write", "release"}
      BY <1>2, <1>5, <2>6 DEF LeaseInv, PreviewInv, RowFree
    <2>7. ASSUME NEW v \in Workers \ {w}
          PROVE  ViewInv(v)' /\ TodoInv(v)' /\ LeaseInv(v)'
      <3>1. ViewInv(v)' /\ TodoInv(v)'
        BY <1>1, <1>2, <1>3, <2>4, <2>5, ViewKept, TodoKept
      <3>2. LeaseInv(v)'
        BY <1>1, <1>2, <2>2, <2>4, <2>6 DEF LeaseInv, Owns
      <3> QED BY <3>1, <3>2
    <2>8. worker'[w].pc \in Busy \ (Reading \cup Posting \cup Ending)
      BY <2>4 DEF Busy, Reading, Posting, Ending
    <2>9. ViewInv(w)' /\ TodoInv(w)'
      BY <1>1, <1>2, <2>4, <2>8 DEF ViewInv, TodoInv, TaskInv
    <2>10. LeaseInv(w)'
      BY <1>1, <1>2, <2>2, <2>4, <2>8 DEF LeaseInv, Owns
    <2>11. \A v \in Previews : PreviewInv(v)'
      BY <1>1, <1>2, <2>6 DEF PreviewInv
    <2>12. SamePosting
      BY <1>1, <2>4 DEF SamePosting, Posting
    <2>13. /\ \A v \in Workers : HoldInv(v)'
           /\ \A i \in Items : ItemInv(i)'
           /\ \A q \in Reqs : ControlInv(q)'
      BY <1>1, <2>12, ItemsKept
    <2>14. CardInv'
      <3>1. \A v \in Workers : worker[v].pc = "record" => worker'[v].pc = "record"
        BY <1>1, <2>4
      <3> QED BY <1>1, <1>3, <2>2, <3>1, CardKept
    <2>15. EndInv'
      <3>1. Owns(w)' /\ Final(w)'
        BY <2>2, <2>4 DEF Owns, Final
      <3> QED BY <3>1 DEF EndInv
    <2>16. TaskInv'
      BY <1>1, <1>2, <2>2 DEF TaskInv
    <2> QED BY <2>5, <2>7, <2>9, <2>10, <2>11, <2>13, <2>14, <2>15, <2>16 DEF IInv
  <1> QED BY <1>4, <1>5

\* A finished task stays shown, or on its way, after the read.
LEMMA EndRead ==
    ASSUME IInv, NEW w \in Workers, worker[w].pc = "read",
           UNCHANGED <<task, notices, overrun, row, posts, control, shown, doubt>>,
           \A v \in Workers \ {w} : worker'[v] = worker[v],
           worker'[w].pc = "fallback" \/ (worker'[w].pc = "start" /\ worker'[w].view = task)
    PROVE  EndInv'
  <1> SUFFICES ASSUME task.state = "COMPLETED", ~notices
               PROVE  \/ Retries'
                      \/ \E v \in Workers : Owns(v)' /\ Final(v)'
                      \/ AllShown' /\ \A v \in Workers : ~Owns(v)'
    BY DEF EndInv
  <1>1. \/ Retries
        \/ \E v \in Workers : Owns(v) /\ Final(v)
        \/ AllShown /\ \A v \in Workers : ~Owns(v)
    BY DEF IInv, EndInv
  <1>2. CASE Retries
    BY <1>2 DEF Retries
  <1>3. ASSUME NEW v \in Workers, Owns(v), Final(v)
        PROVE  Retries' \/ \E u \in Workers : Owns(u)' /\ Final(u)'
    <2>1. CASE v # w
      BY <1>3, <2>1 DEF Owns, Final
    <2>2. CASE v = w /\ worker'[w].pc = "fallback"
      BY <2>2 DEF Retries
    <2>3. CASE v = w /\ worker'[w].pc = "start" /\ worker'[w].view = task
      BY <1>3, <2>3 DEF Owns, Final, Reading
    <2> QED BY <2>1, <2>2, <2>3
  <1>4. CASE AllShown /\ \A v \in Workers : ~Owns(v)
    BY <1>4 DEF AllShown, Owns
  <1> QED BY <1>1, <1>2, <1>3, <1>4

\* The shape of the read, which fails or not.
LEMMA ReadKeeps ==
    ASSUME IInv, TypeOK', NEW w \in Workers, worker[w].pc = "read",
           UNCHANGED <<task, notices, overrun, row, item, cards, posts, control, shown, doubt, preview>>,
           \A v \in Workers \ {w} : worker'[v] = worker[v],
           worker'[w].last = worker[w].last, worker'[w].card = worker[w].card,
           \/ worker'[w].pc = "fallback" /\ worker'[w].view = worker[w].view
           \/ /\ worker'[w].pc = "start" /\ worker'[w].view = task
              /\ worker'[w].todo = 1..task.said \cup task.pending
    PROVE  IInv'
  <1>1. /\ TypeOK /\ TaskInv /\ posts \in [Items -> Nat] /\ Len(cards) \in Nat
        /\ \A v \in Workers : ViewInv(v) /\ TodoInv(v) /\ LeaseInv(v)
    BY DEF IInv, TypeOK
  <1>2. worker[w].pc \in Busy /\ worker'[w].pc \in Busy
    BY DEF Busy, Reading
  <1>3. Posted
    BY <1>1 DEF Posted
  <1>4. SamePosting /\ \A v \in Workers : worker[v].pc = "record" => worker'[v].pc = "record"
    BY DEF SamePosting, Posting
  <1>5. /\ \A v \in Workers : HoldInv(v)'
        /\ \A i \in Items : ItemInv(i)'
        /\ \A q \in Reqs : ControlInv(q)'
    BY <1>4, ItemsKept
  <1>6. CardInv' /\ EndInv'
    BY <1>3, <1>4, CardKept, EndRead
  <1>7. TaskInv'
    BY <1>1 DEF TaskInv
  <1>8. /\ \A v \in Workers \ {w} : LeaseInv(v)'
        /\ \A v \in Previews : PreviewInv(v)'
    BY <1>1, <1>2, OthersKept
  <1>9. \A v \in Workers \ {w} : TodoInv(v)' /\ ViewInv(v)'
    BY <1>1, <1>3, TodoKept, ViewKept
  <1>10. CASE worker'[w].pc = "fallback" /\ worker'[w].view = worker[w].view
    <2>1. worker'[w].pc \notin Reading \cup Ending
      BY <1>10 DEF Reading, Posting, Ending
    <2>2. ViewInv(w)' /\ TodoInv(w)'
      BY <1>1, <1>10, <2>1 DEF ViewInv, TodoInv
    <2>3. LeaseInv(w)'
      BY <1>1, <1>2, <1>10, <2>1 DEF LeaseInv, Owns
    <2> QED BY <1>5, <1>6, <1>7, <1>8, <1>9, <2>2, <2>3 DEF IInv
  <1>11. CASE /\ worker'[w].pc = "start" /\ worker'[w].view = task
              /\ worker'[w].todo = 1..task.said \cup task.pending
    <2>1. worker'[w].pc \notin Ending \cup Posting
      BY <1>11 DEF Posting, Ending
    <2>2. task # NoView /\ task.version \in Nat
      BY <1>1, NoViewIs DEF TaskInv, TypeOK, TaskView
    <2>3. ViewInv(w)'
      BY <1>1, <1>11, <2>2 DEF ViewInv, TaskInv
    <2>4. TodoInv(w)'
      BY <1>11, <2>1 DEF TodoInv, Wanted, Posting
    <2>5. LeaseInv(w)'
      BY <1>1, <1>2, <1>11, <2>1 DEF LeaseInv, Owns, TaskInv
    <2> QED BY <1>5, <1>6, <1>7, <1>8, <1>9, <2>3, <2>4, <2>5 DEF IInv
  <1> QED BY <1>10, <1>11

LEMMA StepRead ==
    ASSUME IInv, NEW w \in Workers, get_task(w)
    PROVE  IInv'
  <1>1. /\ worker[w].pc = "read"
        /\ UNCHANGED <<task, row, item, cards, posts, control, shown, notices, preview, overrun, doubt>>
    BY DEF get_task, slackVars
  <1>2. TypeOK /\ worker[w] \in Worker /\ task \in TaskView
    BY DEF IInv, TypeOK
  <1>3. CASE Fault /\ Goto(w, "fallback")
    <2>1. /\ worker' \in [Workers -> Worker]
          /\ \A v \in Workers \ {w} : worker'[v] = worker[v]
          /\ worker'[w].pc = "fallback" /\ worker'[w].view = worker[w].view
          /\ worker'[w].last = worker[w].last /\ worker'[w].card = worker[w].card
      BY <1>2, <1>3, GotoWorker DEF Pcs
    <2>2. faults' \in 0..MaxFaults
      BY <1>2, <1>3, ProjectionAssumption DEF TypeOK, Fault
    <2>3. TypeOK'
      BY <1>1, <1>2, <2>1, <2>2 DEF TypeOK
    <2> QED BY <1>1, <2>1, <2>3, ReadKeeps
  <1>4. CASE /\ worker' = [worker EXCEPT ![w] = [worker[w] EXCEPT !.view = task,
                    !.pc = "start", !.todo = 1..task.said \cup task.pending]]
             /\ UNCHANGED faults
    <2> DEFINE l == [worker[w] EXCEPT !.view = task, !.pc = "start",
                         !.todo = 1..task.said \cup task.pending]
    <2>1. 1..task.said \cup task.pending \subseteq Items
      BY <1>2, ItemSets DEF TaskView
    <2>2. /\ l \in Worker /\ l.pc = "start" /\ l.view = task
          /\ l.todo = 1..task.said \cup task.pending
          /\ l.last = worker[w].last /\ l.card = worker[w].card
      BY <1>2, <2>1 DEF Worker, Pcs
    <2>3. worker' = [worker EXCEPT ![w] = l]
      BY <1>4
    <2> HIDE DEF l
    <2>4. /\ worker' \in [Workers -> Worker]
          /\ \A v \in Workers \ {w} : worker'[v] = worker[v]
          /\ worker'[w].pc = "start" /\ worker'[w].view = task
          /\ worker'[w].todo = 1..task.said \cup task.pending
          /\ worker'[w].last = worker[w].last /\ worker'[w].card = worker[w].card
      BY <1>2, <2>2, <2>3, SetWorker
    <2>5. TypeOK'
      BY <1>1, <1>2, <1>4, <2>4 DEF TypeOK
    <2> QED BY <1>1, <2>4, <2>5, ReadKeeps
  <1> QED BY <1>3, <1>4 DEF get_task

----
\* The task, the leases and the preview worker

\* The task after a change at the controller.
LEMMA ChangedTask ==
    ASSUME task \in TaskView, task.version >= 1, NEW t \in TaskView, Change(t)
    PROVE  /\ task' \in TaskView /\ task'.version = task.version + 1
           /\ task'.state = t.state /\ task'.pending = t.pending
           /\ notices' = TRUE
           /\ UNCHANGED <<row, item, cards, posts, control, shown, worker, preview, overrun, doubt, faults>>
  <1>1. PICK n \in Nat : n = task.version + 1
    BY DEF TaskView
  <1>2. task' = [t EXCEPT !.version = n]
    BY <1>1 DEF Change
  <1>3. task' \in TaskView /\ task'.version = n /\ task'.state = t.state /\ task'.pending = t.pending
    BY <1>2 DEF TaskView
  <1> QED BY <1>1, <1>3 DEF Change, slackVars

LEMMA StepTask ==
    ASSUME IInv, TaskChanges
    PROVE  IInv'
  <1>1. /\ TypeOK /\ TaskInv /\ task \in TaskView /\ posts \in [Items -> Nat] /\ CardInv
        /\ \A v \in Workers : ViewInv(v) /\ TodoInv(v) /\ LeaseInv(v)
        /\ \A v \in Previews : PreviewInv(v)
    BY DEF IInv, TypeOK
  <1>2. /\ task' \in TaskView /\ task'.version = task.version + 1
        /\ (task'.state = "INPUT_REQUIRED") <=> (task'.pending # {})
        /\ task.state # "COMPLETED" /\ task.version \in Nat /\ task.version >= 1
        /\ notices' = TRUE
        /\ UNCHANGED <<row, item, cards, posts, control, shown, worker, preview, overrun, doubt, faults>>
    <2>1. task.version \in Nat /\ task.version >= 1 /\ task \in TaskView
      BY <1>1 DEF TaskView, TaskInv
    <2>2. (task.state = "INPUT_REQUIRED") <=> (task.pending # {})
      BY <1>1 DEF TaskInv
    <2>3. CASE task.state = "SUBMITTED" /\ Change([task EXCEPT !.state = "WORKING"])
      <3>1. PICK t \in TaskView : t = [task EXCEPT !.state = "WORKING"] /\ t.state = "WORKING" /\ t.pending = task.pending
        <4> DEFINE u == [task EXCEPT !.state = "WORKING"]
        <4>1. u \in TaskView /\ u.state = "WORKING" /\ u.pending = task.pending
          BY <2>1 DEF TaskView, States, Working
        <4> QED BY <4>1
      <3> QED BY <2>1, <2>2, <2>3, <3>1, ChangedTask
    <2>4. CASE /\ task.state = "WORKING" /\ task.said < MaxMsgs
               /\ Change([task EXCEPT !.said = task.said + 1])
      <3>1. PICK n \in 0..MaxMsgs : n = task.said + 1
        BY <2>1, <2>4, ProjectionAssumption DEF TaskView
      <3>2. PICK t \in TaskView : t = [task EXCEPT !.said = n] /\ t.state = task.state /\ t.pending = task.pending
        <4> DEFINE u == [task EXCEPT !.said = n]
        <4>1. u \in TaskView /\ u.state = task.state /\ u.pending = task.pending
          BY <2>1 DEF TaskView, States, Working
        <4> QED BY <4>1
      <3>3. Change(t)
        BY <2>4, <3>1, <3>2
      <3> QED BY <2>1, <2>2, <2>4, <3>2, <3>3, ChangedTask
    <2>5. CASE /\ task.state = "WORKING" /\ task.asked < MaxReqs
               /\ Change([task EXCEPT !.state = "INPUT_REQUIRED", !.asked = task.asked + 1,
                                      !.pending = {MaxMsgs + task.asked + 1}])
      <3>1. /\ task.asked \in Nat /\ task.asked + 1 \in 0..MaxReqs
            /\ MaxMsgs + task.asked + 1 \in Reqs
        BY <2>1, <2>5, ProjectionAssumption DEF TaskView, Reqs
      <3>2. PICK q \in Reqs, n \in 0..MaxReqs : q = MaxMsgs + task.asked + 1 /\ n = task.asked + 1
        BY <3>1
      <3>3. PICK t \in TaskView : t = [task EXCEPT !.state = "INPUT_REQUIRED", !.asked = n, !.pending = {q}] /\ t.state = "INPUT_REQUIRED" /\ t.pending = {q}
        <4> DEFINE u == [task EXCEPT !.state = "INPUT_REQUIRED", !.asked = n, !.pending = {q}]
        <4>1. u \in TaskView /\ u.state = "INPUT_REQUIRED" /\ u.pending = {q}
          BY <2>1 DEF TaskView, States, Working
        <4> QED BY <4>1
      <3>4. Change(t)
        BY <2>5, <3>2, <3>3
      <3> QED BY <2>1, <2>5, <3>3, <3>4, ChangedTask
    <2>6. CASE /\ task.state = "INPUT_REQUIRED"
               /\ Change([task EXCEPT !.state = "WORKING", !.pending = {}])
      <3>1. PICK t \in TaskView : t = [task EXCEPT !.state = "WORKING", !.pending = {}] /\ t.state = "WORKING" /\ t.pending = {}
        <4> DEFINE u == [task EXCEPT !.state = "WORKING", !.pending = {}]
        <4>1. u \in TaskView /\ u.state = "WORKING" /\ u.pending = {}
          BY <2>1 DEF TaskView, States, Working
        <4> QED BY <4>1
      <3> QED BY <2>1, <2>6, <3>1, ChangedTask
    <2>7. CASE task.state = "WORKING" /\ Change([task EXCEPT !.state = "COMPLETED"])
      <3>1. PICK t \in TaskView : t = [task EXCEPT !.state = "COMPLETED"] /\ t.state = "COMPLETED" /\ t.pending = task.pending
        <4> DEFINE u == [task EXCEPT !.state = "COMPLETED"]
        <4>1. u \in TaskView /\ u.state = "COMPLETED" /\ u.pending = task.pending
          BY <2>1 DEF TaskView, States, Working
        <4> QED BY <4>1
      <3> QED BY <2>1, <2>2, <2>7, <3>1, ChangedTask
    <2> QED BY <2>3, <2>4, <2>5, <2>6, <2>7 DEF TaskChanges
  <1>3. TypeOK'
    BY <1>1, <1>2 DEF TypeOK
  <1>4. TaskInv'
    <2>1. shown \in Nat
      BY <1>1 DEF TypeOK
    <2> QED BY <1>1, <1>2, <2>1 DEF TaskInv
  <1>5. ASSUME NEW v \in Workers PROVE ViewInv(v)'
    <2>1. ViewInv(v) /\ worker[v].view \in TaskView
      BY <1>1 DEF TypeOK, Worker
    <2>2. worker[v].view.version \in 1..task.version => worker[v].view.version \in 1..task'.version
      BY <1>2
    <2> QED BY <1>2, <2>1, <2>2 DEF ViewInv
  <1>6. Posted /\ SamePosting
    BY <1>1, <1>2 DEF Posted, SamePosting
  <1>7. \A v \in Workers : TodoInv(v)' /\ LeaseInv(v)'
    BY <1>1, <1>2 DEF TodoInv, Wanted, LeaseInv, Owns
  <1>8. /\ \A v \in Workers : HoldInv(v)'
        /\ \A i \in Items : ItemInv(i)'
        /\ \A q \in Reqs : ControlInv(q)'
    BY <1>2, <1>6, ItemsKept
  <1>9. CardInv'
    BY <1>2, <1>6, CardKept
  <1>10. EndInv' /\ \A v \in Previews : PreviewInv(v)'
    BY <1>1, <1>2 DEF EndInv, PreviewInv, Owns
  <1> QED BY <1>3, <1>4, <1>5, <1>7, <1>8, <1>9, <1>10 DEF IInv

\* The shape of a step of another on the row: it does not touch the claim of a projector.
LEMMA RowKeeps ==
    ASSUME IInv, TypeOK',
           UNCHANGED <<task, item, posts, control, shown, worker, overrun, doubt>>,
           notices => notices', Len(cards') = Len(cards),
           row'.card = row.card, row'.last = row.last,
           \A w \in Workers : Owns(w)' <=> Owns(w),
           (\E w \in Workers : Owns(w)) => row'.status = row.status /\ row'.live = row.live,
           \A v \in Previews : PreviewInv(v)'
    PROVE  IInv'
  <1>1. /\ TypeOK /\ TaskInv /\ EndInv /\ posts \in [Items -> Nat]
        /\ \A v \in Workers : ViewInv(v) /\ TodoInv(v) /\ LeaseInv(v)
    BY DEF IInv, TypeOK
  <1>2. Posted /\ SamePosting
    BY <1>1 DEF Posted, SamePosting
  <1>3. /\ \A v \in Workers : HoldInv(v)'
        /\ \A i \in Items : ItemInv(i)'
        /\ \A q \in Reqs : ControlInv(q)'
    BY <1>2, ItemsKept
  <1>4. CardInv' /\ TaskInv'
    BY <1>1, <1>2, CardKept DEF TaskInv
  <1>5. \A v \in Workers : ViewInv(v)' /\ TodoInv(v)'
    BY <1>1 DEF ViewInv, TodoInv, Wanted
  <1>6. ASSUME NEW v \in Workers PROVE LeaseInv(v)'
    BY <1>1 DEF LeaseInv
  <1>7. EndInv'
    <2>1. Retries' <=> Retries
      BY DEF Retries
    <2>2. \A v \in Workers : Final(v)' <=> Final(v)
      BY DEF Final
    <2>3. AllShown' <=> AllShown
      BY DEF AllShown
    <2> QED BY <1>1, <2>1, <2>2, <2>3 DEF EndInv
  <1> QED BY <1>3, <1>4, <1>5, <1>6, <1>7 DEF IInv

LEMMA StepEnsure ==
    ASSUME IInv, ensure_projection
    PROVE  IInv'
  <1>1. /\ row' = [row EXCEPT !.initiator = TRUE] /\ notices' = TRUE
        /\ UNCHANGED <<task, item, cards, posts, control, shown, worker, preview, overrun, doubt, faults>>
    BY DEF ensure_projection, slackVars
  <1>2. TypeOK /\ row \in Row /\ row.card <= Len(cards) /\ \A v \in Previews : PreviewInv(v)
    BY DEF IInv, TypeOK
  <1>3. /\ row' \in Row /\ row'.card = row.card /\ row'.last = row.last
        /\ row'.claim = row.claim /\ row'.status = row.status /\ row'.live = row.live
    BY <1>1, <1>2 DEF Row
  <1>4. TypeOK'
    BY <1>1, <1>2, <1>3 DEF TypeOK
  <1>5. \A v \in Previews : PreviewInv(v)'
    BY <1>1, <1>2, <1>3 DEF PreviewInv, Owns
  <1>6. \A w \in Workers : Owns(w)' <=> Owns(w)
    BY <1>3 DEF Owns
  <1> QED BY <1>1, <1>3, <1>4, <1>5, <1>6, RowKeeps

LEMMA StepRowExpires ==
    ASSUME IInv, RowExpires
    PROVE  IInv'
  <1>1. /\ row.status = "streaming" /\ row.live /\ row' = [row EXCEPT !.live = FALSE]
        /\ UNCHANGED <<task, item, cards, posts, control, shown, notices, doubt>>
    BY DEF RowExpires, slackVars
  <1>2. /\ TypeOK /\ TaskInv /\ EndInv /\ posts \in [Items -> Nat]
        /\ row \in Row /\ row.card <= Len(cards)
        /\ \A v \in Workers : ViewInv(v) /\ TodoInv(v) /\ LeaseInv(v)
        /\ \A v \in Previews : PreviewInv(v)
    BY DEF IInv, TypeOK
  <1>3. /\ row' \in Row /\ row'.card = row.card /\ row'.last = row.last
        /\ row'.claim = row.claim
    BY <1>1, <1>2 DEF Row
  <1>4. CASE row.claim = Gone /\ UNCHANGED <<worker, preview, overrun, faults>>
    <2>1. TypeOK'
      BY <1>1, <1>2, <1>3, <1>4 DEF TypeOK
    <2>2. \A w \in Workers \cup Previews : ~Owns(w) /\ ~Owns(w)'
      BY <1>3, <1>4, ProjectionAssumption DEF Owns
    <2>3. \A v \in Previews : PreviewInv(v)'
      BY <1>2, <1>4, <2>2 DEF PreviewInv
    <2> QED BY <1>1, <1>3, <1>4, <2>1, <2>2, <2>3, RowKeeps
  <1>5. CASE /\ row.claim # Gone /\ Fault /\ overrun' = TRUE
             /\ worker' = [w \in Workers |-> [worker[w] EXCEPT !.late = @ \/ Owns(w)]]
             /\ preview' = [v \in Previews |-> [preview[v] EXCEPT !.late = @ \/ Owns(v)]]
    <2>1. ASSUME NEW w \in Workers
          PROVE  /\ worker'[w] \in Worker /\ worker'[w].pc = worker[w].pc
                 /\ worker'[w].view = worker[w].view /\ worker'[w].last = worker[w].last
                 /\ worker'[w].card = worker[w].card /\ worker'[w].todo = worker[w].todo
                 /\ worker'[w].at = worker[w].at
      <3>1. worker[w] \in Worker
        BY <1>2 DEF TypeOK
      <3>2. PICK b \in BOOLEAN : b = (worker[w].late \/ Owns(w))
        OBVIOUS
      <3>3. worker'[w] = [worker[w] EXCEPT !.late = b]
        BY <1>5, <3>2
      <3> QED BY <3>1, <3>3 DEF Worker
    <2>2. worker' \in [Workers -> Worker]
      <3>1. worker' = [w \in Workers |-> worker'[w]]
        BY <1>5
      <3> QED BY <2>1, <3>1
    <2>3. /\ preview' \in [Previews -> Preview]
          /\ \A v \in Previews : /\ preview'[v].pc = preview[v].pc
                                 /\ preview'[v].updates = preview[v].updates
      <3>1. ASSUME NEW v \in Previews
            PROVE  /\ preview'[v] \in Preview /\ preview'[v].pc = preview[v].pc
                   /\ preview'[v].updates = preview[v].updates
        <4>1. preview[v] \in Preview
          BY <1>2 DEF TypeOK
        <4>2. PICK b \in BOOLEAN : b = (preview[v].late \/ Owns(v))
          OBVIOUS
        <4>3. preview'[v] = [preview[v] EXCEPT !.late = b]
          BY <1>5, <4>2
        <4> QED BY <4>1, <4>3 DEF Preview
      <3>2. preview' = [v \in Previews |-> preview'[v]]
        BY <1>5
      <3> QED BY <3>1, <3>2
    <2>4. faults' \in 0..MaxFaults
      BY <1>2, <1>5, ProjectionAssumption DEF TypeOK, Fault
    <2>5. TypeOK'
      BY <1>1, <1>2, <1>3, <1>5, <2>2, <2>3, <2>4 DEF TypeOK
    <2>6. Posted /\ SamePosting
      BY <1>1, <1>2, <2>1 DEF Posted, SamePosting
    <2>7. /\ \A v \in Workers : HoldInv(v)'
          /\ \A i \in Items : ItemInv(i)'
          /\ \A q \in Reqs : ControlInv(q)'
      BY <1>1, <2>6, ItemsKept
    <2>8. ASSUME NEW v \in Workers PROVE ViewInv(v)' /\ TodoInv(v)' /\ LeaseInv(v)'
      <3>1. ViewInv(v)'
        BY <1>1, <1>2, <2>1, ViewKept
      <3>2. TodoInv(v)'
        BY <1>1, <1>2, <2>1 DEF TodoInv, Wanted
      <3>3. LeaseInv(v)'
        BY <1>1, <1>2, <1>3, <1>5, <2>1 DEF LeaseInv, Owns
      <3> QED BY <3>1, <3>2, <3>3
    <2>9. TaskInv' /\ CardInv' /\ \A v \in Previews : PreviewInv(v)'
      BY <1>1, <1>2, <1>3, <1>5, <2>3 DEF TaskInv, CardInv, PreviewInv
    <2>10. EndInv'
      <3>1. Retries' <=> Retries
        BY <2>1 DEF Retries
      <3>2. \A v \in Workers : (Final(v)' <=> Final(v)) /\ (Owns(v)' <=> Owns(v))
        BY <1>3, <2>1 DEF Final, Owns
      <3>3. AllShown => AllShown'
        BY <1>1, <1>3, <1>5 DEF AllShown
      <3> QED BY <1>1, <1>2, <3>1, <3>2, <3>3 DEF EndInv
    <2> QED BY <2>5, <2>7, <2>8, <2>9, <2>10 DEF IInv
  <1> QED BY <1>4, <1>5 DEF RowExpires

LEMMA StepItemExpires ==
    ASSUME IInv, NEW i \in Items, ItemExpires(i)
    PROVE  IInv'
  <1>1. /\ item[i].status = "posting"
        /\ item' = [item EXCEPT ![i] = [item[i] EXCEPT !.live = FALSE]]
        /\ UNCHANGED <<task, row, cards, posts, control, shown, notices, worker, preview>>
    BY DEF ItemExpires, slackVars
  <1>2. /\ TypeOK /\ TaskInv /\ EndInv /\ CardInv /\ posts \in [Items -> Nat]
        /\ \A v \in Workers : ViewInv(v) /\ TodoInv(v) /\ LeaseInv(v) /\ HoldInv(v)
        /\ \A v \in Previews : PreviewInv(v)
        /\ \A j \in Items : ItemInv(j)
        /\ \A q \in Reqs : ControlInv(q)
    BY DEF IInv, TypeOK
  <1>3. /\ item' \in [Items -> Receipt]
        /\ \A j \in Items : /\ item'[j].status = item[j].status /\ item'[j].ts = item[j].ts
                            /\ item'[j].claim = item[j].claim
        /\ \A j \in Items \ {i} : item'[j] = item[j]
    <2>1. item \in [Items -> Receipt] /\ item[i] \in Receipt
      BY <1>2 DEF TypeOK
    <2> DEFINE r == [item[i] EXCEPT !.live = FALSE]
    <2>2. /\ r \in Receipt /\ r.claim = item[i].claim
          /\ r.status = item[i].status /\ r.ts = item[i].ts
      BY <2>1 DEF Receipt
    <2>3. item' = [item EXCEPT ![i] = r]
      BY <1>1
    <2> HIDE DEF r
    <2>4. /\ item' \in [Items -> Receipt] /\ item'[i] = r
          /\ \A j \in Items \ {i} : item'[j] = item[j]
      BY <1>2, <2>2, <2>3, SetReceipt
    <2> QED BY <2>2, <2>4
  <1>4. TypeOK' /\ (doubt => doubt') /\ (overrun => overrun')
        /\ (doubt' => doubt \/ overrun') /\ (overrun' => overrun \/ doubt')
    <2>1. CASE UNCHANGED <<faults, overrun, doubt>>
      BY <1>1, <1>2, <1>3, <2>1 DEF TypeOK
    <2>2. CASE Fault /\ overrun' = TRUE /\ doubt' = TRUE
      <3>1. faults' \in 0..MaxFaults
        BY <1>2, <2>2, ProjectionAssumption DEF TypeOK, Fault
      <3>2. TypeOK'
        BY <1>1, <1>2, <1>3, <2>2, <3>1 DEF TypeOK
      <3> QED BY <2>2, <3>2
    <2> QED BY <2>1, <2>2 DEF ItemExpires
  <1>5. Posted
    BY <1>1, <1>2, <1>3, <1>4 DEF Posted
  <1>6. ASSUME NEW v \in Workers
        PROVE  ViewInv(v)' /\ TodoInv(v)' /\ HoldInv(v)' /\ LeaseInv(v)'
    <2>1. ViewInv(v)' /\ TodoInv(v)'
      BY <1>1, <1>2, <1>4, <1>5, ViewKept, TodoKept
    <2>2. worker[v].pc \in Posting => worker[v].at \in Items
      BY <1>2, WantedItems DEF TodoInv, Reading
    <2>3. HoldInv(v)'
      BY <1>1, <1>2, <1>3, <1>4, <2>2 DEF HoldInv
    <2>4. LeaseInv(v)'
      BY <1>1, <1>2, <1>4 DEF LeaseInv, Owns
    <2> QED BY <2>1, <2>3, <2>4
  <1>7. ASSUME NEW j \in Items PROVE ItemInv(j)'
    <2>1. CASE j # i
      BY <1>1, <1>2, <1>3, <1>4, <2>1 DEF ItemInv, Unrecorded
    <2>2. CASE j = i
      <3>1. doubt' \/ item[i].claim = Gone
        BY DEF ItemExpires
      <3> QED BY <1>1, <1>2, <1>3, <1>4, <2>2, <3>1, ProjectionAssumption DEF ItemInv
    <2> QED BY <2>1, <2>2
  <1>8. ASSUME NEW q \in Reqs PROVE ControlInv(q)'
    BY <1>1, <1>2, <1>3, <1>4, ItemSets DEF ControlInv, Unrecorded
  <1>9. TaskInv' /\ CardInv' /\ \A v \in Previews : PreviewInv(v)'
    <2>1. CardInv'
      BY <1>1, <1>4, <1>5, CardKept
    <2> QED BY <1>1, <1>2, <1>4, <2>1 DEF TaskInv, PreviewInv, Owns
  <1>10. EndInv'
    <2>1. (Retries' <=> Retries) /\ \A v \in Workers : (Final(v)' <=> Final(v)) /\ (Owns(v)' <=> Owns(v))
      BY <1>1 DEF Retries, Final, Owns
    <2>2. AllShown => AllShown'
      BY <1>1, <1>4 DEF AllShown
    <2> QED BY <1>1, <1>2, <2>1, <2>2 DEF EndInv
  <1> QED BY <1>4, <1>6, <1>7, <1>8, <1>9, <1>10 DEF IInv

\* A preview worker that is out of work.
LEMMA IdlePreviewIs ==
    ASSUME TypeOK, NEW v \in Previews,
           preview' = [preview EXCEPT ![v] = IdlePreview(preview[v].updates)]
    PROVE  /\ preview' \in [Previews -> Preview]
           /\ preview'[v].pc = "idle"
           /\ \A u \in Previews \ {v} : preview'[u] = preview[u]
  <1> DEFINE l == IdlePreview(preview[v].updates)
  <1>1. preview[v] \in Preview
    BY DEF TypeOK
  <1>2. l \in Preview /\ l.pc = "idle"
    BY <1>1 DEF IdlePreview, Preview
  <1>3. preview' = [preview EXCEPT ![v] = l]
    OBVIOUS
  <1> HIDE DEF l
  <1> QED BY <1>2, <1>3, SetPreview

\* A preview worker in its lease owns the row, so another one does not.
LEMMA PreviewsKept ==
    ASSUME IInv, NEW v \in Previews, UNCHANGED overrun,
           \A u \in Previews \ {v} : preview'[u] = preview[u],
           row' = row \/ row.claim = None \/ Owns(v)
    PROVE  \A u \in Previews \ {v} : PreviewInv(u)'
  <1>1. ASSUME NEW u \in Previews \ {v}, preview[u].pc \in {"write", "release"}, ~overrun
        PROVE  Owns(u)' /\ row'.status = "streaming" /\ row'.live
    <2>1. Owns(u) /\ row.status = "streaming" /\ row.live
      BY <1>1 DEF IInv, PreviewInv
    <2>2. row' = row
      BY <1>1, <2>1, ProjectionAssumption DEF Owns
    <2> QED BY <2>1, <2>2 DEF Owns
  <1>2. \A u \in Previews : PreviewInv(u)
    BY DEF IInv
  <1> QED BY <1>1, <1>2 DEF PreviewInv

LEMMA StepObserve ==
    ASSUME IInv, NEW v \in Previews, observe(v)
    PROVE  IInv'
  <1>1. /\ preview' = [preview EXCEPT ![v] = [preview[v] EXCEPT !.pc = "claim", !.card = row.card]]
        /\ UNCHANGED <<task, row, item, cards, posts, control, shown, notices, worker, overrun, doubt, faults>>
    BY DEF observe, slackVars
  <1>2. TypeOK /\ preview[v] \in Preview /\ row.card \in Nat /\ preview[v].updates < MaxUpdates
    BY DEF IInv, TypeOK, Row, observe
  <1> DEFINE l == [preview[v] EXCEPT !.pc = "claim", !.card = row.card]
  <1>3. l \in Preview /\ l.pc = "claim" /\ l.updates = preview[v].updates
    BY <1>2 DEF Preview
  <1>4. preview' = [preview EXCEPT ![v] = l]
    BY <1>1
  <1> HIDE DEF l
  <1>5. /\ preview' \in [Previews -> Preview] /\ preview'[v].pc = "claim"
        /\ preview'[v].updates = preview[v].updates
        /\ \A u \in Previews \ {v} : preview'[u] = preview[u]
    BY <1>2, <1>3, <1>4, SetPreview
  <1>6. TypeOK'
    BY <1>1, <1>2, <1>5 DEF TypeOK
  <1>7. \A u \in Previews : PreviewInv(u)'
    <2>1. PreviewInv(v)'
      BY <1>2, <1>5 DEF PreviewInv
    <2> QED BY <1>1, <1>5, <2>1, PreviewsKept
  <1>8. \A w \in Workers : Owns(w)' <=> Owns(w)
    BY <1>1 DEF Owns
  <1> QED BY <1>1, <1>6, <1>7, <1>8, RowKeeps

LEMMA StepPreviewClaim ==
    ASSUME IInv, NEW v \in Previews, claim(v)
    PROVE  IInv'
  <1>1. UNCHANGED <<task, item, cards, posts, control, shown, notices, worker, overrun, doubt, faults>>
    BY DEF claim, slackVars
  <1>2. /\ TypeOK /\ preview[v] \in Preview /\ row \in Row /\ row.card <= Len(cards)
        /\ preview[v].updates < MaxUpdates
    BY DEF IInv, TypeOK, PreviewInv, claim
  <1>3. CASE preview' = [preview EXCEPT ![v] = IdlePreview(preview[v].updates)] /\ UNCHANGED row
    <2>1. /\ preview' \in [Previews -> Preview] /\ preview'[v].pc = "idle"
          /\ \A u \in Previews \ {v} : preview'[u] = preview[u]
      BY <1>2, <1>3, IdlePreviewIs
    <2>2. TypeOK'
      BY <1>1, <1>2, <1>3, <2>1 DEF TypeOK
    <2>3. \A u \in Previews : PreviewInv(u)'
      <3>1. PreviewInv(v)'
        BY <2>1 DEF PreviewInv
      <3> QED BY <1>1, <1>3, <2>1, <3>1, PreviewsKept
    <2>4. \A w \in Workers : Owns(w)' <=> Owns(w)
      BY <1>3 DEF Owns
    <2> QED BY <1>1, <1>3, <2>2, <2>3, <2>4, RowKeeps
  <1>4. CASE /\ row.claim = None
             /\ row' = [row EXCEPT !.status = "streaming", !.claim = v, !.live = TRUE]
             /\ preview' = [preview EXCEPT ![v] = [preview[v] EXCEPT !.pc = "write"]]
    <2> DEFINE l == [preview[v] EXCEPT !.pc = "write"]
    <2>1. l \in Preview /\ l.pc = "write" /\ l.updates = preview[v].updates
      BY <1>2 DEF Preview
    <2>2. preview' = [preview EXCEPT ![v] = l]
      BY <1>4
    <2> HIDE DEF l
    <2>3. /\ preview' \in [Previews -> Preview] /\ preview'[v].pc = "write"
          /\ preview'[v].updates = preview[v].updates
          /\ \A u \in Previews \ {v} : preview'[u] = preview[u]
      BY <1>2, <2>1, <2>2, SetPreview
    <2>4. /\ row' \in Row /\ row'.card = row.card /\ row'.last = row.last /\ row'.claim = v
          /\ row'.status = "streaming" /\ row'.live
      BY <1>2, <1>4 DEF Row, Claims
    <2>5. TypeOK'
      BY <1>1, <1>2, <2>3, <2>4 DEF TypeOK
    <2>6. \A u \in Previews : PreviewInv(u)'
      <3>1. PreviewInv(v)'
        BY <1>2, <2>3, <2>4 DEF PreviewInv, Owns
      <3> QED BY <1>1, <1>4, <2>3, <3>1, PreviewsKept
    <2>7. \A w \in Workers : ~Owns(w)' /\ ~Owns(w)
      BY <1>4, <2>4, ProjectionAssumption DEF Owns
    <2> QED BY <1>1, <2>4, <2>5, <2>6, <2>7, RowKeeps
  <1> QED BY <1>3, <1>4 DEF claim

LEMMA StepUpdate ==
    ASSUME IInv, NEW v \in Previews, update(v)
    PROVE  IInv'
  <1>1. /\ preview[v].pc = "write"
        /\ cards' = cards \/ cards' = [cards EXCEPT ![preview[v].card] = "draft"]
        /\ preview' = [preview EXCEPT ![v] = [preview[v] EXCEPT !.pc = "release",
                                                  !.updates = preview[v].updates + 1]]
        /\ UNCHANGED <<task, row, item, posts, control, shown, notices, worker, overrun, doubt, faults>>
    BY DEF update
  <1>2. TypeOK /\ preview[v] \in Preview /\ PreviewInv(v) /\ row.card <= Len(cards)
    BY DEF IInv, TypeOK
  <1>3. PICK n \in 0..MaxUpdates : n = preview[v].updates + 1
    BY <1>1, <1>2, ProjectionAssumption DEF PreviewInv, Preview
  <1> DEFINE l == [preview[v] EXCEPT !.pc = "release", !.updates = n]
  <1>4. l \in Preview /\ l.pc = "release"
    BY <1>2 DEF Preview
  <1>5. preview' = [preview EXCEPT ![v] = l]
    BY <1>1, <1>3
  <1> HIDE DEF l
  <1>6. /\ preview' \in [Previews -> Preview] /\ preview'[v].pc = "release"
        /\ \A u \in Previews \ {v} : preview'[u] = preview[u]
    BY <1>2, <1>4, <1>5, SetPreview
  <1>7. cards' \in Seq({"working", "draft", "stopped"}) /\ Len(cards') = Len(cards)
    <2>1. CASE cards' = cards
      BY <1>2, <2>1 DEF TypeOK
    <2>2. CASE cards' = [cards EXCEPT ![preview[v].card] = "draft"]
      BY <1>2, <2>2, SetCard
    <2> QED BY <1>1, <2>1, <2>2
  <1>8. TypeOK'
    BY <1>1, <1>2, <1>6, <1>7 DEF TypeOK
  <1>9. \A u \in Previews : PreviewInv(u)'
    <2>1. PreviewInv(v)'
      BY <1>1, <1>2, <1>6 DEF PreviewInv, Owns
    <2> QED BY <1>1, <1>6, <2>1, PreviewsKept
  <1>10. \A w \in Workers : Owns(w)' <=> Owns(w)
    BY <1>1 DEF Owns
  <1> QED BY <1>1, <1>7, <1>8, <1>9, <1>10, RowKeeps

\* A preview worker that ends, with or without giving the row back.
LEMMA PreviewLeaves ==
    ASSUME IInv, NEW v \in Previews, row' \in Row,
           preview' = [preview EXCEPT ![v] = IdlePreview(preview[v].updates)],
           UNCHANGED <<task, item, cards, posts, control, shown, notices, worker, overrun, doubt>>,
           faults' \in 0..MaxFaults,
           row'.card = row.card, row'.last = row.last,
           row' = row \/ (Owns(v) /\ row'.claim \in {None, Gone})
    PROVE  IInv'
  <1>1. TypeOK /\ row.card <= Len(cards)
    BY DEF IInv, TypeOK
  <1>2. /\ preview' \in [Previews -> Preview] /\ preview'[v].pc = "idle"
        /\ \A u \in Previews \ {v} : preview'[u] = preview[u]
    BY <1>1, IdlePreviewIs
  <1>3. TypeOK'
    BY <1>1, <1>2 DEF TypeOK
  <1>4. \A u \in Previews : PreviewInv(u)'
    <2>1. PreviewInv(v)'
      BY <1>2 DEF PreviewInv
    <2> QED BY <1>2, <2>1, PreviewsKept
  <1>5. row' # row => \A w \in Workers : ~Owns(w)' /\ ~Owns(w)
    BY ProjectionAssumption DEF Owns
  <1>6. /\ \A w \in Workers : Owns(w)' <=> Owns(w)
        /\ (\E w \in Workers : Owns(w)) => row'.status = row.status /\ row'.live = row.live
    <2>1. row' = row => \A w \in Workers : Owns(w)' <=> Owns(w)
      BY DEF Owns
    <2> QED BY <1>5, <2>1
  <1> QED BY <1>3, <1>4, <1>6, RowKeeps

LEMMA StepRelease ==
    ASSUME IInv, NEW v \in Previews, release(v)
    PROVE  IInv'
  <1>1. /\ \/ row' = row
           \/ Owns(v) /\ row' = [row EXCEPT !.status = "pending", !.claim = None, !.live = FALSE]
        /\ preview' = [preview EXCEPT ![v] = IdlePreview(preview[v].updates)]
        /\ UNCHANGED <<task, item, cards, posts, control, shown, notices, worker, overrun, doubt, faults>>
    BY DEF release, slackVars
  <1>2. row \in Row /\ faults \in 0..MaxFaults
    BY DEF IInv, TypeOK
  <1>3. /\ row' \in Row /\ row'.card = row.card /\ row'.last = row.last
        /\ row' = row \/ (Owns(v) /\ row'.claim \in {None, Gone})
    BY <1>1, <1>2 DEF Row, Claims
  <1> QED BY <1>1, <1>2, <1>3, PreviewLeaves

LEMMA StepPreviewCrash ==
    ASSUME IInv, NEW v \in Previews, PreviewCrash(v)
    PROVE  IInv'
  <1>1. /\ row' = row \/ (Owns(v) /\ row' = [row EXCEPT !.claim = Gone])
        /\ preview' = [preview EXCEPT ![v] = IdlePreview(preview[v].updates)]
        /\ UNCHANGED <<task, item, cards, posts, control, shown, notices, worker, overrun, doubt>>
        /\ Fault
    BY DEF PreviewCrash, slackVars
  <1>2. row \in Row /\ faults \in 0..MaxFaults
    BY DEF IInv, TypeOK
  <1>3. /\ row' \in Row /\ row'.card = row.card /\ row'.last = row.last
        /\ row' = row \/ (Owns(v) /\ row'.claim \in {None, Gone})
    BY <1>1, <1>2 DEF Row, Claims
  <1>4. faults' \in 0..MaxFaults
    BY <1>1, <1>2, ProjectionAssumption DEF Fault
  <1> QED BY <1>1, <1>3, <1>4, PreviewLeaves

----
\* The invariant

LEMMA InitInv == Init => IInv
  <1> SUFFICES ASSUME Init PROVE IInv
    OBVIOUS
  <1>1. /\ task \in TaskView /\ task.version = 1 /\ task.state = "SUBMITTED" /\ task.pending = {}
        /\ task.said = 0
    <2>1. task = [NoView EXCEPT !.version = 1] /\ NoView \in TaskView
      BY NoViewIs DEF Init
    <2>2. NoView.state = "SUBMITTED" /\ NoView.pending = {} /\ NoView.said = 0
      BY DEF NoView
    <2> QED BY <2>1, <2>2 DEF TaskView
  <1>2. /\ row \in Row /\ row.card = 0 /\ row.last = "NULL" /\ row.claim = None
    BY DEF Init, Row, Claims
  <1>3. /\ item \in [Items -> Receipt]
        /\ \A i \in Items : item[i].status = "failed" /\ item[i].claim = None
    BY DEF Init, Receipt, Claims
  <1>4. cards = <<>> /\ cards \in Seq({"working", "draft", "stopped"}) /\ Len(cards) = 0
    BY DEF Init
  <1>5. worker \in [Workers -> Worker] /\ \A w \in Workers : worker[w] = IdleWorker
    BY IdleIs DEF Init
  <1>6. preview \in [Previews -> Preview] /\ \A v \in Previews : preview[v].pc = "idle"
    BY ProjectionAssumption DEF Init, IdlePreview, Preview
  <1>7. /\ posts \in [Items -> Nat] /\ \A i \in Items : posts[i] = 0
        /\ control \in [Reqs -> {"none", "open", "closed"}] /\ \A q \in Reqs : control[q] = "none"
        /\ shown = 0 /\ notices = FALSE /\ overrun = FALSE /\ doubt = FALSE /\ faults = 0
    BY DEF Init
  <1>8. TypeOK
    <2>1. row.card <= Len(cards) /\ faults \in 0..MaxFaults
      BY <1>2, <1>4, <1>7, ProjectionAssumption
    <2> QED BY <1>1, <1>2, <1>3, <1>4, <1>5, <1>6, <1>7, <2>1 DEF TypeOK
  <1>9. TaskInv
    BY <1>1, <1>2, <1>7 DEF TaskInv
  <1>10. ASSUME NEW w \in Workers
         PROVE  ViewInv(w) /\ TodoInv(w) /\ HoldInv(w) /\ LeaseInv(w)
    <2>1. /\ worker[w].pc = "idle" /\ worker[w].view = NoView /\ worker[w].last = "NULL"
          /\ worker[w].card = 0
      BY <1>5 DEF IdleWorker
    <2>2. ViewInv(w) /\ TodoInv(w) /\ HoldInv(w)
      BY <2>1 DEF ViewInv, TodoInv, HoldInv, Reading, Posting, Ending
    <2>3. LeaseInv(w)
      BY <1>2, <1>4, <2>1, ProjectionAssumption DEF LeaseInv, Owns, Busy, Reading, Posting, Ending
    <2> QED BY <2>2, <2>3
  <1>11. \A i \in Items : ItemInv(i)
    BY <1>3, <1>7 DEF ItemInv
  <1>12. \A q \in Reqs : ControlInv(q)
    BY <1>7 DEF ControlInv
  <1>13. \A v \in Previews : PreviewInv(v)
    BY <1>6 DEF PreviewInv
  <1>14. CardInv /\ EndInv
    BY <1>1, <1>4 DEF CardInv, EndInv
  <1> QED BY <1>8, <1>9, <1>10, <1>11, <1>12, <1>13, <1>14 DEF IInv

LEMMA StepInv == IInv /\ [Next]_vars => IInv'
  <1> SUFFICES ASSUME IInv, [Next]_vars PROVE IInv'
    OBVIOUS
  <1>1. CASE UNCHANGED vars
    BY <1>1 DEF vars, IInv, TypeOK, TaskInv, ViewInv, TodoInv, Wanted, HoldInv, LeaseInv, Owns,
           ItemInv, Unrecorded, ControlInv, PreviewInv, CardInv, has_human_input_receipt,
           EndInv, Retries, Final, AllShown
  <1>2. CASE TaskChanges
    BY <1>2, StepTask
  <1>3. CASE ensure_projection
    BY <1>3, StepEnsure
  <1>4. CASE RowExpires
    BY <1>4, StepRowExpires
  <1>5. ASSUME NEW i \in Items, ItemExpires(i) PROVE IInv'
    BY <1>5, StepItemExpires
  <1>6. ASSUME NEW w \in Workers, Take(w) \/ Step(w) \/ Crash(w) PROVE IInv'
    <2>1. CASE Step(w)
      BY <2>1, StepClaim, StepRead, StepStart, StepRecord, StepClaimItem, StepPost, StepFinishItem,
         StepFailItem, StepClose, StepStopStream, StepMark, StepFinish, StepFallback DEF Step
    <2> QED BY <1>6, <2>1, StepTake, StepCrash
  <1>7. ASSUME NEW v \in Previews, observe(v) \/ PreviewStep(v) \/ PreviewCrash(v) PROVE IInv'
    BY <1>7, StepObserve, StepPreviewClaim, StepUpdate, StepRelease, StepPreviewCrash
       DEF PreviewStep
  <1> QED BY <1>1, <1>2, <1>3, <1>4, <1>5, <1>6, <1>7 DEF Next

\* Every step of a projector, a preview worker, the task or a lease keeps the invariant.
THEOREM ProjectionInvariant == Spec => []IInv
  BY InitInv, StepInv, PTL DEF Spec

\* The variables keep their types; above all, the card on record was started.
THEOREM ProjectionTypeCorrect == Spec => []TypeOK
  <1>1. IInv => TypeOK
    BY DEF IInv
  <1> QED BY <1>1, ProjectionInvariant, PTL

\* Whatever fails, is delivered twice or runs at the same time, nothing is posted twice
\* and no second card is started, unless an outcome was lost or a lease overrun.
THEOREM PostedAtMostOnce == Spec => []PostedOnce
  <1>1. IInv => PostedOnce
    <2> SUFFICES ASSUME IInv, ~doubt
                 PROVE  (\A i \in Items : posts[i] <= 1) /\ (overrun \/ Len(cards) <= 1)
      BY DEF PostedOnce
    <2>1. ASSUME NEW i \in Items PROVE posts[i] <= 1
      <3>1. ItemInv(i) /\ item[i] \in Receipt
        BY DEF IInv, TypeOK
      <3> QED BY <3>1 DEF ItemInv, Receipt
    <2>2. overrun \/ Len(cards) <= 1
      BY DEF IInv, CardInv
    <2> QED BY <2>1, <2>2
  <1> QED BY <1>1, ProjectionInvariant, PTL

\* No delivery replaces the status of a newer state of the task by an older one, unless
\* it was slower than its lease.
THEOREM StatusNeverStale == Spec => NoStaleStatus
  <1>1. ASSUME IInv, Next PROVE overrun \/ shown' >= shown
    <2>1. shown \in Nat
      BY <1>1 DEF IInv, TypeOK
    <2>2. ASSUME NEW w \in Workers, mark_projection(w), ~overrun PROVE shown' >= shown
      <3>1. /\ worker[w].pc = "status" /\ worker[w].pc \in Busy /\ worker[w].pc \in Reading
            /\ shown' = worker[w].view.version \/ shown' = shown
        BY <2>2 DEF mark_projection, Busy, Reading, Ending
      <3>2. shown <= worker[w].view.version /\ worker[w].view.version \in Nat
        BY <1>1, <2>2, <3>1 DEF IInv, LeaseInv, TypeOK, Worker, TaskView
      <3> QED BY <2>1, <3>1, <3>2
    <2>3. ASSUME NEW w \in Workers, Step(w) PROVE mark_projection(w) \/ shown' = shown
      BY <2>3 DEF Step, claim_task_stream, get_task, start_stream, update_stream_message, claim_item,
         Post, finish_item, FailItem, close_human_input, stop_stream, finish_stream,
         FinishFallback, slackVars
    <2>4. ASSUME NEW w \in Workers, Take(w) \/ Crash(w) PROVE shown' = shown
      BY <2>4 DEF Take, Crash, slackVars
    <2>5. TaskChanges \/ ensure_projection \/ RowExpires => shown' = shown
      BY DEF TaskChanges, Change, ensure_projection, RowExpires, slackVars
    <2>6. ASSUME NEW i \in Items, ItemExpires(i) PROVE shown' = shown
      BY <2>6 DEF ItemExpires, slackVars
    <2>7. ASSUME NEW v \in Previews, observe(v) \/ PreviewStep(v) \/ PreviewCrash(v)
          PROVE  shown' = shown
      BY <2>7 DEF observe, PreviewStep, claim, update, release, PreviewCrash, slackVars
    <2> QED BY <1>1, <2>1, <2>2, <2>3, <2>4, <2>5, <2>6, <2>7 DEF Next
  <1>2. IInv /\ [Next]_vars => [overrun \/ shown' >= shown]_shown
    BY <1>1 DEF vars
  <1> QED BY <1>2, ProjectionInvariant, PTL DEF Spec, NoStaleStatus

\* When every event was delivered and handled, a finished task is in Slack as far as its
\* outcomes are known, whatever failed or died on the way.
THEOREM AnswerAlwaysShown == Spec => []AnswerShown
  <1>1. IInv => AnswerShown
    <2> SUFFICES ASSUME IInv, task.state = "COMPLETED", ~notices,
                        \A w \in Workers : worker[w].pc = "idle"
                 PROVE  AllShown
      BY DEF AnswerShown
    <2>1. ~Retries /\ \A w \in Workers : ~Final(w)
      BY DEF Retries, Final, Reading, Posting, Ending
    <2> QED BY <2>1 DEF IInv, EndInv
  <1> QED BY <1>1, ProjectionInvariant, PTL

====
