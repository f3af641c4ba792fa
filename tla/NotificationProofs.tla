---- MODULE NotificationProofs ----
\* Proofs about what a client is told of a task: by push (PushDelivery), for every set
\* of rows and workers and every bound, and by a subscription (TaskView), for any number
\* of tasks, messages and subscribers.
EXTENDS PushDelivery, TaskView, FiniteSetTheorems, SequenceTheorems, TLAPS

----
\* PushDelivery: the inductive invariant

\* What a worker that still owns its row knows of it: the attempts and the
\* delivered version are the ones that it read, its view is at least as new as
\* the delivered one, and an accepted view was received.
OwnerKnows(w) ==
    LET r == loc[w].row IN
    (loc[w].pc \in Holding /\ Owns(w)) =>
        /\ ~row[r].failed
        /\ loc[w].pc \in {"view", "recheck", "post", "finish"} =>
               /\ loc[w].tries = row[r].attempts
               /\ loc[w].last[r] = row[r].delivered
        /\ loc[w].pc \in {"recheck", "post", "finish"} =>
               /\ row[r].delivered <= loc[w].seen
               /\ loc[w].seen <= version[r]
        /\ loc[w].pc = "recheck" => loc[w].answer = "transient"
        /\ (loc[w].pc = "finish" /\ loc[w].answer = "ok") =>
               loc[w].seen \in received[r]

PushInv ==
    /\ TypeOK
    /\ DeliveredWasReceived
    /\ AttemptsBounded
    /\ \A r \in Rows : row[r].delivered <= version[r]
    /\ \A w \in Workers : OwnerKnows(w)

----
\* Types

\* The initial state has the types.
LEMMA PushTypeInit == Init => TypeOK
  <1> SUFFICES ASSUME Init PROVE TypeOK
    OBVIOUS
  <1>1. NoRow \in PushRow
    BY DEF NoRow, PushRow
  <1>2. IdlePush \in PushLocal /\ IdlePush.pc = "idle"
    BY DEF IdlePush, PushLocal, PushPcs, Answers
  <1> QED BY <1>1, <1>2 DEF Init, TypeOK, Queue, Holding

\* A worker's local record may be replaced by one of the same type that has a
\* row where it needs one.
LEMMA PushLocalType ==
    ASSUME TypeOK, NEW w \in Workers, NEW l \in PushLocal,
           l.pc \in Holding \cup {"claim", "busy"} => l.row \in Rows,
           loc' = [loc EXCEPT ![w] = l]
    PROVE  /\ loc' \in [Workers -> PushLocal]
           /\ \A v \in Workers :
                loc'[v].pc \in Holding \cup {"claim", "busy"} => loc'[v].row \in Rows
  BY DEF TypeOK

\* A move from a point with a row in hand to another one.
LEMMA PushGotoType ==
    ASSUME TypeOK, NEW w \in Workers, NEW p \in Holding \cup {"busy"},
           loc[w].pc \in Holding \cup {"claim", "busy"}, Goto(w, p)
    PROVE  /\ loc' \in [Workers -> PushLocal]
           /\ \A v \in Workers :
                loc'[v].pc \in Holding \cup {"claim", "busy"} => loc'[v].row \in Rows
  <1> DEFINE l == [loc[w] EXCEPT !.pc = p]
  <1>1. l \in PushLocal /\ l.row \in Rows
    BY DEF TypeOK, PushLocal, PushPcs
  <1>2. loc' = [loc EXCEPT ![w] = l]
    BY DEF Goto
  <1> HIDE DEF l
  <1> QED BY <1>1, <1>2, PushLocalType

\* The end of _deliver().
LEMMA PushReturnType ==
    ASSUME TypeOK, NEW w \in Workers, NEW b \in BOOLEAN, Return(w, b)
    PROVE  /\ loc' \in [Workers -> PushLocal]
           /\ \A v \in Workers :
                loc'[v].pc \in Holding \cup {"claim", "busy"} => loc'[v].row \in Rows
  <1> DEFINE l == [IdlePush EXCEPT
           !.pc = "next", !.todo = loc[w].todo, !.last = loc[w].last,
           !.retry = loc[w].retry \/ b]
  <1>0. loc[w] \in PushLocal
    BY DEF TypeOK
  <1>1. l.pc = "next"
    BY DEF IdlePush
  <1>2. (loc[w].retry \/ b) \in BOOLEAN
    BY <1>0 DEF PushLocal
  <1>3. l \in PushLocal
    BY <1>0, <1>2 DEF PushLocal, IdlePush, PushPcs, Answers
  <1>4. loc' = [loc EXCEPT ![w] = l]
    BY DEF Return
  <1> HIDE DEF l
  <1> QED BY <1>1, <1>3, <1>4, PushLocalType DEF Holding

\* A run that ends or dies.
LEMMA PushIdleType ==
    ASSUME TypeOK, NEW w \in Workers, loc' = [loc EXCEPT ![w] = IdlePush]
    PROVE  /\ loc' \in [Workers -> PushLocal]
           /\ \A v \in Workers :
                loc'[v].pc \in Holding \cup {"claim", "busy"} => loc'[v].row \in Rows
  <1>1. IdlePush \in PushLocal /\ IdlePush.pc = "idle"
    BY DEF IdlePush, PushLocal, PushPcs, Answers
  <1> QED BY <1>1, PushLocalType DEF Holding

\* One more wakeup keeps the queue's type.
LEMMA PushWakeupType ==
    ASSUME TypeOK
    PROVE  Wakeup \in Queue /\ [Wakeup EXCEPT !.unsent = FALSE] \in Queue
  BY DEF TypeOK, Wakeup, Queue

\* release() keeps the rows' type.
LEMMA PushReleasedType ==
    ASSUME TypeOK, NEW w \in Workers
    PROVE  Released(w) \in [Rows -> PushRow]
  BY ZenonT(60) DEF TypeOK, Released, PushRow

\* finish() leaves a row.
LEMMA PushFinishedType ==
    ASSUME TypeOK, NEW w \in Workers, At(w, "finish")
    PROVE  Finished(w) \in PushRow
  <1>1. row[loc[w].row] \in PushRow /\ loc[w].seen \in Nat
    BY DEF TypeOK, At, Holding, PushLocal
  <1>2. row[loc[w].row].attempts + 1 \in Nat
    BY <1>1 DEF PushRow
  <1> QED BY <1>1, <1>2 DEF Finished, PushRow

\* Changes, wakeups and time keep the types.
LEMMA PushTypeEnv ==
    ASSUME TypeOK,
           \/ \E r \in Rows : \/ Advance(r) \/ Create(r) \/ Delete(r) \/ ResetDelivery(r)
                              \/ BackoffEnds(r) \/ LeaseExpires(r)
           \/ ScheduleContext \/ LoseWakeup \/ WakeAgain
    PROVE  TypeOK'
  <1>1. ASSUME NEW r \in Rows, Advance(r) PROVE TypeOK'
    <2>1. version[r] + 1 \in Nat
      BY DEF TypeOK
    <2>2. queue' \in Queue
      BY <1>1 DEF TypeOK, Advance, Queue
    <2> QED BY <1>1, <2>1, <2>2 DEF TypeOK, Advance
  <1>2. ASSUME NEW r \in Rows, Create(r) PROVE TypeOK'
    BY <1>2 DEF TypeOK, Create, Queue, PushRow
  <1>3. ASSUME NEW r \in Rows, Delete(r) PROVE TypeOK'
    BY <1>3 DEF TypeOK, Delete, PushRow
  <1>4. ASSUME NEW r \in Rows, ResetDelivery(r) PROVE TypeOK'
    <2>0. faults \in Nat /\ faults' = faults + 1
      BY <1>4 DEF TypeOK, ResetDelivery
    <2>1. faults' \in Nat
      BY <2>0
    <2>2. queue' \in Queue
      BY <1>4 DEF TypeOK, ResetDelivery, Queue
    <2>3. row' \in [Rows -> PushRow]
      BY <1>4, ZenonT(60) DEF TypeOK, ResetDelivery, PushRow
    <2> QED BY <1>4, <2>1, <2>2, <2>3 DEF TypeOK, ResetDelivery
  <1>5. ASSUME NEW r \in Rows, BackoffEnds(r) PROVE TypeOK'
    BY <1>5, ZenonT(60) DEF TypeOK, BackoffEnds, PushRow
  <1>6. ASSUME NEW r \in Rows, LeaseExpires(r) PROVE TypeOK'
    <2>1. faults' \in Nat
      BY <1>6 DEF TypeOK, LeaseExpires
    <2>2. row' \in [Rows -> PushRow]
      BY <1>6, ZenonT(60) DEF TypeOK, LeaseExpires, PushRow
    <2> QED BY <1>6, <2>1, <2>2 DEF TypeOK, LeaseExpires
  <1>7. CASE ScheduleContext
    BY <1>7, PushWakeupType DEF TypeOK, ScheduleContext
  <1>8. CASE LoseWakeup
    <2>1. faults' \in Nat
      BY <1>8 DEF TypeOK, LoseWakeup
    <2>2. queue' \in Queue
      BY <1>8 DEF TypeOK, LoseWakeup, Queue
    <2> QED BY <1>8, <2>1, <2>2 DEF TypeOK, LoseWakeup
  <1>9. CASE WakeAgain
    BY <1>9, PushWakeupType DEF TypeOK, WakeAgain
  <1> QED BY <1>1, <1>2, <1>3, <1>4, <1>5, <1>6, <1>7, <1>8, <1>9

\* A run keeps the types.
LEMMA PushTypeRun ==
    ASSUME TypeOK, NEW w \in Workers, Receive(w) \/ Step(w) \/ Raise(w) \/ Crash(w)
    PROVE  TypeOK'
  <1>0. loc[w] \in PushLocal
    BY DEF TypeOK
  <1>1. CASE Receive(w)
    <2> DEFINE l == [IdlePush EXCEPT
             !.pc = "next",
             !.todo = {r \in Rows : row[r].state = "live" /\ ~row[r].failed},
             !.last = [r \in Rows |-> row[r].delivered]]
    <2>1. \A r \in Rows : row[r].delivered \in Nat
      BY DEF TypeOK, PushRow
    <2>2. l \in PushLocal /\ l.pc = "next"
      BY <2>1 DEF PushLocal, IdlePush, PushPcs, Answers
    <2>3. loc' = [loc EXCEPT ![w] = l] /\ queue' \in Queue
      BY <1>1 DEF Receive, TypeOK, Queue
    <2> HIDE DEF l
    <2> QED BY <1>1, <2>2, <2>3, PushLocalType DEF Receive, TypeOK, Holding
  <1>2. CASE SkipSettled(w)
    <2>1. PICK r \in loc[w].todo : loc' = [loc EXCEPT ![w].todo = loc[w].todo \ {r}]
      BY <1>2 DEF SkipSettled
    <2> DEFINE l == [loc[w] EXCEPT !.todo = loc[w].todo \ {r}]
    <2>2. l \in PushLocal /\ l.pc = "next"
      BY <1>0, <1>2 DEF PushLocal, SkipSettled, At
    <2>3. loc' = [loc EXCEPT ![w] = l]
      BY <2>1
    <2> HIDE DEF l
    <2> QED BY <1>2, <2>2, <2>3, PushLocalType DEF SkipSettled, TypeOK, Holding
  <1>3. CASE NextRow(w)
    <2>1. PICK r \in loc[w].todo :
              loc' = [loc EXCEPT ![w] = [loc[w] EXCEPT
                  !.pc = "claim", !.row = r, !.todo = loc[w].todo \ {r}]]
      BY <1>3 DEF NextRow
    <2> DEFINE l == [loc[w] EXCEPT !.pc = "claim", !.row = r, !.todo = loc[w].todo \ {r}]
    <2>2. l \in PushLocal /\ l.row \in Rows
      BY <1>0 DEF PushLocal, PushPcs
    <2>3. loc' = [loc EXCEPT ![w] = l]
      BY <2>1
    <2> HIDE DEF l
    <2> QED BY <1>3, <2>2, <2>3, PushLocalType DEF NextRow, TypeOK
  <1>4. CASE Claim(w)
    <2>1. \E p \in {"read", "busy"} : Goto(w, p)
      BY <1>4 DEF Claim
    <2>2. row' \in [Rows -> PushRow]
      <3>1. loc[w].row \in Rows /\ row[loc[w].row] \in PushRow
        BY <1>4 DEF Claim, TypeOK, At
      <3>2. [row[loc[w].row] EXCEPT !.claim = w, !.lease_live = TRUE] \in PushRow
        BY <3>1 DEF PushRow
      <3>3. \/ row' = row
            \/ row' = [row EXCEPT ![loc[w].row] =
                          [row[loc[w].row] EXCEPT !.claim = w, !.lease_live = TRUE]]
        BY <1>4 DEF Claim
      <3> QED BY <3>1, <3>2, <3>3 DEF TypeOK
    <2> QED BY <1>4, <2>1, <2>2, PushGotoType DEF Claim, TypeOK, At, Holding
  <1>5. CASE Busy(w)
    <2> DEFINE b == row[loc[w].row].state = "live" /\ ~row[loc[w].row].failed
    <2>1. b \in BOOLEAN /\ Return(w, b)
      BY <1>5 DEF Busy
    <2> HIDE DEF b
    <2> QED BY <1>5, <2>1, PushReturnType DEF Busy, TypeOK
  <1>6. CASE ReadRow(w)
    <2>1. CASE row[loc[w].row].state = "live"
      <3> DEFINE l == [loc[w] EXCEPT
               !.pc = "view", !.tries = row[loc[w].row].attempts,
               !.last = [loc[w].last EXCEPT ![loc[w].row] = row[loc[w].row].delivered]]
      <3>1. loc[w].row \in Rows /\ row[loc[w].row] \in PushRow
        BY <1>6 DEF ReadRow, At, TypeOK, Holding
      <3>2. l \in PushLocal /\ l.row \in Rows
        BY <1>0, <3>1 DEF PushLocal, PushPcs, Holding, PushRow
      <3>3. loc' = [loc EXCEPT ![w] = l]
        BY <1>6, <2>1 DEF ReadRow
      <3> HIDE DEF l
      <3> QED BY <1>6, <3>2, <3>3, PushLocalType DEF ReadRow, TypeOK
    <2>2. CASE row[loc[w].row].state # "live"
      BY <1>6, <2>2, PushGotoType DEF ReadRow, At, TypeOK, Holding
    <2> QED BY <2>1, <2>2
  <1>7. CASE ReadView(w)
    <2>1. CASE Goto(w, "release")
      BY <1>7, <2>1, PushGotoType DEF ReadView, At, TypeOK, Holding
    <2>2. ASSUME NEW p \in {"recheck", "finish"},
                 loc' = [loc EXCEPT ![w] = [loc[w] EXCEPT
                     !.pc = p, !.seen = version[loc[w].row], !.answer = "transient"]]
          PROVE  TypeOK'
      <3> DEFINE l == [loc[w] EXCEPT
               !.pc = p, !.seen = version[loc[w].row], !.answer = "transient"]
      <3>1. loc[w].row \in Rows /\ version[loc[w].row] \in Nat
        BY <1>7 DEF ReadView, At, TypeOK, Holding
      <3>2. l \in PushLocal /\ l.row \in Rows
        BY <1>0, <3>1 DEF PushLocal, PushPcs, Holding, Answers
      <3>3. loc' = [loc EXCEPT ![w] = l]
        BY <2>2
      <3> HIDE DEF l
      <3> QED BY <1>7, <3>2, <3>3, PushLocalType DEF ReadView, TypeOK
    <2> QED BY <1>7, <2>1, <2>2 DEF ReadView
  <1>8. CASE Recheck(w)
    <2>1. CASE \E p \in {"post", "finish"} : Goto(w, p)
      BY <1>8, <2>1, PushGotoType DEF Recheck, At, TypeOK, Holding
    <2>2. CASE loc' = [loc EXCEPT ![w] = [loc[w] EXCEPT !.pc = "release", !.retry = TRUE]]
      <3> DEFINE l == [loc[w] EXCEPT !.pc = "release", !.retry = TRUE]
      <3>1. l \in PushLocal /\ l.row \in Rows
        BY <1>0, <1>8 DEF PushLocal, PushPcs, Holding, Recheck, At, TypeOK
      <3>2. loc' = [loc EXCEPT ![w] = l]
        BY <2>2
      <3> HIDE DEF l
      <3> QED BY <1>8, <3>1, <3>2, PushLocalType DEF Recheck, TypeOK
    <2> QED BY <1>8, <2>1, <2>2 DEF Recheck
  <1>9. CASE Post(w)
    <2>1. PICK a \in Answers :
              loc' = [loc EXCEPT ![w] = [loc[w] EXCEPT !.pc = "finish", !.answer = a]]
      BY <1>9 DEF Post
    <2> DEFINE l == [loc[w] EXCEPT !.pc = "finish", !.answer = a]
    <2>2. l \in PushLocal /\ l.row \in Rows
      BY <1>0, <1>9 DEF PushLocal, PushPcs, Holding, Post, At, TypeOK
    <2>3. loc' = [loc EXCEPT ![w] = l]
      BY <2>1
    <2>4. received' \in [Rows -> SUBSET Nat]
      <3>1. loc[w].seen \in Nat
        BY <1>0 DEF PushLocal
      <3> QED BY <1>9, <3>1 DEF Post, TypeOK
    <2> HIDE DEF l
    <2> QED BY <1>9, <2>2, <2>3, <2>4, PushLocalType DEF Post, TypeOK
  <1>10. CASE Finish(w)
    <2> DEFINE l == [loc[w] EXCEPT
             !.pc = "release", !.retry = loc[w].retry \/ ~Owns(w) \/ Again(w)]
    <2>1. (loc[w].retry \/ ~Owns(w) \/ Again(w)) \in BOOLEAN
      BY <1>0 DEF PushLocal
    <2>2. l \in PushLocal /\ l.row \in Rows
      BY <1>0, <1>10, <2>1 DEF PushLocal, PushPcs, Holding, Finish, At, TypeOK
    <2>3. loc' = [loc EXCEPT ![w] = l]
      BY <1>10 DEF Finish
    <2>4. row' \in [Rows -> PushRow]
      BY <1>10, PushFinishedType DEF Finish, TypeOK
    <2> HIDE DEF l
    <2> QED BY <1>10, <2>2, <2>3, <2>4, PushLocalType DEF Finish, TypeOK
  <1>11. CASE Release(w)
    BY <1>11, PushReturnType, PushReleasedType DEF Release, TypeOK
  <1>12. CASE EndRun(w)
    BY <1>12, PushIdleType, PushWakeupType DEF EndRun, TypeOK
  <1>13. CASE Raise(w)
    <2>1. faults' \in Nat
      BY <1>13 DEF Raise, TypeOK
    <2> QED BY <1>13, <2>1, PushIdleType, PushWakeupType, PushReleasedType DEF Raise, TypeOK
  <1>14. CASE Crash(w)
    <2>1. faults' \in Nat
      BY <1>14 DEF Crash, TypeOK
    <2> QED BY <1>14, <2>1, PushIdleType, PushWakeupType DEF Crash, TypeOK
  <1> QED BY <1>1, <1>2, <1>3, <1>4, <1>5, <1>6, <1>7, <1>8, <1>9, <1>10, <1>11,
             <1>12, <1>13, <1>14 DEF Step

\* Every row, wakeup and worker-local value of the push worker stays in its
\* domain, for all of push_dispatcher.py and push_repository.py.
THEOREM PushTypeCorrect == Spec => []TypeOK
  <1>1. TypeOK /\ [Next]_vars => TypeOK'
    <2> SUFFICES ASSUME TypeOK, [Next]_vars PROVE TypeOK'
      OBVIOUS
    <2>1. CASE UNCHANGED vars
      BY <2>1 DEF vars, TypeOK
    <2> QED BY <2>1, PushTypeEnv, PushTypeRun DEF Next
  <1> QED BY <1>1, PushTypeInit, PTL DEF Spec

----
\* What an owner knows

\* A row that worker v owns after the step was its own before, and the step
\* changed nothing of it that v has read.
RowFrame(v) ==
    \A r \in Rows :
        (row'[r].claim = v /\ row'[r].lease_live) =>
            /\ row[r].claim = v
            /\ row[r].lease_live
            /\ row'[r].failed = row[r].failed
            /\ row'[r].attempts = row[r].attempts
            /\ row'[r].delivered = row[r].delivered

\* Views only get newer, and what was received stays received.
HistoryFrame ==
    \A r \in Rows :
        /\ version[r] <= version'[r]
        /\ received[r] \subseteq received'[r]

\* A worker that does not move keeps its knowledge through the steps of others.
LEMMA OwnerFrame ==
    ASSUME TypeOK, TypeOK', NEW v \in Workers, OwnerKnows(v),
           loc'[v] = loc[v], RowFrame(v), HistoryFrame
    PROVE  OwnerKnows(v)'
  <1> SUFFICES ASSUME loc[v].pc \in Holding, Owns(v)' PROVE OwnerKnows(v)'
    BY DEF OwnerKnows
  <1> DEFINE r == loc[v].row
  <1>1. r \in Rows /\ loc[v] \in PushLocal
    BY DEF TypeOK
  <1>2. /\ Owns(v)
        /\ row'[r].failed = row[r].failed
        /\ row'[r].attempts = row[r].attempts
        /\ row'[r].delivered = row[r].delivered
    BY <1>1 DEF Owns, RowFrame
  <1>3. version[r] \in Nat /\ version'[r] \in Nat /\ loc[v].seen \in Nat
    BY <1>1 DEF TypeOK, PushLocal
  <1>4. version[r] <= version'[r] /\ received[r] \subseteq received'[r]
    BY <1>1 DEF HistoryFrame
  <1>5. loc[v].seen <= version[r] => loc[v].seen <= version'[r]
    BY <1>3, <1>4
  <1> QED BY <1>2, <1>4, <1>5 DEF OwnerKnows

\* A step that leaves rows and history alone, seen by the workers that rest.
LEMMA OthersFrame ==
    ASSUME TypeOK, UNCHANGED <<version, row, received>>
    PROVE  HistoryFrame /\ \A v \in Workers : RowFrame(v)
  BY DEF TypeOK, HistoryFrame, RowFrame

\* The environment changes no row that is owned, but for deleting it or ending
\* its lease.
LEMMA EnvFrame ==
    ASSUME TypeOK, NEW v \in Workers,
           \/ \E r \in Rows : \/ Advance(r) \/ Create(r) \/ Delete(r) \/ ResetDelivery(r)
                              \/ BackoffEnds(r) \/ LeaseExpires(r)
           \/ ScheduleContext \/ LoseWakeup \/ WakeAgain
    PROVE  RowFrame(v) /\ HistoryFrame
  <1>1. ASSUME NEW r \in Rows, Advance(r) PROVE RowFrame(v) /\ HistoryFrame
    BY <1>1 DEF TypeOK, Advance, RowFrame, HistoryFrame
  <1>2. ASSUME NEW r \in Rows, Create(r) PROVE RowFrame(v) /\ HistoryFrame
    BY <1>2 DEF TypeOK, Create, RowFrame, HistoryFrame, PushRow
  <1>3. ASSUME NEW r \in Rows, Delete(r) PROVE RowFrame(v) /\ HistoryFrame
    BY <1>3 DEF TypeOK, Delete, RowFrame, HistoryFrame, PushRow
  <1>4. ASSUME NEW r \in Rows, ResetDelivery(r) PROVE RowFrame(v) /\ HistoryFrame
    <2>0. UNCHANGED <<version, received>>
      BY <1>4 DEF ResetDelivery
    <2>1. HistoryFrame
      BY <2>0 DEF TypeOK, HistoryFrame
    <2>2. row'[r].lease_live = FALSE /\ \A q \in Rows : q # r => row'[q] = row[q]
      BY <1>4 DEF TypeOK, ResetDelivery, PushRow
    <2> QED BY <2>1, <2>2 DEF RowFrame
  <1>5. ASSUME NEW r \in Rows, BackoffEnds(r) PROVE RowFrame(v) /\ HistoryFrame
    BY <1>5 DEF TypeOK, BackoffEnds, RowFrame, HistoryFrame, PushRow
  <1>6. ASSUME NEW r \in Rows, LeaseExpires(r) PROVE RowFrame(v) /\ HistoryFrame
    <2>0. row' = [row EXCEPT ![r].lease_live = FALSE]
      BY <1>6 DEF LeaseExpires
    <2>1. row'[r].lease_live = FALSE /\ \A q \in Rows : q # r => row'[q] = row[q]
      BY <2>0 DEF TypeOK, PushRow
    <2>2. HistoryFrame
      BY <1>6 DEF TypeOK, LeaseExpires, HistoryFrame
    <2> QED BY <2>1, <2>2 DEF RowFrame
  <1>7. CASE ScheduleContext \/ LoseWakeup \/ WakeAgain
    BY <1>7, OthersFrame DEF ScheduleContext, LoseWakeup, WakeAgain
  <1> QED BY <1>1, <1>2, <1>3, <1>4, <1>5, <1>6, <1>7

\* release() takes a row from nobody else.
LEMMA ReleasedFrame ==
    ASSUME TypeOK, NEW w \in Workers, NEW v \in Workers, row' = Released(w)
    PROVE  /\ RowFrame(v)
           /\ \A r \in Rows : /\ row'[r].delivered = row[r].delivered
                              /\ row'[r].attempts = row[r].attempts
                              /\ row'[r].failed = row[r].failed
  <1>1. CASE row' = row
    BY <1>1 DEF RowFrame
  <1>2. CASE /\ loc[w].pc \in Holding
             /\ row' = [row EXCEPT ![loc[w].row] =
                           [row[loc[w].row] EXCEPT !.claim = None, !.lease_live = FALSE]]
    <2>1. loc[w].row \in Rows /\ row[loc[w].row] \in PushRow
      BY <1>2 DEF TypeOK
    <2>2. /\ row'[loc[w].row].lease_live = FALSE
          /\ row'[loc[w].row].delivered = row[loc[w].row].delivered
          /\ row'[loc[w].row].attempts = row[loc[w].row].attempts
          /\ row'[loc[w].row].failed = row[loc[w].row].failed
          /\ \A q \in Rows : q # loc[w].row => row'[q] = row[q]
      BY <1>2, <2>1 DEF TypeOK, PushRow
    <2> QED BY <2>1, <2>2 DEF RowFrame
  <1> QED BY <1>1, <1>2 DEF Released

\* finish() takes a row from nobody else.
LEMMA FinishFrame ==
    ASSUME TypeOK, NEW w \in Workers, NEW v \in Workers, v # w, Finish(w)
    PROVE  RowFrame(v) /\ HistoryFrame
  <1>1. HistoryFrame
    BY DEF Finish, TypeOK, HistoryFrame
  <1>2. CASE ~Owns(w)
    BY <1>1, <1>2 DEF Finish, RowFrame
  <1>3. CASE Owns(w)
    <2>1. loc[w].row \in Rows /\ row[loc[w].row] \in PushRow
      BY DEF TypeOK, Finish, At, Holding
    <2>2. Finished(w).claim = None
      BY <2>1 DEF Finished, PushRow
    <2>3. row'[loc[w].row].claim = None /\ \A q \in Rows : q # loc[w].row => row'[q] = row[q]
      BY <1>3, <2>1, <2>2 DEF TypeOK, Finish
    <2>4. v # None
      BY PushNone
    <2> QED BY <1>1, <2>3, <2>4 DEF RowFrame
  <1> QED BY <1>2, <1>3

\* claim() takes a row from nobody who owns it.
LEMMA ClaimFrame ==
    ASSUME TypeOK, NEW w \in Workers, NEW v \in Workers, v # w, Claim(w)
    PROVE  RowFrame(v) /\ HistoryFrame
  <1>1. HistoryFrame
    BY DEF Claim, TypeOK, HistoryFrame
  <1>2. CASE row' = row
    BY <1>1, <1>2 DEF RowFrame
  <1>3. CASE row' = [row EXCEPT ![loc[w].row] =
                        [row[loc[w].row] EXCEPT !.claim = w, !.lease_live = TRUE]]
    <2>1. loc[w].row \in Rows /\ row[loc[w].row] \in PushRow
      BY DEF TypeOK, Claim, At
    <2>2. row'[loc[w].row].claim = w /\ \A q \in Rows : q # loc[w].row => row'[q] = row[q]
      BY <1>3, <2>1 DEF TypeOK, PushRow
    <2> QED BY <1>1, <2>2 DEF RowFrame
  <1> QED BY <1>2, <1>3 DEF Claim

----
\* The invariant is inductive

\* It holds initially.
LEMMA PushInvInit == Init => PushInv
  <1> SUFFICES ASSUME Init PROVE PushInv
    OBVIOUS
  <1>1. TypeOK
    BY PushTypeInit
  <1>2. \A r \in Rows : row[r] = NoRow /\ version[r] = 1
    BY DEF Init
  <1>3. DeliveredWasReceived /\ AttemptsBounded /\ \A r \in Rows : row[r].delivered <= version[r]
    BY <1>2, PushBounds DEF DeliveredWasReceived, AttemptsBounded, NoRow
  <1>4. \A w \in Workers : OwnerKnows(w)
    BY DEF Init, IdlePush, OwnerKnows, Holding
  <1> QED BY <1>1, <1>3, <1>4 DEF PushInv

\* No delivered version goes back in the step.
NoneGoesBack == \A r \in Rows : row[r].delivered <= row'[r].delivered

\* A step that keeps what the rows say of deliveries keeps the three facts about
\* rows.
LEMMA RowFacts ==
    ASSUME PushInv, TypeOK', HistoryFrame,
           \A r \in Rows : /\ row'[r].delivered = row[r].delivered
                           /\ \/ /\ row'[r].attempts = row[r].attempts
                                 /\ row'[r].failed = row[r].failed
                              \/ row'[r].attempts = 0
    PROVE  /\ DeliveredWasReceived'
           /\ AttemptsBounded'
           /\ \A r \in Rows : row'[r].delivered <= version'[r]
           /\ NoneGoesBack
  <1>0. NoneGoesBack
    BY DEF PushInv, TypeOK, PushRow, NoneGoesBack
  <1>1. DeliveredWasReceived'
    BY DEF PushInv, DeliveredWasReceived, HistoryFrame
  <1>2. AttemptsBounded'
    BY PushBounds DEF PushInv, AttemptsBounded
  <1>3. ASSUME NEW r \in Rows PROVE row'[r].delivered <= version'[r]
    <2>1. row[r].delivered \in Nat /\ version[r] \in Nat /\ version'[r] \in Nat
      BY DEF PushInv, TypeOK, PushRow
    <2>2. row[r].delivered <= version[r] /\ version[r] <= version'[r]
      BY DEF PushInv, HistoryFrame
    <2> QED BY <2>1, <2>2
  <1> QED BY <1>0, <1>1, <1>2, <1>3

\* Changes, wakeups and time keep it.
LEMMA PushInvEnv ==
    ASSUME PushInv,
           \/ \E r \in Rows : \/ Advance(r) \/ Create(r) \/ Delete(r) \/ ResetDelivery(r)
                              \/ BackoffEnds(r) \/ LeaseExpires(r)
           \/ ScheduleContext \/ LoseWakeup \/ WakeAgain
    PROVE  PushInv' /\ NoneGoesBack
  <1>0. TypeOK /\ TypeOK'
    BY PushTypeEnv DEF PushInv
  <1>1. loc' = loc
    BY DEF Advance, Create, Delete, ResetDelivery, BackoffEnds, LeaseExpires,
           ScheduleContext, LoseWakeup, WakeAgain
  <1>2. \A w \in Workers : OwnerKnows(w)'
    BY <1>0, <1>1, EnvFrame, OwnerFrame DEF PushInv
  <1>3. HistoryFrame
    <2>1. CASE \E r \in Rows : Advance(r)
      BY <1>0, <2>1 DEF Advance, HistoryFrame, TypeOK
    <2>2. CASE UNCHANGED <<version, received>>
      BY <1>0, <2>2 DEF HistoryFrame, TypeOK
    <2> QED BY <2>1, <2>2 DEF Create, Delete, ResetDelivery, BackoffEnds, LeaseExpires,
               ScheduleContext, LoseWakeup, WakeAgain
  <1>4. \A r \in Rows : /\ row'[r].delivered = row[r].delivered
                        /\ \/ /\ row'[r].attempts = row[r].attempts
                              /\ row'[r].failed = row[r].failed
                           \/ row'[r].attempts = 0
    <2>1. ASSUME NEW q \in Rows, ResetDelivery(q) PROVE <1>4!:
      <3>1. row' = [row EXCEPT ![q] = [row[q] EXCEPT
                !.failed = FALSE, !.attempts = 0, !.waiting = FALSE,
                !.claim = None, !.lease_live = FALSE]]
        BY <2>1 DEF ResetDelivery
      <3>2. row'[q].delivered = row[q].delivered /\ row'[q].attempts = 0
        BY <1>0, <3>1 DEF TypeOK, PushRow
      <3>3. \A r \in Rows : r # q => row'[r] = row[r]
        BY <1>0, <3>1 DEF TypeOK
      <3> QED BY <3>2, <3>3
    <2>2. ASSUME NEW q \in Rows, LeaseExpires(q) PROVE <1>4!:
      <3>1. row' = [row EXCEPT ![q].lease_live = FALSE]
        BY <2>2 DEF LeaseExpires
      <3> QED BY <1>0, <3>1 DEF TypeOK, PushRow
    <2>3. ASSUME NEW q \in Rows, Create(q) \/ Delete(q) \/ BackoffEnds(q) PROVE <1>4!:
      BY <1>0, <2>3 DEF Create, Delete, BackoffEnds, TypeOK, PushRow
    <2>4. CASE row' = row
      BY <2>4
    <2> QED BY <2>1, <2>2, <2>3, <2>4 DEF Advance, ScheduleContext, LoseWakeup, WakeAgain
  <1> QED BY <1>0, <1>2, <1>3, <1>4, RowFacts DEF PushInv

\* Only the worker that moves has something to show.
LEMMA OwnerStep ==
    ASSUME PushInv, TypeOK', NEW w \in Workers, NEW l, loc' = [loc EXCEPT ![w] = l],
           HistoryFrame, \A v \in Workers \ {w} : RowFrame(v), OwnerKnows(w)'
    PROVE  \A v \in Workers : OwnerKnows(v)'
  <1> SUFFICES ASSUME NEW v \in Workers, v # w PROVE OwnerKnows(v)'
    OBVIOUS
  <1>1. loc'[v] = loc[v]
    BY DEF PushInv, TypeOK
  <1> QED BY <1>1, OwnerFrame DEF PushInv

\* A worker outside claim() and release() knows nothing yet.
LEMMA NotHolding ==
    ASSUME NEW w \in Workers, loc'[w].pc \notin Holding
    PROVE  OwnerKnows(w)'
  BY DEF OwnerKnows

\* A run up to its claim keeps it: listing, choosing a row, giving up on it, the
\* end of the run, and its faults.
LEMMA PushInvLoop ==
    ASSUME PushInv, NEW w \in Workers,
           \/ Receive(w) \/ SkipSettled(w) \/ NextRow(w) \/ Busy(w) \/ Release(w)
           \/ EndRun(w) \/ Raise(w) \/ Crash(w)
    PROVE  PushInv' /\ NoneGoesBack
  <1>0. TypeOK /\ TypeOK'
    BY PushTypeRun DEF PushInv, Step
  <1>1. PICK l : loc' = [loc EXCEPT ![w] = l] /\ l.pc \notin Holding
    <2>1. CASE Receive(w)
      <3> DEFINE l == [IdlePush EXCEPT
               !.pc = "next",
               !.todo = {r \in Rows : row[r].state = "live" /\ ~row[r].failed},
               !.last = [r \in Rows |-> row[r].delivered]]
      <3>1. l.pc = "next"
        BY DEF IdlePush
      <3>2. loc' = [loc EXCEPT ![w] = l]
        BY <2>1 DEF Receive
      <3> HIDE DEF l
      <3> QED BY <3>1, <3>2 DEF Holding
    <2>2. CASE SkipSettled(w)
      <3>1. PICK r \in loc[w].todo : loc' = [loc EXCEPT ![w].todo = loc[w].todo \ {r}]
        BY <2>2 DEF SkipSettled
      <3>2. [loc[w] EXCEPT !.todo = loc[w].todo \ {r}].pc = "next"
        BY <1>0, <2>2 DEF SkipSettled, At, TypeOK, PushLocal
      <3> QED BY <3>1, <3>2 DEF Holding
    <2>3. CASE NextRow(w)
      <3>1. PICK r \in loc[w].todo :
                loc' = [loc EXCEPT ![w] = [loc[w] EXCEPT
                    !.pc = "claim", !.row = r, !.todo = loc[w].todo \ {r}]]
        BY <2>3 DEF NextRow
      <3>2. [loc[w] EXCEPT !.pc = "claim", !.row = r, !.todo = loc[w].todo \ {r}].pc = "claim"
        BY <1>0 DEF TypeOK, PushLocal
      <3> QED BY <3>1, <3>2 DEF Holding
    <2>4. CASE Busy(w) \/ Release(w)
      <3>1. PICK b : Return(w, b)
        BY <2>4 DEF Busy, Release
      <3> DEFINE l == [IdlePush EXCEPT
               !.pc = "next", !.todo = loc[w].todo, !.last = loc[w].last,
               !.retry = loc[w].retry \/ b]
      <3>2. l.pc = "next"
        BY DEF IdlePush
      <3>3. loc' = [loc EXCEPT ![w] = l]
        BY <3>1 DEF Return
      <3> HIDE DEF l
      <3> QED BY <3>2, <3>3 DEF Holding
    <2>5. CASE EndRun(w) \/ Raise(w) \/ Crash(w)
      <3>1. IdlePush.pc = "idle"
        BY DEF IdlePush
      <3>2. loc' = [loc EXCEPT ![w] = IdlePush]
        BY <2>5 DEF EndRun, Raise, Crash
      <3> QED BY <3>1, <3>2 DEF Holding
    <2> QED BY <2>1, <2>2, <2>3, <2>4, <2>5
  <1>2. UNCHANGED <<version, received>> /\ (row' = row \/ row' = Released(w))
    BY DEF Receive, SkipSettled, NextRow, Busy, Release, EndRun, Raise, Crash
  <1>3. HistoryFrame
    BY <1>0, <1>2 DEF HistoryFrame, TypeOK
  <1>4. /\ \A v \in Workers : RowFrame(v)
        /\ \A r \in Rows : /\ row'[r].delivered = row[r].delivered
                           /\ row'[r].attempts = row[r].attempts
                           /\ row'[r].failed = row[r].failed
    <2>1. CASE row' = row
      BY <2>1 DEF RowFrame
    <2>2. CASE row' = Released(w)
      BY <1>0, <2>2, ReleasedFrame
    <2> QED BY <1>2, <2>1, <2>2
  <1>5. OwnerKnows(w)'
    BY <1>0, <1>1, NotHolding DEF TypeOK
  <1>6. \A v \in Workers : OwnerKnows(v)'
    BY <1>0, <1>1, <1>3, <1>4, <1>5, OwnerStep
  <1> QED BY <1>0, <1>3, <1>4, <1>6, RowFacts DEF PushInv

\* claim() and what the worker does under it before finish() keep it.
LEMMA PushInvOwner ==
    ASSUME PushInv, NEW w \in Workers,
           Claim(w) \/ ReadRow(w) \/ ReadView(w) \/ Recheck(w) \/ Post(w)
    PROVE  PushInv' /\ NoneGoesBack
  <1>0. TypeOK /\ TypeOK' /\ OwnerKnows(w)
    BY PushTypeRun DEF PushInv, Step
  <1> DEFINE r == loc[w].row
  <1>r. r \in Rows /\ row[r] \in PushRow /\ loc[w] \in PushLocal
    BY <1>0 DEF Claim, ReadRow, ReadView, Recheck, Post, At, TypeOK, Holding
  <1>1. CASE Claim(w)
    <2>1. PICK p \in {"read", "busy"} :
              /\ Goto(w, p)
              /\ \/ p = "busy" /\ row' = row
                 \/ /\ p = "read"
                    /\ ~row[r].failed
                    /\ row' = [row EXCEPT ![r] = [row[r] EXCEPT !.claim = w, !.lease_live = TRUE]]
      BY <1>1 DEF Claim
    <2>2. loc' = [loc EXCEPT ![w] = [loc[w] EXCEPT !.pc = p]]
      BY <2>1 DEF Goto
    <2>3. loc'[w].pc = p /\ loc'[w].row = r
      BY <1>0, <1>r, <2>2 DEF TypeOK, PushLocal
    <2>4. \A v \in Workers \ {w} : RowFrame(v)
      BY <1>0, <1>1, ClaimFrame
    <2>5. HistoryFrame
      <3>1. UNCHANGED <<version, received>>
        BY <1>1 DEF Claim
      <3> QED BY <1>0, <3>1 DEF TypeOK, HistoryFrame
    <2>6. \A q \in Rows : /\ row'[q].delivered = row[q].delivered
                          /\ row'[q].attempts = row[q].attempts
                          /\ row'[q].failed = row[q].failed
      <3>1. CASE row' = row
        BY <3>1
      <3>2. CASE row' = [row EXCEPT ![r] = [row[r] EXCEPT !.claim = w, !.lease_live = TRUE]]
        <4>1. /\ row'[r].delivered = row[r].delivered
              /\ row'[r].attempts = row[r].attempts
              /\ row'[r].failed = row[r].failed
          BY <1>0, <1>r, <3>2 DEF TypeOK, PushRow
        <4>2. \A q \in Rows : q # r => row'[q] = row[q]
          BY <1>0, <3>2 DEF TypeOK
        <4> QED BY <4>1, <4>2
      <3> QED BY <2>1, <3>1, <3>2
    <2>7. OwnerKnows(w)'
      <3>1. CASE p = "busy"
        BY <2>3, <3>1, NotHolding DEF Holding
      <3>2. CASE p = "read"
        <4>1. ~row'[r].failed
          BY <1>r, <2>1, <2>6, <3>2
        <4> QED BY <2>3, <3>2, <4>1 DEF OwnerKnows
      <3> QED BY <3>1, <3>2
    <2>8. \A v \in Workers : OwnerKnows(v)'
      BY <1>0, <2>2, <2>4, <2>5, <2>7, OwnerStep
    <2> QED BY <1>0, <2>5, <2>6, <2>8, RowFacts DEF PushInv
  <1>2. CASE ReadRow(w) \/ ReadView(w) \/ Recheck(w) \/ Post(w)
    <2>1. row' = row /\ version' = version /\ HistoryFrame
      <3>1. row' = row /\ version' = version
        BY <1>2 DEF ReadRow, ReadView, Recheck, Post
      <3>2. \/ received' = received
            \/ received' = [received EXCEPT ![r] = received[r] \cup {loc[w].seen}]
        BY <1>2 DEF ReadRow, ReadView, Recheck, Post
      <3>3. \A q \in Rows : received[q] \subseteq received'[q]
        BY <1>0, <1>r, <3>2 DEF TypeOK
      <3>4. \A q \in Rows : version[q] <= version'[q]
        BY <1>0, <3>1 DEF TypeOK
      <3> QED BY <3>1, <3>3, <3>4 DEF HistoryFrame
    <2>2. \A v \in Workers : RowFrame(v)
      BY <2>1 DEF RowFrame
    <2>3. PICK l : loc' = [loc EXCEPT ![w] = l]
      BY <1>2 DEF ReadRow, ReadView, Recheck, Post, Goto
    <2>4. OwnerKnows(w)'
      <3>1. CASE Goto(w, "release")
        <4>1. loc'[w] = [loc[w] EXCEPT !.pc = "release"]
          BY <1>0, <3>1 DEF Goto, TypeOK
        <4>2. loc'[w].pc = "release" /\ loc'[w].row = r /\ loc[w].pc \in Holding
          BY <1>2, <1>r, <4>1 DEF PushLocal, ReadRow, ReadView, Recheck, Post, At, Holding
        <4> QED BY <1>0, <2>1, <4>2 DEF OwnerKnows, Owns
      <3>2. CASE ReadRow(w) /\ row[r].state = "live"
        <4>1. loc'[w] = [loc[w] EXCEPT
                  !.pc = "view", !.tries = row[r].attempts,
                  !.last = [loc[w].last EXCEPT ![r] = row[r].delivered]]
          BY <1>0, <3>2 DEF ReadRow, TypeOK
        <4>2. /\ loc'[w].pc = "view" /\ loc'[w].row = r
              /\ loc'[w].tries = row[r].attempts
              /\ loc'[w].last[r] = row[r].delivered
              /\ loc[w].pc \in Holding
          BY <1>r, <3>2, <4>1 DEF PushLocal, ReadRow, At, Holding
        <4> QED BY <1>0, <2>1, <4>2 DEF OwnerKnows, Owns
      <3>3. ASSUME NEW p \in {"recheck", "finish"}, At(w, "view"),
                   loc' = [loc EXCEPT ![w] = [loc[w] EXCEPT
                       !.pc = p, !.seen = version[r], !.answer = "transient"]]
            PROVE  OwnerKnows(w)'
        <4>1. loc'[w] = [loc[w] EXCEPT
                  !.pc = p, !.seen = version[r], !.answer = "transient"]
          BY <1>0, <3>3 DEF TypeOK
        <4>2. /\ loc'[w].pc = p /\ loc'[w].row = r
              /\ loc'[w].tries = loc[w].tries
              /\ loc'[w].last = loc[w].last
              /\ loc'[w].seen = version[r]
              /\ loc'[w].answer = "transient"
          BY <1>r, <4>1 DEF PushLocal
        <4>4. loc[w].pc = "view"
          BY <3>3 DEF At
        <4>3. row[r].delivered <= version[r] /\ version[r] <= version[r]
          BY <1>0, <1>r DEF PushInv, TypeOK
        <4> QED BY <1>0, <2>1, <4>2, <4>3, <4>4 DEF OwnerKnows, Owns, Holding
      <3>4. CASE Recheck(w) /\ ~Goto(w, "release")
        <4>1. CASE loc' = [loc EXCEPT ![w] = [loc[w] EXCEPT !.pc = "release", !.retry = TRUE]]
          <5>1. loc'[w] = [loc[w] EXCEPT !.pc = "release", !.retry = TRUE]
            BY <1>0, <4>1 DEF TypeOK
          <5>2. loc'[w].pc = "release" /\ loc'[w].row = r /\ loc[w].pc \in Holding
            BY <1>r, <3>4, <5>1 DEF PushLocal, Recheck, At, Holding
          <5> QED BY <1>0, <2>1, <5>2 DEF OwnerKnows, Owns
        <4>2. ASSUME NEW p \in {"post", "finish"}, Goto(w, p)
              PROVE  OwnerKnows(w)'
          <5>1. loc'[w] = [loc[w] EXCEPT !.pc = p]
            BY <1>0, <4>2 DEF Goto, TypeOK
          <5>2. /\ loc'[w].pc = p /\ loc'[w].row = r
                /\ loc'[w].tries = loc[w].tries
                /\ loc'[w].last = loc[w].last
                /\ loc'[w].seen = loc[w].seen
                /\ loc'[w].answer = loc[w].answer
                /\ loc[w].pc = "recheck"
            BY <1>r, <3>4, <5>1 DEF PushLocal, Recheck, At
          <5> QED BY <1>0, <2>1, <4>2, <5>2 DEF OwnerKnows, Owns, Holding
        <4> QED BY <3>4, <4>1, <4>2 DEF Recheck
      <3>5. CASE Post(w)
        <4>1. PICK a \in Answers :
                /\ loc' = [loc EXCEPT ![w] = [loc[w] EXCEPT !.pc = "finish", !.answer = a]]
                /\ a = "ok" => received' = [received EXCEPT ![r] = received[r] \cup {loc[w].seen}]
          BY <3>5 DEF Post
        <4>2. loc'[w] = [loc[w] EXCEPT !.pc = "finish", !.answer = a]
          BY <1>0, <4>1 DEF TypeOK
        <4>3. /\ loc'[w].pc = "finish" /\ loc'[w].row = r
              /\ loc'[w].tries = loc[w].tries
              /\ loc'[w].last = loc[w].last
              /\ loc'[w].seen = loc[w].seen
              /\ loc'[w].answer = a
              /\ loc[w].pc = "post"
          BY <1>r, <3>5, <4>2 DEF PushLocal, Post, At
        <4>4. a = "ok" => loc[w].seen \in received'[r]
          BY <1>0, <1>r, <4>1 DEF TypeOK
        <4> QED BY <1>0, <2>1, <4>3, <4>4 DEF OwnerKnows, Owns, Holding
      <3> QED BY <1>2, <3>1, <3>2, <3>3, <3>4, <3>5 DEF ReadRow, ReadView
    <2>5. \A v \in Workers : OwnerKnows(v)'
      BY <1>0, <2>1, <2>2, <2>3, <2>4, OwnerStep
    <2> QED BY <1>0, <2>1, <2>5, RowFacts DEF PushInv
  <1> QED BY <1>1, <1>2

\* finish() keeps it: what it stores was received and is no older than what it
\* replaces, and it counts from the attempts that were read.
LEMMA PushInvFinish ==
    ASSUME PushInv, NEW w \in Workers, Finish(w)
    PROVE  PushInv' /\ NoneGoesBack
  <1>0. TypeOK /\ TypeOK' /\ OwnerKnows(w)
    BY PushTypeRun DEF PushInv, Step
  <1> DEFINE r == loc[w].row
  <1>1. r \in Rows /\ row[r] \in PushRow /\ loc[w] \in PushLocal /\ loc[w].pc = "finish"
    BY <1>0 DEF Finish, At, TypeOK, Holding
  <1>2. UNCHANGED <<version, received>>
    BY DEF Finish
  <1>3. HistoryFrame
    BY <1>0, <1>2 DEF TypeOK, HistoryFrame
  <1>4. loc' = [loc EXCEPT ![w] = [loc[w] EXCEPT
            !.pc = "release", !.retry = loc[w].retry \/ ~Owns(w) \/ Again(w)]]
    BY DEF Finish
  <1>5. loc'[w].pc = "release" /\ loc'[w].row = r
    BY <1>0, <1>1, <1>4 DEF TypeOK, PushLocal
  <1>6. \A v \in Workers \ {w} : RowFrame(v)
    BY <1>0, FinishFrame
  <1>7. CASE ~Owns(w)
    <2>1. row' = row
      BY <1>7 DEF Finish
    <2>2. OwnerKnows(w)'
      BY <1>5, <1>7, <2>1 DEF OwnerKnows, Owns
    <2>3. \A v \in Workers : OwnerKnows(v)'
      BY <1>0, <1>3, <1>4, <1>6, <2>2, OwnerStep
    <2> QED BY <1>0, <1>3, <2>1, <2>3, RowFacts DEF PushInv
  <1>8. CASE Owns(w)
    <2>1. row'[r] = Finished(w) /\ \A q \in Rows : q # r => row'[q] = row[q]
      BY <1>0, <1>1, <1>8 DEF Finish, TypeOK
    <2>2. /\ ~row[r].failed
          /\ loc[w].tries = row[r].attempts
          /\ row[r].delivered <= loc[w].seen
          /\ loc[w].seen <= version[r]
          /\ loc[w].answer = "ok" => loc[w].seen \in received[r]
      BY <1>0, <1>1, <1>8 DEF OwnerKnows, Holding
    <2>3. /\ row[r].attempts \in Nat /\ row[r].delivered \in Nat
          /\ loc[w].seen \in Nat /\ version[r] \in Nat
      BY <1>0, <1>1 DEF PushRow, PushLocal, TypeOK
    <2>4. row[r].attempts <= Backoffs
      <3>1. row[r].attempts <= Backoffs + 1 /\ row[r].attempts # Backoffs + 1
        BY <1>1, <2>2 DEF PushInv, AttemptsBounded
      <3> QED BY <2>3, <3>1, PushBounds
    <2>5. Finished(w).claim = None
      BY <1>1 DEF Finished, PushRow
    <2>6. \/ /\ Finished(w).delivered = loc[w].seen
             /\ loc[w].answer = "ok"
             /\ Finished(w).attempts = 0
          \/ /\ Finished(w).delivered = row[r].delivered
             /\ Finished(w).attempts = row[r].attempts + 1
             /\ Again(w) \/ Finished(w).failed
      BY <1>1 DEF Finished, PushRow
    <2>7. Again(w) => row[r].attempts + 1 <= Backoffs
      BY <2>2, <2>3, PushBounds DEF Again
    <2>8. /\ row[r].delivered <= row'[r].delivered
          /\ row'[r].delivered <= version'[r]
      <3>1. row[r].delivered <= version[r] /\ row[r].delivered <= row[r].delivered
        BY <1>1, <2>3 DEF PushInv
      <3> QED BY <1>2, <2>1, <2>2, <2>6, <3>1
    <2>9. row'[r].delivered # 0 => row'[r].delivered \in received'[r]
      BY <1>1, <1>2, <2>1, <2>2, <2>6 DEF PushInv, DeliveredWasReceived
    <2>10. /\ row'[r].attempts <= Backoffs + 1
           /\ row'[r].attempts = Backoffs + 1 => row'[r].failed
      <3>1. CASE Finished(w).attempts = 0
        BY <2>1, <3>1, PushBounds
      <3>2. CASE Finished(w).attempts = row[r].attempts + 1 /\ Finished(w).failed
        BY <2>1, <2>3, <2>4, <3>2, PushBounds
      <3>3. CASE Finished(w).attempts = row[r].attempts + 1 /\ Again(w)
        BY <2>1, <2>3, <2>7, <3>3, PushBounds
      <3> QED BY <2>6, <3>1, <3>2, <3>3
    <2>11. DeliveredWasReceived' /\ AttemptsBounded'
      BY <1>2, <2>1, <2>9, <2>10 DEF PushInv, DeliveredWasReceived, AttemptsBounded
    <2>12. NoneGoesBack /\ \A q \in Rows : row'[q].delivered <= version'[q]
      <3>1. \A q \in Rows : row[q].delivered \in Nat
        BY <1>0 DEF TypeOK, PushRow
      <3> QED BY <1>2, <2>1, <2>8, <3>1 DEF PushInv, NoneGoesBack
    <2>13. OwnerKnows(w)'
      <3>1. row'[r].claim # w
        BY <2>1, <2>5, PushNone
      <3> QED BY <1>5, <3>1 DEF OwnerKnows, Owns
    <2>14. \A v \in Workers : OwnerKnows(v)'
      BY <1>0, <1>3, <1>4, <1>6, <2>13, OwnerStep
    <2> QED BY <1>0, <2>11, <2>12, <2>14 DEF PushInv
  <1> QED BY <1>7, <1>8

\* Every step keeps it, and takes no delivered version back.
LEMMA PushInvNext ==
    ASSUME PushInv, [Next]_vars
    PROVE  PushInv' /\ NoneGoesBack
  <1>1. CASE UNCHANGED vars
    <2>1. TypeOK /\ TypeOK'
      BY <1>1 DEF PushInv, TypeOK, vars
    <2>2. UNCHANGED <<version, row, received, loc>>
      BY <1>1 DEF vars
    <2>3. HistoryFrame /\ \A v \in Workers : RowFrame(v)
      BY <2>1, <2>2, OthersFrame
    <2>4. \A v \in Workers : OwnerKnows(v)'
      BY <2>1, <2>2, <2>3, OwnerFrame DEF PushInv
    <2> QED BY <2>1, <2>2, <2>3, <2>4, RowFacts DEF PushInv
  <1>2. ASSUME NEW w \in Workers, Receive(w) \/ Step(w) \/ Raise(w) \/ Crash(w)
        PROVE  PushInv' /\ NoneGoesBack
    BY <1>2, PushInvLoop, PushInvOwner, PushInvFinish DEF Step
  <1> QED BY <1>1, <1>2, PushInvEnv DEF Next

\* The invariant that the three theorems below read off.
LEMMA PushInvHolds == Spec => []PushInv
  <1>1. PushInv /\ [Next]_vars => PushInv'
    BY PushInvNext
  <1> QED BY <1>1, PushInvInit, PTL DEF Spec

\* finish() never stores a fingerprint whose view the callback did not accept,
\* for any number of dispatchers, expired leases, lost answers and changes
\* between the read and the POST.
THEOREM DeliveredIsReceived == Spec => []DeliveredWasReceived
  <1>1. PushInv => DeliveredWasReceived
    BY DEF PushInv
  <1> QED BY <1>1, PushInvHolds, PTL

\* attempt_count, read by get() and counted by finish() after the POST, never
\* passes the retries of _BACKOFF without permanent_failure_at.
THEOREM RetriesBounded == Spec => []AttemptsBounded
  <1>1. PushInv => AttemptsBounded
    BY DEF PushInv
  <1> QED BY <1>1, PushInvHolds, PTL

\* No dispatcher, however late, replaces last_delivered_fingerprint by that of an
\* older view.
THEOREM DeliveryGrows == Spec => DeliveredGrows
  <1>1. PushInv /\ [Next]_vars => [NoneGoesBack]_vars
    BY PushInvNext
  <1>2. [NoneGoesBack]_vars => [\A r \in Rows : row[r].delivered <= row'[r].delivered]_vars
    BY DEF NoneGoesBack
  <1> QED BY <1>1, <1>2, PushInvHolds, PTL DEF Spec, DeliveredGrows

----
\* TaskView: the inductive invariant

\* A history in which the events of a turn are together, its input is the first of them,
\* and what ends a turn is the last.
Turns(h) ==
    /\ h \in Seq(Event)
    /\ \A i, j, k \in 1..Len(h) :
          i < j /\ j < k /\ h[i].task = h[k].task => h[j].task = h[i].task
    /\ \A i, j \in 1..Len(h) :
          h[i].task = h[j].task /\ i < j => h[i].kind # "end_turn" /\ h[j].kind # "user"

HistInv == Turns(hist)

\* Only the active task's turn is open; a row refers to the input of its own turn, and the
\* row of a completed task to the event that ended it.
RowInv ==
    /\ tasks \in [Tasks -> TaskRow]
    /\ active \in {0} \cup Tasks
    /\ active # 0 => Len(hist) > 0 /\ LastTask = active
                   /\ tasks[active].state \notin Terminal
    /\ \A i \in 1..Len(hist) :
          hist[i].task = active \/ tasks[hist[i].task].state \in Terminal
    /\ \A t \in Tasks :
          /\ tasks[t].start # 0 =>
                tasks[t].start <= Len(hist) /\ hist[tasks[t].start] = [kind |-> "user", task |-> t]
          /\ IF tasks[t].state = "COMPLETED"
             THEN /\ tasks[t].start # 0 /\ tasks[t].end \in 1..Len(hist)
                  /\ hist[tasks[t].end] = [kind |-> "end_turn", task |-> t]
             ELSE tasks[t].end = 0

Increases(q) == \A i, j \in DOMAIN q : i < j => q[i] < q[j]

\* The events of the history can be put in order, whichever are taken.
SortInv == \A s \in SUBSET (1..Len(hist)) : \E q \in [1..Cardinality(s) -> s] : Increases(q)

Agents(h, a, b) == {i \in 1..Len(h) : a <= i /\ i <= b /\ h[i].kind = "agent"}

\* The row that was read: an older one, but the last one if the task is completed.
ReadOK(w) ==
    /\ w.row \in TaskRow
    /\ w.row.start \in {0, tasks[w.task].start}
    /\ IF w.row.state = "COMPLETED" THEN w.row = tasks[w.task] ELSE w.row.end = 0

\* What was told rises, and with it all messages of the turn up to some event were taken.
ToldOK(w) ==
    /\ w.told \in Seq(1..Len(hist)) /\ Increases(w.told)
    /\ \A k \in 1..Len(w.told) : w.told[k] \in w.emitted
    /\ w.emitted \subseteq 1..Len(hist)
    /\ w.emitted # {} =>
           /\ tasks[w.task].start # 0
           /\ \E n \in 0..Len(hist) : w.emitted = Agents(hist, tasks[w.task].start, n)

\* A subscription that returned because its task was completed has told all of it.
DoneOK(w) ==
    /\ w.pc = "closed" /\ tasks[w.task].state = "COMPLETED"
    /\ \A i \in w.view : i \in 1..Len(hist) /\ hist[i].task = w.task
    /\ OwnTexts(w.task) \subseteq w.emitted
    /\ w.status.message = MaxOf(OwnTexts(w.task))

\* A subscription is a record, whatever it has read.
WatchFields == {"pc", "task", "row", "next", "marker", "due", "view", "emitted", "told", "status"}

IsWatch(w) == w = [f \in WatchFields |-> w[f]]

WatchOK(w) ==
    /\ IsWatch(w)
    /\ IF w.pc = "new" THEN w = NewWatch
       ELSE /\ w.task \in Tasks
            /\ w.pc = "events" => ReadOK(w)
            /\ ToldOK(w)
            /\ w.status.state = "COMPLETED" => DoneOK(w)

WatchInv == DOMAIN watch = Watchers /\ \A c \in Watchers : WatchOK(watch[c])

ViewInv == HistInv /\ RowInv /\ SortInv /\ WatchInv

----
\* Every event is of a task.
LEMMA EventFacts ==
    ASSUME hist \in Seq(Event)
    PROVE  /\ Len(hist) \in Nat
           /\ \A i \in 1..Len(hist) : hist[i] \in Event /\ hist[i].task \in Tasks
  <1>1. Len(hist) \in Nat /\ \A i \in 1..Len(hist) : hist[i] \in Event
    OBVIOUS
  <1>2. \A e \in Event : e.task \in Tasks
    BY DEF Event
  <1> QED BY <1>1, <1>2

\* A write moves the marker and keeps the rest of what was written.
LEMMA TouchFacts ==
    ASSUME NEW r \in TaskRow
    PROVE  \E q \in TaskRow :
              /\ q = [r EXCEPT !.updated = @ + 1]
              /\ q.start = r.start /\ q.state = r.state /\ q.end = r.end
  <1>1. [r EXCEPT !.updated = @ + 1] \in TaskRow
    BY DEF TaskRow
  <1>2. [r EXCEPT !.updated = @ + 1].start = r.start /\ [r EXCEPT !.updated = @ + 1].state = r.state
        /\ [r EXCEPT !.updated = @ + 1].end = r.end
    BY DEF TaskRow
  <1> QED BY <1>1, <1>2

\* What a row refers to.
LEMMA TaskRowFacts ==
    ASSUME HistInv, RowInv, NEW t \in Tasks
    PROVE  /\ t # 0 /\ tasks[t] \in TaskRow
           /\ tasks[t].start # 0 => /\ tasks[t].start \in 1..Len(hist)
                                    /\ hist[tasks[t].start] = [kind |-> "user", task |-> t]
           /\ tasks[t].state = "COMPLETED" =>
                 /\ tasks[t].start # 0 /\ tasks[t].end \in 1..Len(hist)
                 /\ hist[tasks[t].end] = [kind |-> "end_turn", task |-> t]
           /\ tasks[t].state # "COMPLETED" => tasks[t].end = 0
  <1>1. t # 0 /\ Len(hist) \in Nat
    BY EventFacts DEF Tasks, HistInv, Turns
  <1>2. tasks[t] \in TaskRow
    BY DEF RowInv
  <1>3. tasks[t].start \in Nat
    BY <1>2 DEF TaskRow
  <1>4. tasks[t].start # 0 => /\ tasks[t].start <= Len(hist)
                              /\ hist[tasks[t].start] = [kind |-> "user", task |-> t]
    BY DEF RowInv
  <1>5. IF tasks[t].state = "COMPLETED"
        THEN /\ tasks[t].start # 0 /\ tasks[t].end \in 1..Len(hist)
             /\ hist[tasks[t].end] = [kind |-> "end_turn", task |-> t]
        ELSE tasks[t].end = 0
    BY DEF RowInv
  <1>6. tasks[t].start # 0 => tasks[t].start \in 1..Len(hist)
    BY <1>1, <1>3, <1>4
  <1> QED BY <1>1, <1>2, <1>4, <1>5, <1>6

\* A turn lies between its input and its last event.
LEMMA TurnBetween ==
    ASSUME NEW h, Turns(h), NEW t, NEW a \in 1..Len(h), NEW b \in 1..Len(h),
           h[a] = [kind |-> "user", task |-> t], h[b] = [kind |-> "end_turn", task |-> t]
    PROVE  \A i \in 1..Len(h) : h[i].task = t <=> a <= i /\ i <= b
  <1>1. h[a].task = t /\ h[a].kind = "user" /\ h[b].task = t /\ h[b].kind = "end_turn"
    OBVIOUS
  <1>2. ASSUME NEW i \in 1..Len(h), h[i].task = t
        PROVE  a <= i /\ i <= b
    <2>1. ~ (i < a)
      BY <1>1, <1>2 DEF Turns
    <2>2. ~ (b < i)
      BY <1>1, <1>2 DEF Turns
    <2> QED BY <2>1, <2>2
  <1>3. ASSUME NEW i \in 1..Len(h), a <= i, i <= b
        PROVE  h[i].task = t
    <2>1. CASE i = a \/ i = b
      BY <1>1, <2>1
    <2>2. CASE a < i /\ i < b
      BY <1>1, <2>2 DEF Turns
    <2> QED BY <1>3, <2>1, <2>2
  <1> QED BY <1>2, <1>3

----
\* The history grows; an input once found stays, and a completed task is left alone.
Grows ==
    /\ Len(hist') \in {Len(hist), Len(hist) + 1}
    /\ \A i \in 1..Len(hist) : hist'[i] = hist[i]
    /\ \A t \in Tasks : /\ tasks[t].start # 0 => tasks'[t].start = tasks[t].start
                        /\ tasks[t].state = "COMPLETED" => tasks'[t] = tasks[t]

\* One event more, by a task whose turn has not ended or that has no event yet.
LEMMA AppendKeepsTurns ==
    ASSUME HistInv, NEW k \in Kinds, NEW t \in Tasks, Append1(k, t),
           \/ \A i \in 1..Len(hist) : hist[i].task # t
           \/ Len(hist) > 0 /\ LastTask = t /\ LastKind # "end_turn" /\ k # "user"
    PROVE  /\ HistInv'
           /\ Len(hist') = Len(hist) + 1 /\ hist'[Len(hist')] = [kind |-> k, task |-> t]
           /\ \A i \in 1..Len(hist) : hist'[i] = hist[i]
  <1>1. hist \in Seq(Event) /\ [kind |-> k, task |-> t] \in Event
    BY DEF HistInv, Turns, Event
  <1>2. /\ hist' \in Seq(Event)
        /\ Len(hist') = Len(hist) + 1 /\ hist'[Len(hist')] = [kind |-> k, task |-> t]
        /\ \A i \in 1..Len(hist) : hist'[i] = hist[i]
    BY <1>1 DEF Append1
  <1>3. Len(hist) \in Nat
    BY <1>1
  <1>4. ASSUME NEW i \in 1..Len(hist'), NEW j \in 1..Len(hist'),
               hist'[i].task = hist'[j].task, i < j
        PROVE  hist'[i].kind # "end_turn" /\ hist'[j].kind # "user"
    <2>1. CASE j <= Len(hist)
      BY <1>2, <1>3, <1>4, <2>1 DEF HistInv, Turns
    <2>2. CASE j = Len(hist) + 1
      <3>1. i \in 1..Len(hist) /\ hist[i].task = t
        BY <1>2, <1>3, <1>4, <2>2
      <3>2. Len(hist) > 0 /\ LastTask = t /\ LastKind # "end_turn" /\ k # "user"
        BY <3>1
      <3>3. hist[i].kind # "end_turn"
        <4>1. CASE i = Len(hist)
          BY <3>2, <4>1 DEF LastKind
        <4>2. CASE i < Len(hist)
          BY <1>3, <3>1, <3>2, <4>2 DEF LastTask, HistInv, Turns
        <4> QED BY <1>3, <3>1, <4>1, <4>2
      <3> QED BY <1>2, <2>2, <3>1, <3>2, <3>3
    <2> QED BY <1>2, <1>3, <2>1, <2>2
  <1>5. ASSUME NEW i \in 1..Len(hist'), NEW j \in 1..Len(hist'), NEW n \in 1..Len(hist'),
               i < j, j < n, hist'[i].task = hist'[n].task
        PROVE  hist'[j].task = hist'[i].task
    <2>1. CASE n <= Len(hist)
      BY <1>2, <1>3, <1>5, <2>1 DEF HistInv, Turns
    <2>2. CASE n = Len(hist) + 1
      <3>1. i \in 1..Len(hist) /\ j \in 1..Len(hist) /\ hist[i].task = t
        BY <1>2, <1>3, <1>5, <2>2
      <3>2. Len(hist) > 0 /\ hist[Len(hist)].task = t
        BY <3>1 DEF LastTask
      <3>3. hist[j].task = t
        <4>1. CASE j = Len(hist)
          BY <3>2, <4>1
        <4>2. CASE j < Len(hist)
          BY <1>3, <1>5, <3>1, <3>2, <4>2 DEF HistInv, Turns
        <4> QED BY <1>3, <3>1, <4>1, <4>2
      <3> QED BY <1>2, <3>1, <3>3
    <2> QED BY <1>2, <1>3, <2>1, <2>2
  <1> QED BY <1>2, <1>4, <1>5 DEF HistInv, Turns

----
\* An event of a turn that goes on, or resumes.
LEMMA ProviderKeeps ==
    ASSUME HistInv, RowInv, Provider
    PROVE  HistInv' /\ RowInv' /\ Grows
  <1>1. hist \in Seq(Event) /\ UNCHANGED <<tasks, active, fails, watch>>
    BY DEF HistInv, Turns, Provider, ProviderSays, ProviderRests, ProviderResumes
  <1>2. PICK t : t = LastTask
    OBVIOUS
  <1>3. /\ Len(hist) > 0 /\ LastTask = t /\ LastKind # "end_turn"
        /\ \E k \in Kinds \ {"user"} : Append1(k, t)
    BY <1>2 DEF Provider, ProviderSays, ProviderRests, ProviderResumes,
                   InTurn, Kinds
  <1>4. t \in Tasks /\ Len(hist) \in Nat /\ hist[Len(hist)].task = t
    BY <1>1, <1>2, <1>3, EventFacts DEF LastTask
  <1>5. PICK k \in Kinds \ {"user"} : Append1(k, t)
    BY <1>3
  <1>6. /\ HistInv'
        /\ Len(hist') = Len(hist) + 1 /\ hist'[Len(hist')] = [kind |-> k, task |-> t]
        /\ \A i \in 1..Len(hist) : hist'[i] = hist[i]
    BY <1>3, <1>4, <1>5, AppendKeepsTurns
  <1>7. Grows
    BY <1>1, <1>4, <1>6 DEF Grows
  <1>8. ASSUME NEW i \in 1..Len(hist')
        PROVE  hist'[i].task = active \/ tasks[hist'[i].task].state \in Terminal
    <2>1. CASE i \in 1..Len(hist)
      BY <1>6, <2>1 DEF RowInv
    <2>2. CASE i = Len(hist')
      <3>1. Len(hist) \in 1..Len(hist)
        BY <1>3, <1>4
      <3> QED BY <1>4, <1>6, <2>2, <3>1 DEF RowInv
    <2> QED BY <1>4, <1>6, <2>1, <2>2
  <1>9. active # 0 => /\ Len(hist') > 0 /\ LastTask' = active
                      /\ tasks[active].state \notin Terminal
    BY <1>3, <1>4, <1>6 DEF RowInv, LastTask
  <1>10. ASSUME NEW s \in Tasks
         PROVE  /\ tasks[s].start # 0 => tasks[s].start <= Len(hist')
                                       /\ hist'[tasks[s].start] = [kind |-> "user", task |-> s]
                /\ tasks[s].state = "COMPLETED" =>
                       /\ tasks[s].start # 0 /\ tasks[s].end \in 1..Len(hist')
                       /\ hist'[tasks[s].end] = [kind |-> "end_turn", task |-> s]
                /\ tasks[s].state # "COMPLETED" => tasks[s].end = 0
    <2>1. tasks[s].end \in 1..Len(hist) => tasks[s].end \in 1..Len(hist')
      BY <1>4, <1>6
    <2>2. tasks[s].start \in 1..Len(hist) => tasks[s].start <= Len(hist')
      BY <1>4, <1>6
    <2> QED BY <1>6, <2>1, <2>2, TaskRowFacts
  <1>11. RowInv'
    BY <1>1, <1>8, <1>9, <1>10 DEF RowInv
  <1> QED BY <1>6, <1>7, <1>11

\* The input of the next task.
LEMMA DispatchKeeps ==
    ASSUME HistInv, RowInv, NEW t \in Tasks, Dispatch(t)
    PROVE  HistInv' /\ RowInv' /\ Grows
  <1>1. /\ hist \in Seq(Event) /\ Len(hist) \in Nat /\ t # 0 /\ t \in Nat
        /\ active = 0 /\ active' = t /\ tasks[t].state = "SUBMITTED" /\ tasks[t].start = 0
        /\ Append1("user", t) /\ "user" \in Kinds
    BY DEF HistInv, Turns, Dispatch, Tasks, Kinds
  <1>2. /\ tasks \in [Tasks -> TaskRow]
        /\ tasks' = [tasks EXCEPT ![t] = [tasks[t] EXCEPT !.updated = @ + 1]]
    BY DEF RowInv, Dispatch, Update
  <1>3. /\ tasks' \in [Tasks -> TaskRow]
        /\ tasks'[t].start = 0 /\ tasks'[t].state = "SUBMITTED" /\ tasks'[t].end = tasks[t].end
        /\ \A s \in Tasks : s # t => tasks'[s] = tasks[s]
    <2>1. tasks[t] \in TaskRow
      BY TaskRowFacts
    <2>2. PICK q \in TaskRow :
             /\ q = [tasks[t] EXCEPT !.updated = @ + 1]
             /\ q.start = tasks[t].start /\ q.state = tasks[t].state /\ q.end = tasks[t].end
      BY <2>1, TouchFacts
    <2> QED BY <1>1, <1>2, <2>2
  <1>4. \A i \in 1..Len(hist) : hist[i].task # t /\ hist[i].task \in Tasks
    <2>1. \A i \in 1..Len(hist) : hist[i].task \in Tasks
      BY <1>1, EventFacts
    <2>2. \A i \in 1..Len(hist) : hist[i].task # t
      BY <1>1 DEF RowInv, Terminal
    <2> QED BY <2>1, <2>2
  <1>5. /\ HistInv'
        /\ Len(hist') = Len(hist) + 1 /\ hist'[Len(hist')] = [kind |-> "user", task |-> t]
        /\ \A i \in 1..Len(hist) : hist'[i] = hist[i]
    BY <1>1, <1>4, AppendKeepsTurns
  <1>6. Grows
    BY <1>1, <1>3, <1>5 DEF Grows
  <1>7. ASSUME NEW i \in 1..Len(hist')
        PROVE  hist'[i].task = t \/ tasks'[hist'[i].task].state \in Terminal
    <2>1. CASE i \in 1..Len(hist)
      <3>1. tasks[hist[i].task].state \in Terminal
        <4>1. hist[i].task # 0
          BY <1>4, <2>1 DEF Tasks
        <4> QED BY <1>1, <2>1, <4>1 DEF RowInv
      <3> QED BY <1>3, <1>4, <1>5, <2>1, <3>1
    <2>2. CASE i = Len(hist')
      BY <1>5, <2>2
    <2> QED BY <1>1, <1>5, <2>1, <2>2
  <1>8. Len(hist') > 0 /\ LastTask' = t /\ tasks'[t].state \notin Terminal
    BY <1>1, <1>3, <1>5 DEF LastTask, Terminal
  <1>9. ASSUME NEW s \in Tasks
        PROVE  /\ tasks'[s].start # 0 => tasks'[s].start <= Len(hist')
                                       /\ hist'[tasks'[s].start] = [kind |-> "user", task |-> s]
               /\ tasks'[s].state = "COMPLETED" =>
                       /\ tasks'[s].start # 0 /\ tasks'[s].end \in 1..Len(hist')
                       /\ hist'[tasks'[s].end] = [kind |-> "end_turn", task |-> s]
               /\ tasks'[s].state # "COMPLETED" => tasks'[s].end = 0
    <2>1. tasks[s].end \in 1..Len(hist) => tasks[s].end \in 1..Len(hist')
      BY <1>1, <1>5
    <2>2. tasks[s].start \in 1..Len(hist) => tasks[s].start <= Len(hist')
      BY <1>1, <1>5
    <2>5. CASE s = t
      BY <1>1, <1>3, <2>5, TaskRowFacts
    <2>6. CASE s # t
      <3>1. tasks'[s] = tasks[s]
        BY <1>3, <2>6
      <3> QED BY <1>5, <2>1, <2>2, <3>1, TaskRowFacts
    <2> QED BY <2>5, <2>6
  <1>10. RowInv'
    BY <1>1, <1>3, <1>7, <1>8, <1>9 DEF RowInv
  <1> QED BY <1>5, <1>6, <1>10

\* A write to the row of the active task: it stays active, or it ends.
LEMMA UpdateKeeps ==
    ASSUME HistInv, RowInv, NEW t \in Tasks, active = t,
           NEW r \in TaskRow, Update(t, r),
           hist' = hist,
           r.start = tasks[t].start \/ tasks[t].start = 0,
           r.start # 0 => r.start <= Len(hist) /\ hist[r.start] = [kind |-> "user", task |-> t],
           IF r.state = "COMPLETED"
           THEN /\ r.start # 0 /\ r.end \in 1..Len(hist)
                /\ hist[r.end] = [kind |-> "end_turn", task |-> t]
           ELSE r.end = 0,
           IF r.state \in Terminal THEN active' = 0 ELSE active' = t
    PROVE  HistInv' /\ RowInv' /\ Grows
  <1>1. tasks \in [Tasks -> TaskRow] /\ t # 0 /\ t \in Nat /\ Len(hist) \in Nat
    BY DEF RowInv, Tasks, HistInv, Turns
  <1>2. PICK q \in TaskRow :
           /\ q = [r EXCEPT !.updated = @ + 1]
           /\ q.start = r.start /\ q.state = r.state /\ q.end = r.end
    BY TouchFacts
  <1>3. q.start = r.start /\ q.end = r.end /\ q.state = r.state
    BY <1>2
  <1>4. tasks' = [tasks EXCEPT ![t] = q]
    BY <1>2 DEF Update
  <1>5. /\ tasks' \in [Tasks -> TaskRow] /\ tasks'[t] = q
        /\ \A s \in Tasks : s # t => tasks'[s] = tasks[s]
    BY <1>1, <1>4
  <1>6. HistInv'
    BY DEF HistInv, Turns
  <1>7. Len(hist) > 0 /\ LastTask = t /\ tasks[t].state \notin Terminal
    BY <1>1 DEF RowInv
  <1>8. Grows
    BY <1>1, <1>3, <1>5, <1>7 DEF Grows, Terminal
  <1>9. \A i \in 1..Len(hist) : hist[i].task \in Tasks
    BY EventFacts DEF HistInv, Turns
  <1>10. \A i \in 1..Len(hist) :
            hist[i].task = active' \/ tasks'[hist[i].task].state \in Terminal
    BY <1>1, <1>3, <1>5, <1>7, <1>9 DEF RowInv
  <1>11. active' # 0 => /\ Len(hist) > 0 /\ LastTask' = active'
                        /\ tasks'[active'].state \notin Terminal
    BY <1>1, <1>3, <1>5, <1>7 DEF LastTask
  <1>12. ASSUME NEW s \in Tasks
         PROVE  /\ tasks'[s].start # 0 => tasks'[s].start <= Len(hist)
                                        /\ hist[tasks'[s].start] = [kind |-> "user", task |-> s]
                /\ IF tasks'[s].state = "COMPLETED"
                   THEN /\ tasks'[s].start # 0 /\ tasks'[s].end \in 1..Len(hist)
                        /\ hist[tasks'[s].end] = [kind |-> "end_turn", task |-> s]
                   ELSE tasks'[s].end = 0
    <2>1. CASE s = t
      BY <1>3, <1>5, <2>1
    <2>2. CASE s # t
      BY <1>5, <2>2 DEF RowInv
    <2> QED BY <2>1, <2>2
  <1>13. active' \in {0} \cup Tasks
    OBVIOUS
  <1>14. RowInv'
    BY <1>5, <1>10, <1>11, <1>12, <1>13 DEF RowInv
  <1> QED BY <1>6, <1>8, <1>14

\* The active task's turn is the last, and it has no end.
LEMMA ActiveFacts ==
    ASSUME HistInv, RowInv, NEW t \in Tasks, active = t
    PROVE  /\ Len(hist) > 0 /\ LastTask = t
           /\ tasks[t] \in TaskRow /\ tasks[t].end = 0 /\ tasks[t].state \notin Terminal
  <1>1. t # 0 /\ tasks[t] \in TaskRow
    BY TaskRowFacts
  <1>2. Len(hist) > 0 /\ LastTask = t /\ tasks[t].state \notin Terminal
    BY <1>1 DEF RowInv
  <1>3. tasks[t].end = 0
    BY <1>2, TaskRowFacts DEF Terminal
  <1> QED BY <1>1, <1>2, <1>3

\* The scheduler and the operator.
LEMMA ControllerKeeps ==
    ASSUME HistInv, RowInv, NEW t \in Tasks, Controller(t)
    PROVE  HistInv' /\ RowInv' /\ Grows
  <1>1. CASE Dispatch(t)
    BY <1>1, DispatchKeeps
  <1>2. CASE _bind_input(t)
    <2>1. active = t /\ tasks[t].start = 0 /\ UNCHANGED <<hist, active, fails, watch>>
      BY <1>2 DEF _bind_input
    <2>2. PICK i \in 1..Len(hist) :
             /\ hist[i] = [kind |-> "user", task |-> t]
             /\ Update(t, [tasks[t] EXCEPT !.start = i, !.state = "WORKING"])
      BY <1>2 DEF _bind_input
    <2>3. tasks[t] \in TaskRow /\ tasks[t].end = 0 /\ Len(hist) \in Nat
      BY <2>1, ActiveFacts, EventFacts DEF HistInv, Turns
    <2>4. PICK r : r = [tasks[t] EXCEPT !.start = i, !.state = "WORKING"]
      OBVIOUS
    <2>5. r \in TaskRow /\ r.start = i /\ r.state = "WORKING" /\ r.end = 0
      <3>1. i \in Nat
        BY <2>3
      <3> QED BY <2>3, <2>4, <3>1 DEF TaskRow, States, Boundary
    <2>6. i <= Len(hist) /\ "WORKING" \notin Terminal /\ "WORKING" # "COMPLETED"
      BY <2>3 DEF Terminal
    <2> QED BY <2>1, <2>2, <2>4, <2>5, <2>6, UpdateKeeps
  <1>3. ASSUME NEW st \in {"WORKING", "INPUT_REQUIRED", "FAILED"}, active = t, hist' = hist,
               Update(t, [tasks[t] EXCEPT !.state = st]),
               IF st = "FAILED" THEN active' = 0 ELSE active' = t
        PROVE  HistInv' /\ RowInv' /\ Grows
    <2>1. tasks[t] \in TaskRow /\ tasks[t].end = 0 /\ Len(hist) \in Nat
      BY <1>3, ActiveFacts, EventFacts DEF HistInv, Turns
    <2>2. PICK r : r = [tasks[t] EXCEPT !.state = st]
      OBVIOUS
    <2>3. r \in TaskRow /\ r.start = tasks[t].start /\ r.state = st /\ r.end = 0
      BY <2>1, <2>2 DEF TaskRow, States, Boundary, Terminal
    <2>4. r.start # 0 => r.start <= Len(hist) /\ hist[r.start] = [kind |-> "user", task |-> t]
      <3>1. tasks[t].start # 0 => /\ tasks[t].start \in 1..Len(hist)
                                  /\ hist[tasks[t].start] = [kind |-> "user", task |-> t]
        BY TaskRowFacts
      <3> QED BY <2>1, <2>3, <3>1
    <2>5. r.state # "COMPLETED" /\ (r.state \in Terminal <=> st = "FAILED")
      BY <2>3 DEF Terminal
    <2> QED BY <1>3, <2>2, <2>3, <2>4, <2>5, UpdateKeeps
  <1>4. CASE _set_running(t)
    <2>1. /\ active = t /\ UNCHANGED <<hist, active>>
          /\ Update(t, [tasks[t] EXCEPT !.state = "WORKING"])
      BY <1>4 DEF _set_running, Latest
    <2> QED BY <1>3, <2>1
  <1>5. CASE _set_waiting_state(t)
    <2>1. /\ active = t /\ UNCHANGED <<hist, active>>
          /\ Update(t, [tasks[t] EXCEPT !.state = "INPUT_REQUIRED"])
      BY <1>5 DEF _set_waiting_state, Latest
    <2> QED BY <1>3, <2>1
  <1>6. CASE resolve_held_task(t)
    <2>1. /\ active = t /\ hist' = hist /\ active' = 0
          /\ Update(t, [tasks[t] EXCEPT !.state = "FAILED"])
      BY <1>6 DEF resolve_held_task
    <2> QED BY <1>3, <2>1
  <1>7. CASE _finish(t)
    <2>1. PICK i \in 1..Len(hist) :
             /\ Latest(t, "end_turn", i)
             /\ Update(t, [tasks[t] EXCEPT !.state = "COMPLETED", !.end = i])
      BY <1>7 DEF _finish
    <2>2. /\ active = t /\ hist' = hist /\ active' = 0
          /\ tasks[t].start # 0 /\ i > tasks[t].start /\ hist[i].kind = "end_turn"
      BY <1>7, <2>1 DEF _finish, Latest
    <2>3. /\ tasks[t] \in TaskRow /\ tasks[t].end = 0 /\ Len(hist) \in Nat
          /\ Len(hist) > 0 /\ hist[Len(hist)].task = t
          /\ tasks[t].start \in 1..Len(hist)
          /\ hist[tasks[t].start] = [kind |-> "user", task |-> t]
          /\ hist[i] \in Event
      BY <2>2, ActiveFacts, EventFacts, TaskRowFacts DEF HistInv, Turns, LastTask
    <2>4. hist[i].task = t
      <3>1. hist[tasks[t].start].task = t
        BY <2>3
      <3>2. CASE i = Len(hist)
        BY <2>3, <3>2
      <3>3. CASE i < Len(hist)
        BY <2>2, <2>3, <3>1, <3>3 DEF HistInv, Turns
      <3> QED BY <2>3, <3>2, <3>3
    <2>5. hist[i] = [kind |-> "end_turn", task |-> t]
      BY <2>2, <2>3, <2>4 DEF Event
    <2>6. PICK r : r = [tasks[t] EXCEPT !.state = "COMPLETED", !.end = i]
      OBVIOUS
    <2>7. r \in TaskRow /\ r.start = tasks[t].start /\ r.state = "COMPLETED" /\ r.end = i
      <3>1. i \in Nat
        BY <2>3
      <3> QED BY <2>3, <2>6, <3>1 DEF TaskRow, States, Boundary, Terminal
    <2>8. r.start <= Len(hist) /\ "COMPLETED" \in Terminal
      BY <2>3, <2>7 DEF Terminal
    <2> QED BY <2>1, <2>2, <2>3, <2>5, <2>6, <2>7, <2>8, UpdateKeeps
  <1> QED BY <1>1, <1>2, <1>4, <1>5, <1>6, <1>7 DEF Controller

----
\* Every set of events can be put in order: this holds for a history of any length
\* because it holds for the empty one and one event more changes it by one element.
LEMMA SortedOnce ==
    ASSUME NEW n \in Nat,
           \A s \in SUBSET (1..n) : \E q \in [1..Cardinality(s) -> s] : Increases(q),
           NEW s \in SUBSET (1..(n + 1))
    PROVE  \E q \in [1..Cardinality(s) -> s] : Increases(q)
  <1>1. CASE n + 1 \notin s
    BY <1>1
  <1>2. CASE n + 1 \in s
    <2>1. PICK r : r = s \ {n + 1}
      OBVIOUS
    <2>2. r \in SUBSET (1..n) /\ s = r \cup {n + 1} /\ n + 1 \notin r
      BY <1>2, <2>1
    <2>3. IsFiniteSet(r)
      <3>1. IsFiniteSet(1..n)
        BY FS_Interval
      <3> QED BY <2>2, <3>1, FS_Subset
    <2>4. Cardinality(s) = Cardinality(r) + 1 /\ Cardinality(r) \in Nat
      BY <2>2, <2>3, FS_AddElement, FS_CardinalityType
    <2>5. PICK p \in [1..Cardinality(r) -> r] : Increases(p)
      BY <2>2
    <2>6. PICK k \in Nat : k = Cardinality(r)
      BY <2>4
    <2>7. PICK q : q = [i \in 1..(k + 1) |-> IF i <= k THEN p[i] ELSE n + 1]
      OBVIOUS
    <2>8. \A i \in 1..k : p[i] \in r /\ p[i] \in 1..n
      BY <2>2, <2>5, <2>6
    <2>9. q \in [1..(k + 1) -> s]
      BY <2>2, <2>7, <2>8
    <2>10. Increases(q)
      <3>1. SUFFICES ASSUME NEW i \in 1..(k + 1), NEW j \in 1..(k + 1), i < j
                     PROVE  q[i] < q[j]
        BY <2>7 DEF Increases
      <3>2. i \in 1..k /\ q[i] = p[i]
        BY <2>7, <3>1
      <3>3. CASE j = k + 1
        BY <2>7, <2>8, <3>2, <3>3
      <3>4. CASE j \in 1..k
        BY <2>5, <2>6, <2>7, <3>1, <3>2, <3>4 DEF Increases
      <3> QED BY <3>3, <3>4
    <2> QED BY <2>4, <2>6, <2>9, <2>10
  <1> QED BY <1>1, <1>2

\* The history has grown by one event at most.
LEMMA SortKept ==
    ASSUME HistInv, SortInv, Grows
    PROVE  SortInv'
  <1>1. CASE Len(hist') = Len(hist)
    BY <1>1 DEF SortInv
  <1>2. CASE Len(hist') = Len(hist) + 1
    <2>1. PICK n \in Nat : n = Len(hist)
      BY EventFacts DEF HistInv, Turns
    <2>2. \A s \in SUBSET (1..n) : \E q \in [1..Cardinality(s) -> s] : Increases(q)
      BY <2>1 DEF SortInv
    <2>3. \A s \in SUBSET (1..(n + 1)) : \E q \in [1..Cardinality(s) -> s] : Increases(q)
      BY <2>2, SortedOnce
    <2> QED BY <1>2, <2>1, <2>3 DEF SortInv
  <1> QED BY <1>1, <1>2 DEF Grows

\* The messages of a view in the order of the history.
LEMMA InOrderFacts ==
    ASSUME SortInv, NEW n \in Nat, n = Len(hist), NEW s \in SUBSET (1..n), NEW q, q = InOrder(s)
    PROVE  /\ q \in Seq(1..n) /\ Increases(q)
           /\ \A k \in 1..Len(q) : q[k] \in s
  <1>1. \E p \in [1..Cardinality(s) -> s] : Increases(p)
    BY DEF SortInv
  <1>2. q \in [1..Cardinality(s) -> s] /\ Increases(q)
    <2>1. q = CHOOSE p \in [1..Cardinality(s) -> s] :
                   \A i, j \in DOMAIN p : i < j => p[i] < p[j]
      \* FiniteSets is reached by two paths: its definition is unfolded on both.
      <3>1. Cardinality(s) = Cardinality(s)
        BY DEF Cardinality, Cardinality, IsFiniteSet, IsFiniteSet
      <3> QED BY <3>1 DEF InOrder
    <2>2. \E p \in [1..Cardinality(s) -> s] : \A i, j \in DOMAIN p : i < j => p[i] < p[j]
      BY <1>1 DEF Increases
    <2>3. /\ q \in [1..Cardinality(s) -> s]
          /\ \A i, j \in DOMAIN q : i < j => q[i] < q[j]
      BY <2>1, <2>2
    <2> QED BY <2>3 DEF Increases
  <1>3. Cardinality(s) \in Nat
    <2>1. IsFiniteSet(1..n)
      BY FS_Interval
    <2> QED BY <2>1, FS_Subset, FS_CardinalityType
  <1>4. PICK k \in Nat : k = Cardinality(s)
    BY <1>3
  <1>5. q \in [1..k -> s] /\ q \in [1..k -> 1..n]
    BY <1>2, <1>4
  <1>6. q \in Seq(1..n) /\ Len(q) = k
    BY <1>5, SeqDef, LenProperties
  <1> QED BY <1>2, <1>5, <1>6

\* Two rising sequences, the second above the first.
LEMMA JoinIncreases ==
    ASSUME NEW n \in Nat, NEW p \in Seq(1..n), NEW q \in Seq(1..n),
           Increases(p), Increases(q),
           \A i \in 1..Len(p), j \in 1..Len(q) : p[i] < q[j]
    PROVE  /\ p \o q \in Seq(1..n) /\ Increases(p \o q)
           /\ \A k \in 1..Len(p \o q) : \/ \E i \in 1..Len(p) : (p \o q)[k] = p[i]
                                        \/ \E j \in 1..Len(q) : (p \o q)[k] = q[j]
  <1>1. /\ p \o q \in Seq(1..n) /\ Len(p \o q) = Len(p) + Len(q)
        /\ Len(p) \in Nat /\ Len(q) \in Nat
        /\ \A k \in 1..Len(p \o q) : (p \o q)[k] = IF k <= Len(p) THEN p[k] ELSE q[k - Len(p)]
    OBVIOUS
  <1>2. ASSUME NEW i \in 1..Len(p \o q), NEW j \in 1..Len(p \o q), i < j
        PROVE  (p \o q)[i] < (p \o q)[j]
    <2>1. CASE j <= Len(p)
      <3>1. i \in 1..Len(p) /\ j \in 1..Len(p)
        BY <1>1, <1>2, <2>1
      <3>2. p[i] < p[j]
        BY <1>2, <3>1 DEF Increases
      <3> QED BY <1>1, <3>1, <3>2
    <2>2. CASE i <= Len(p) /\ Len(p) < j
      <3>1. i \in 1..Len(p) /\ j - Len(p) \in 1..Len(q)
        BY <1>1, <1>2, <2>2
      <3>2. p[i] < q[j - Len(p)]
        BY <3>1
      <3> QED BY <1>1, <2>2, <3>1, <3>2
    <2>3. CASE Len(p) < i
      <3>1. i - Len(p) \in 1..Len(q) /\ j - Len(p) \in 1..Len(q) /\ i - Len(p) < j - Len(p)
        BY <1>1, <1>2, <2>3
      <3>2. q[i - Len(p)] < q[j - Len(p)]
        BY <3>1 DEF Increases
      <3> QED BY <1>1, <1>2, <2>3, <3>1, <3>2
    <2> QED BY <1>1, <2>1, <2>2, <2>3, SMTT(30)
  <1>3. DOMAIN (p \o q) = 1..Len(p \o q)
    BY <1>1
  <1>4. ASSUME NEW k \in 1..Len(p \o q)
        PROVE  \/ \E i \in 1..Len(p) : (p \o q)[k] = p[i]
               \/ \E j \in 1..Len(q) : (p \o q)[k] = q[j]
    <2>1. CASE k <= Len(p)
      <3>1. k \in 1..Len(p)
        BY <1>1, <2>1
      <3> QED BY <1>1, <2>1, <3>1
    <2>2. CASE Len(p) < k
      <3>1. k - Len(p) \in 1..Len(q)
        BY <1>1, <2>2
      <3> QED BY <1>1, <2>2, <3>1
    <2> QED BY <1>1, <2>1, <2>2
  <1> QED BY <1>1, <1>2, <1>3, <1>4 DEF Increases

\* A sequence over a set is one over a larger set.
LEMMA SeqOfMore ==
    ASSUME NEW S, NEW T, S \subseteq T, NEW q \in Seq(S)
    PROVE  q \in Seq(T)
  <1>1. Len(q) \in Nat /\ \A i \in 1..Len(q) : q[i] \in T
    OBVIOUS
  <1>2. q = [i \in 1..Len(q) |-> q[i]]
    OBVIOUS
  <1>3. PICK n \in Nat : n = Len(q)
    BY <1>1
  <1>4. q \in [1..n -> T]
    BY <1>1, <1>2, <1>3
  <1> QED BY <1>3, <1>4, SeqDef

----
\* What a subscription knows stays true while the history and the rows go on.
LEMMA WatchFrame ==
    ASSUME HistInv, RowInv, HistInv', RowInv', Grows, NEW w, WatchOK(w)
    PROVE  WatchOK(w)'
  <1>1. CASE w.pc = "new"
    BY <1>1 DEF WatchOK
  <1>2. CASE w.pc # "new"
    <2>1. w.task \in Tasks /\ IsWatch(w) /\ ToldOK(w)
      BY <1>2 DEF WatchOK
    <2>2. PICK t \in Tasks : t = w.task
      BY <2>1
    <2>3. /\ Len(hist) \in Nat /\ Len(hist') \in Nat /\ Len(hist) <= Len(hist')
          /\ \A i \in 1..Len(hist) : i \in 1..Len(hist') /\ hist'[i] = hist[i]
          /\ tasks[t].start # 0 => tasks'[t].start = tasks[t].start
          /\ tasks[t].state = "COMPLETED" => tasks'[t] = tasks[t]
      BY EventFacts DEF HistInv, Turns, Grows
    <2>4. ASSUME w.pc = "events" PROVE ReadOK(w)'
      <3>1. ReadOK(w)
        BY <1>2, <2>4 DEF WatchOK
      <3>2. w.row \in TaskRow /\ w.row.start \in {0, tasks[t].start}
            /\ IF w.row.state = "COMPLETED" THEN w.row = tasks[t] ELSE w.row.end = 0
        BY <2>2, <3>1 DEF ReadOK
      <3>3. w.row.start \in {0, tasks'[t].start}
        BY <2>3, <3>2
      <3>4. IF w.row.state = "COMPLETED" THEN w.row = tasks'[t] ELSE w.row.end = 0
        BY <2>3, <3>2
      <3> QED BY <2>2, <3>2, <3>3, <3>4 DEF ReadOK
    <2>5. ToldOK(w)'
      <3>1. w.told \in Seq(1..Len(hist')) /\ Increases(w.told)
        <4>1. w.told \in Seq(1..Len(hist)) /\ Increases(w.told)
          BY <2>1 DEF ToldOK
        <4>2. 1..Len(hist) \subseteq 1..Len(hist')
          BY <2>3
        <4> QED BY <4>1, <4>2, SeqOfMore
      <3>2. /\ \A k \in 1..Len(w.told) : w.told[k] \in w.emitted
            /\ w.emitted \subseteq 1..Len(hist')
        BY <2>1, <2>3 DEF ToldOK
      <3>3. ASSUME w.emitted # {}
            PROVE  /\ tasks'[t].start # 0
                   /\ \E n \in 0..Len(hist') : w.emitted = Agents(hist', tasks'[t].start, n)
        <4>1. tasks[t].start # 0 /\ tasks'[t].start = tasks[t].start
          BY <2>1, <2>2, <2>3, <3>3 DEF ToldOK
        <4>2. PICK n \in 0..Len(hist) : w.emitted = Agents(hist, tasks[t].start, n)
          BY <2>1, <2>2, <3>3 DEF ToldOK
        <4>3. /\ n \in 0..Len(hist')
              /\ Agents(hist', tasks'[t].start, n) = Agents(hist, tasks[t].start, n)
          <5>1. PICK a : a = tasks[t].start
            OBVIOUS
          <5>2. \A i \in 1..Len(hist') : i <= n => i \in 1..Len(hist)
            BY <2>3
          <5>3. {i \in 1..Len(hist') : a <= i /\ i <= n /\ hist'[i].kind = "agent"}
                    = {i \in 1..Len(hist) : a <= i /\ i <= n /\ hist[i].kind = "agent"}
            BY <2>3, <5>2
          <5> QED BY <2>3, <4>1, <5>1, <5>3 DEF Agents
        <4> QED BY <4>1, <4>2, <4>3
      <3> QED BY <2>2, <3>1, <3>2, <3>3 DEF ToldOK
    <2>6. ASSUME w.status.state = "COMPLETED" PROVE DoneOK(w)'
      <3>1. DoneOK(w)
        BY <1>2, <2>6 DEF WatchOK
      <3>2. tasks[t].state = "COMPLETED" /\ tasks'[t] = tasks[t]
        BY <2>2, <2>3, <3>1 DEF DoneOK
      <3>3. OwnTexts(t)' = OwnTexts(t)
        <4>1. /\ \A i \in 1..Len(hist) : hist[i].task = t <=> tasks[t].start <= i /\ i <= tasks[t].end
              /\ \A i \in 1..Len(hist') : hist'[i].task = t <=> tasks[t].start <= i /\ i <= tasks[t].end
          <5>1. /\ tasks[t].start \in 1..Len(hist) /\ tasks[t].end \in 1..Len(hist)
                /\ hist[tasks[t].start] = [kind |-> "user", task |-> t]
                /\ hist[tasks[t].end] = [kind |-> "end_turn", task |-> t]
            BY <3>2, TaskRowFacts
          <5>2. PICK a, b : a = tasks[t].start /\ b = tasks[t].end
            OBVIOUS
          <5>3. \A i \in 1..Len(hist) : hist[i].task = t <=> a <= i /\ i <= b
            BY <5>1, <5>2, TurnBetween DEF HistInv
          <5>4. \A i \in 1..Len(hist') : hist'[i].task = t <=> a <= i /\ i <= b
            <6>1. PICK h : h = hist'
              OBVIOUS
            <6>2. Turns(h)
              BY <6>1 DEF HistInv, Turns
            <6>3. /\ a \in 1..Len(h) /\ b \in 1..Len(h)
                  /\ h[a] = [kind |-> "user", task |-> t] /\ h[b] = [kind |-> "end_turn", task |-> t]
              BY <2>3, <5>1, <5>2, <6>1
            <6>4. \A i \in 1..Len(h) : h[i].task = t <=> a <= i /\ i <= b
              BY <6>2, <6>3, TurnBetween
            <6> QED BY <6>1, <6>4
          <5> QED BY <5>2, <5>3, <5>4
        <4>2. tasks[t].end \in 1..Len(hist)
          BY <3>2, TaskRowFacts
        <4>3. \A i \in 1..Len(hist') : hist'[i].task = t => i \in 1..Len(hist)
          BY <2>3, <4>1, <4>2
        <4>4. \A i : i \in OwnTexts(t)' <=> i \in OwnTexts(t)
          BY <2>3, <4>3 DEF OwnTexts
        <4> QED BY <4>4
      <3> QED BY <2>2, <2>3, <3>1, <3>2, <3>3 DEF DoneOK
    <2> QED BY <1>2, <2>1, <2>4, <2>5, <2>6 DEF WatchOK
  <1> QED BY <1>1, <1>2

----
\* The steps of a subscription

\* A step of one subscription.
LEMMA GotoFacts ==
    ASSUME NEW c \in Watchers, DOMAIN watch = Watchers, NEW w, IsWatch(w), NEW pc, WatchGoto(c, w, pc)
    PROVE  /\ DOMAIN watch' = Watchers /\ \A d \in Watchers \ {c} : watch'[d] = watch[d]
           /\ IsWatch(watch'[c]) /\ watch'[c].pc = pc
           /\ \A f \in WatchFields \ {"pc"} : watch'[c][f] = w[f]
  <1>1. PICK u : u = [w EXCEPT !.pc = pc]
    OBVIOUS
  <1>2. DOMAIN watch' = Watchers /\ \A d \in Watchers \ {c} : watch'[d] = watch[d]
    BY DEF WatchGoto
  <1>3. watch'[c] = u
    BY <1>1 DEF WatchGoto
  <1>4. DOMAIN w = WatchFields
    BY DEF IsWatch
  <1>5. u = [f \in WatchFields |-> u[f]] /\ u.pc = pc /\ \A f \in WatchFields \ {"pc"} : u[f] = w[f]
    BY <1>1, <1>4 DEF WatchFields
  <1> QED BY <1>2, <1>3, <1>5 DEF IsWatch

\* One field of a subscription is written.
LEMMA FieldFacts ==
    ASSUME NEW w, IsWatch(w), NEW f \in WatchFields, NEW v
    PROVE  /\ IsWatch([w EXCEPT ![f] = v]) /\ [w EXCEPT ![f] = v][f] = v
           /\ \A g \in WatchFields \ {f} : [w EXCEPT ![f] = v][g] = w[g]
  <1>1. DOMAIN w = WatchFields
    BY DEF IsWatch
  <1>2. PICK x : x = [w EXCEPT ![f] = v]
    OBVIOUS
  <1>3. x = [g \in WatchFields |-> x[g]] /\ x[f] = v /\ \A g \in WatchFields \ {f} : x[g] = w[g]
    BY <1>1, <1>2
  <1> QED BY <1>2, <1>3 DEF IsWatch

\* u is w with another program counter.
Moved(u, w, pc) == IsWatch(u) /\ u.pc = pc /\ \A f \in WatchFields \ {"pc"} : u[f] = w[f]

\* The history and the rows are as they were.
LEMMA WatchSame ==
    ASSUME UNCHANGED <<hist, tasks>>, NEW w, WatchOK(w)
    PROVE  WatchOK(w)'
  BY DEF WatchOK, ReadOK, ToldOK, DoneOK, OwnTexts

\* A subscription that goes on with what it knew, or stops.
LEMMA MoveKeeps ==
    ASSUME NEW w, WatchOK(w), w.pc \in {"marker", "row", "events"}, NEW u, IsWatch(u),
           u.pc # "new", u.pc = "events" => ReadOK(u),
           \A f \in {"task", "told", "emitted", "status"} : u[f] = w[f]
    PROVE  WatchOK(u)
  <1>1. /\ w.task \in Tasks /\ ToldOK(w) /\ w.status.state # "COMPLETED"
        /\ u.task = w.task /\ u.told = w.told /\ u.emitted = w.emitted /\ u.status = w.status
    BY DEF WatchOK, DoneOK
  <1>2. ToldOK(u)
    BY <1>1 DEF ToldOK
  <1> QED BY <1>1, <1>2 DEF WatchOK

\* The steps of a subscription other than the full read.
LEMMA StepKeeps ==
    ASSUME HistInv, RowInv, WatchInv, NEW c \in Watchers,
           \/ \E t \in Tasks : Subscribe(c, t)
           \/ SnapshotDue(c) \/ watch_marker(c) \/ _get_task(c) \/ Break(c)
    PROVE  WatchInv' /\ UNCHANGED <<hist, tasks, active>>
  <1>0. UNCHANGED <<hist, tasks, active>>
    BY DEF Subscribe, SnapshotDue, watch_marker, _get_task, Break
  <1>1. PICK w : w = watch[c]
    OBVIOUS
  <1>2. DOMAIN watch = Watchers /\ WatchOK(w) /\ IsWatch(w)
    BY <1>1 DEF WatchInv, WatchOK
  <1>3. ASSUME NEW x, IsWatch(x), NEW pc, WatchGoto(c, x, pc),
               \A u : Moved(u, x, pc) => WatchOK(u)
        PROVE  WatchInv'
    <2>1. PICK u : u = watch'[c]
      OBVIOUS
    <2>2. /\ DOMAIN watch' = Watchers /\ \A d \in Watchers \ {c} : watch'[d] = watch[d]
          /\ Moved(u, x, pc)
      BY <1>2, <1>3, <2>1, GotoFacts DEF Moved
    <2>3. WatchOK(u)
      BY <1>3, <2>2
    <2>4. WatchOK(u)'
      BY <1>0, <2>3, WatchSame
    <2>5. ASSUME NEW d \in Watchers PROVE WatchOK(watch[d])'
      <3>1. CASE d = c
        BY <2>1, <2>4, <3>1
      <3>2. CASE d # c
        <4>1. PICK z : z = watch[d]
          OBVIOUS
        <4>2. WatchOK(z)'
          BY <1>0, <4>1, WatchSame DEF WatchInv
        <4>3. watch'[d] = z
          BY <2>2, <3>2, <4>1
        <4> QED BY <4>2, <4>3
      <3> QED BY <3>1, <3>2
    <2> QED BY <2>2, <2>5 DEF WatchInv
  <1>4. CASE \E t \in Tasks : Subscribe(c, t)
    <2>1. PICK t \in Tasks : Subscribe(c, t)
      BY <1>4
    <2>2. PICK x : x = [w EXCEPT !.task = t]
      OBVIOUS
    <2>3. w = NewWatch /\ WatchGoto(c, x, "row")
      BY <1>1, <1>2, <2>1, <2>2 DEF Subscribe, WatchAt, WatchOK
    <2>4. /\ IsWatch(x) /\ x.task = t
          /\ \A f \in WatchFields \ {"task"} : x[f] = w[f]
      BY <1>2, <2>2, FieldFacts DEF WatchFields
    <2>5. \A u : Moved(u, x, "row") => WatchOK(u)
      <3>0. SUFFICES ASSUME NEW u, Moved(u, x, "row") PROVE WatchOK(u)
        OBVIOUS
      <3>1. u.task = t /\ u.told = <<>> /\ u.emitted = {} /\ u.status.state = "SUBMITTED"
        BY <2>3, <2>4, <3>0 DEF WatchFields, NewWatch, Moved
      <3>2. ToldOK(u)
        BY <3>1 DEF ToldOK, Increases
      <3> QED BY <3>0, <3>1, <3>2 DEF WatchOK, Moved
    <2> QED BY <1>0, <1>3, <2>3, <2>4, <2>5
  <1>5. CASE SnapshotDue(c)
    <2>0. PICK v : v = TRUE
      OBVIOUS
    <2>1. PICK x : x = [w EXCEPT !.due = v]
      OBVIOUS
    <2>2. w.pc = "marker" /\ WatchGoto(c, x, "marker")
      BY <1>1, <1>5, <2>0, <2>1 DEF SnapshotDue, WatchAt
    <2>3. IsWatch(x) /\ \A f \in WatchFields \ {"due"} : x[f] = w[f]
      BY <1>2, <2>1, FieldFacts DEF WatchFields
    <2>4. \A u : Moved(u, x, "marker") => WatchOK(u)
      <3>0. SUFFICES ASSUME NEW u, Moved(u, x, "marker") PROVE WatchOK(u)
        OBVIOUS
      <3> QED BY <1>2, <2>2, <2>3, <3>0, MoveKeeps DEF WatchFields, Moved
    <2> QED BY <1>0, <1>3, <2>2, <2>3, <2>4
  <1>6. CASE watch_marker(c)
    <2>1. PICK x : x = [w EXCEPT !.next = MarkerOf(tasks[w.task])]
      OBVIOUS
    <2>2. w.pc = "marker" /\ WatchGoto(c, x, "row")
      BY <1>1, <1>6, <2>1 DEF watch_marker, WatchAt
    <2>3. IsWatch(x) /\ \A f \in WatchFields \ {"next"} : x[f] = w[f]
      BY <1>2, <2>1, FieldFacts DEF WatchFields
    <2>4. \A u : Moved(u, x, "row") => WatchOK(u)
      <3>0. SUFFICES ASSUME NEW u, Moved(u, x, "row") PROVE WatchOK(u)
        OBVIOUS
      <3> QED BY <1>2, <2>2, <2>3, <3>0, MoveKeeps DEF WatchFields, Moved
    <2> QED BY <1>0, <1>3, <2>2, <2>3, <2>4
  <1>7. CASE _get_task(c)
    <2>1. PICK x : x = [w EXCEPT !.row = tasks[w.task]]
      OBVIOUS
    <2>2. w.pc = "row" /\ WatchGoto(c, x, "events")
      BY <1>1, <1>7, <2>1 DEF _get_task, WatchAt
    <2>3. IsWatch(x) /\ x.row = tasks[w.task] /\ \A f \in WatchFields \ {"row"} : x[f] = w[f]
      BY <1>2, <2>1, FieldFacts, SMTT(30) DEF WatchFields
    <2>4. \A u : Moved(u, x, "events") => WatchOK(u)
      <3>0. SUFFICES ASSUME NEW u, Moved(u, x, "events") PROVE WatchOK(u)
        OBVIOUS
      <3>1. u.task = w.task /\ w.task \in Tasks /\ u.row = tasks[u.task]
        BY <1>2, <2>2, <2>3, <3>0 DEF WatchFields, WatchOK, Moved
      <3>2. tasks[u.task] \in TaskRow /\ (tasks[u.task].state # "COMPLETED" => tasks[u.task].end = 0)
        BY <3>1, TaskRowFacts
      <3>3. ReadOK(u)
        BY <3>1, <3>2 DEF ReadOK
      <3> QED BY <1>2, <2>2, <2>3, <3>0, <3>3, MoveKeeps DEF WatchFields, Moved
    <2> QED BY <1>0, <1>3, <2>2, <2>3, <2>4
  <1>8. CASE Break(c)
    <2>1. w.pc \in {"marker", "row", "events"} /\ WatchGoto(c, w, "broken")
      BY <1>1, <1>8 DEF Break
    <2>2. \A u : Moved(u, w, "broken") => WatchOK(u)
      <3>0. SUFFICES ASSUME NEW u, Moved(u, w, "broken") PROVE WatchOK(u)
        OBVIOUS
      <3> QED BY <1>2, <2>1, <3>0, MoveKeeps DEF WatchFields, Moved
    <2> QED BY <1>0, <1>2, <1>3, <2>1, <2>2
  <1> QED BY <1>0, <1>4, <1>5, <1>6, <1>7, <1>8

----
\* A full read

\* A view v with the messages x: what is new comes after what was told, and the view of
\* a completed task is its turn.
Sees(w, v, x) ==
    /\ v \subseteq 1..Len(hist) /\ x \subseteq v
    /\ w.emitted \cup x # {} =>
          /\ tasks[w.task].start # 0
          /\ \E n \in 0..Len(hist) : w.emitted \cup x = Agents(hist, tasks[w.task].start, n)
    /\ \A i \in w.emitted, j \in x \ w.emitted : i < j
    /\ w.row.state = "COMPLETED" =>
          /\ tasks[w.task].state = "COMPLETED" /\ x = OwnTexts(w.task)
          /\ \A i \in v : hist[i].task = w.task

\* What a reader that holds the row cuts out of the history.
LEMMA ViewFacts ==
    ASSUME HistInv, RowInv, NEW w, w.task \in Tasks, ReadOK(w), ToldOK(w),
           NEW v, v = Slice(w.row, hist), NEW x, x = Texts(v, hist)
    PROVE  Sees(w, v, x)
  <1>1. PICK t, a, b, l : t = w.task /\ a = w.row.start /\ b = w.row.end /\ l = Len(hist)
    OBVIOUS
  <1>2. t \in Tasks /\ a \in Nat /\ b \in Nat /\ l \in Nat /\ a \in {0, tasks[t].start}
    BY <1>1, EventFacts DEF ReadOK, TaskRow, HistInv, Turns
  <1>3. /\ v = {i \in 1..l : a > 0 /\ i >= a /\ (b > 0 => i <= b) /\ hist[i].kind \in {"user", "agent"}}
        /\ x = {i \in v : hist[i].kind = "agent"}
    BY <1>1 DEF Slice, Texts
  <1>4. a # 0 => a = tasks[t].start /\ tasks[t].start \in 1..l
    BY <1>1, <1>2, TaskRowFacts
  <1>5. b <= l
    <2>1. CASE w.row.state = "COMPLETED"
      <3>1. w.row = tasks[t] /\ tasks[t].state = "COMPLETED"
        BY <1>1, <2>1 DEF ReadOK
      <3>2. tasks[t].end \in 1..Len(hist)
        BY <1>2, <3>1, TaskRowFacts
      <3> QED BY <1>1, <1>2, <3>1, <3>2
    <2>2. CASE w.row.state # "COMPLETED"
      BY <1>1, <1>2, <2>2 DEF ReadOK
    <2> QED BY <2>1, <2>2
  <1>6. PICK m \in 0..l : m = IF b > 0 THEN b ELSE l
    BY <1>2, <1>5
  <1>7. x = IF a = 0 THEN {} ELSE Agents(hist, a, m)
    <2>1. CASE a = 0
      BY <1>2, <1>3, <2>1
    <2>2. CASE a # 0
      <3>1. \A i \in 1..l : (b > 0 => i <= b) <=> i <= m
        BY <1>2, <1>6
      <3>2. \A i : i \in x <=> i \in Agents(hist, a, m)
        BY <1>1, <1>2, <1>3, <2>2, <3>1 DEF Agents
      <3> QED BY <2>2, <3>2
    <2> QED BY <2>1, <2>2
  <1>8. v \subseteq 1..Len(hist) /\ x \subseteq v
    BY <1>1, <1>3
  <1>9. ASSUME w.emitted # {}
        PROVE  \E n \in 0..l : tasks[t].start # 0 /\ w.emitted = Agents(hist, tasks[t].start, n)
    BY <1>1, <1>9 DEF ToldOK
  <1>10. w.emitted \cup x # {} =>
            /\ tasks[t].start # 0
            /\ \E n \in 0..l : w.emitted \cup x = Agents(hist, tasks[t].start, n)
    <2>1. CASE w.emitted = {}
      <3>1. x # {} => tasks[t].start # 0 /\ x = Agents(hist, tasks[t].start, m)
        BY <1>2, <1>4, <1>7
      <3> QED BY <1>6, <2>1, <3>1
    <2>2. CASE w.emitted # {} /\ a = 0
      BY <1>7, <1>9, <2>2
    <2>3. CASE w.emitted # {} /\ a # 0
      <3>1. PICK n \in 0..l : tasks[t].start # 0 /\ w.emitted = Agents(hist, a, n)
        BY <1>4, <1>9, <2>3
      <3>2. PICK k \in 0..l : k = IF n < m THEN m ELSE n
        BY <1>2, <1>6
      <3>3. \A i \in 1..l : (i <= n \/ i <= m) <=> i <= k
        BY <1>2, <1>6, <3>2
      <3>4. w.emitted \cup x = Agents(hist, a, k)
        BY <1>1, <1>7, <2>3, <3>1, <3>3 DEF Agents
      <3> QED BY <1>4, <2>3, <3>1, <3>4
    <2> QED BY <2>1, <2>2, <2>3
  <1>11. ASSUME NEW i \in w.emitted, NEW j \in x \ w.emitted
         PROVE  i < j
    <2>1. a # 0 /\ j \in Agents(hist, a, m)
      BY <1>7, <1>11
    <2>2. PICK n \in 0..l : w.emitted = Agents(hist, a, n)
      BY <1>4, <1>9, <1>11, <2>1
    <2>3. i \in 1..l /\ i <= n
      BY <1>1, <1>11, <2>2 DEF Agents
    <2>4. j \in 1..l /\ ~ (j <= n)
      BY <1>1, <1>11, <2>1, <2>2 DEF Agents
    <2> QED BY <1>2, <2>3, <2>4
  <1>12. ASSUME w.row.state = "COMPLETED"
         PROVE  /\ tasks[t].state = "COMPLETED" /\ x = OwnTexts(t)
                /\ \A i \in v : hist[i].task = t
    <2>1. w.row = tasks[t]
      BY <1>1, <1>12 DEF ReadOK
    <2>2. /\ tasks[t].state = "COMPLETED" /\ a \in 1..l /\ b \in 1..l
          /\ hist[a] = [kind |-> "user", task |-> t] /\ hist[b] = [kind |-> "end_turn", task |-> t]
      BY <1>1, <1>2, <1>12, <2>1, TaskRowFacts
    <2>3. \A i \in 1..l : hist[i].task = t <=> a <= i /\ i <= b
      <3>1. Turns(hist) /\ a \in 1..Len(hist) /\ b \in 1..Len(hist)
        BY <1>1, <2>2 DEF HistInv
      <3>2. \A i \in 1..Len(hist) : hist[i].task = t <=> a <= i /\ i <= b
        BY <2>2, <3>1, TurnBetween
      <3> QED BY <1>1, <3>2
    <2>4. \A i \in v : hist[i].task = t
      BY <1>2, <1>3, <2>2, <2>3
    <2>5. \A i \in 1..l : i \in x <=> hist[i].kind = "agent" /\ hist[i].task = t
      BY <1>2, <1>3, <2>2, <2>3
    <2>6. \A i \in 1..l : i \in OwnTexts(t) <=> hist[i].kind = "agent" /\ hist[i].task = t
      <3>1. \A e \in Event : e = [kind |-> "agent", task |-> t] <=> e.kind = "agent" /\ e.task = t
        BY DEF Event
      <3>2. \A i \in 1..l : hist[i] \in Event
        BY <1>1, EventFacts DEF HistInv, Turns
      <3> QED BY <1>1, <3>1, <3>2 DEF OwnTexts
    <2>7. x \subseteq 1..l /\ OwnTexts(t) \subseteq 1..l
      BY <1>1, <1>8 DEF OwnTexts
    <2>8. x = OwnTexts(t)
      BY <2>5, <2>6, <2>7
    <2> QED BY <2>2, <2>4, <2>8
  <1> QED BY <1>1, <1>8, <1>10, <1>11, <1>12 DEF Sees

\* What is told after a full read.
LEMMA TellKeeps ==
    ASSUME HistInv, RowInv, SortInv, WatchInv, NEW c \in Watchers, build_task(c)
    PROVE  WatchInv' /\ UNCHANGED <<hist, tasks, active>>
  <1>0. UNCHANGED <<hist, tasks, active>>
    BY DEF build_task
  <1>1. PICK w : w = watch[c]
    OBVIOUS
  <1>2. /\ DOMAIN watch = Watchers /\ WatchOK(w) /\ IsWatch(w) /\ w.pc = "events"
        /\ w.task \in Tasks /\ ReadOK(w) /\ ToldOK(w)
    BY <1>1 DEF WatchInv, WatchOK, build_task, WatchAt
  <1>3. PICK v, x, q, st, pc :
           /\ v = Slice(w.row, hist) /\ x = Texts(v, hist) /\ q = InOrder(x \ w.emitted)
           /\ st = StatusOf(w.row, v, hist)
           /\ pc = IF st.state \in Boundary THEN "closed" ELSE "marker"
    OBVIOUS
  <1>4. st.state = w.row.state /\ (w.row.state = "COMPLETED" => st.message = MaxOf(x))
    BY <1>3 DEF StatusOf
  <1>5. PICK f : f = FALSE
    OBVIOUS
  <1>6. PICK y : y = [w EXCEPT !.view = v, !.marker = w.next, !.row = NewRow, !.next = Unread,
                               !.due = f, !.emitted = @ \cup x, !.status = st,
                               !.told = @ \o q]
    OBVIOUS
  <1>7. WatchGoto(c, y, pc)
    BY <1>1, <1>3, <1>5, <1>6 DEF build_task, Tell, Unseen
  <1>8. /\ IsWatch(y) /\ y.task = w.task /\ y.view = v /\ y.emitted = w.emitted \cup x
        /\ y.status = st /\ y.told = w.told \o q
    <2>1. DOMAIN w = WatchFields
      BY <1>2 DEF IsWatch
    <2>2. y = [g \in WatchFields |-> y[g]]
      BY <1>6, <2>1
    <2>3. /\ y.task = w.task /\ y.view = v /\ y.emitted = w.emitted \cup x
          /\ y.status = st /\ y.told = w.told \o q
      BY <1>6, <2>1 DEF WatchFields
    <2> QED BY <2>2, <2>3 DEF IsWatch
  <1>9. PICK n \in Nat : n = Len(hist)
    BY EventFacts DEF HistInv, Turns
  <1>10. /\ v \subseteq 1..n /\ x \subseteq v
         /\ w.emitted \cup x # {} =>
               /\ tasks[w.task].start # 0
               /\ \E m \in 0..n : w.emitted \cup x = Agents(hist, tasks[w.task].start, m)
         /\ \A i \in w.emitted, j \in x \ w.emitted : i < j
         /\ w.row.state = "COMPLETED" =>
               /\ tasks[w.task].state = "COMPLETED" /\ x = OwnTexts(w.task)
               /\ \A i \in v : hist[i].task = w.task
    <2>1. v = Slice(w.row, hist) /\ x = Texts(v, hist)
      BY <1>3
    <2>2. HistInv /\ RowInv /\ w.task \in Tasks /\ ReadOK(w) /\ ToldOK(w)
      BY <1>2
    <2>3. Sees(w, v, x)
      BY <2>1, <2>2, ViewFacts
    <2> QED BY <1>9, <2>3 DEF Sees
  <1>11. /\ w.told \in Seq(1..n) /\ Increases(w.told) /\ w.emitted \subseteq 1..n
         /\ \A k \in 1..Len(w.told) : w.told[k] \in w.emitted
    BY <1>2, <1>9 DEF ToldOK
  <1>12. q \in Seq(1..n) /\ Increases(q) /\ \A k \in 1..Len(q) : q[k] \in x \ w.emitted
    <2>1. x \ w.emitted \in SUBSET (1..n)
      BY <1>10
    <2> QED BY <1>3, <1>9, <2>1, InOrderFacts
  <1>13. PICK z : z = w.told \o q
    OBVIOUS
  <1>14. /\ z \in Seq(1..n) /\ Increases(z)
         /\ \A k \in 1..Len(z) : z[k] \in w.emitted \cup x
    <2>1. \A i \in 1..Len(w.told), j \in 1..Len(q) : w.told[i] < q[j]
      BY <1>10, <1>11, <1>12
    <2>2. /\ z \in Seq(1..n) /\ Increases(z)
          /\ \A k \in 1..Len(z) : \/ \E i \in 1..Len(w.told) : z[k] = w.told[i]
                                  \/ \E j \in 1..Len(q) : z[k] = q[j]
      <3>1. PICK p : p = w.told
        OBVIOUS
      <3>2. /\ p \in Seq(1..n) /\ Increases(p) /\ q \in Seq(1..n) /\ Increases(q)
            /\ \A i \in 1..Len(p), j \in 1..Len(q) : p[i] < q[j]
        BY <1>11, <1>12, <2>1, <3>1
      <3>3. /\ p \o q \in Seq(1..n) /\ Increases(p \o q)
            /\ \A k \in 1..Len(p \o q) : \/ \E i \in 1..Len(p) : (p \o q)[k] = p[i]
                                         \/ \E j \in 1..Len(q) : (p \o q)[k] = q[j]
        BY <3>2, JoinIncreases
      <3> QED BY <1>13, <3>1, <3>3
    <2> QED BY <1>11, <1>12, <2>2
  <1>15. PICK u : u = watch'[c]
    OBVIOUS
  <1>16. /\ DOMAIN watch' = Watchers /\ \A d \in Watchers \ {c} : watch'[d] = watch[d]
         /\ Moved(u, y, pc)
    BY <1>2, <1>7, <1>8, <1>15, GotoFacts DEF Moved
  <1>17. /\ IsWatch(u) /\ u.pc = pc /\ u.task = w.task /\ u.view = v
         /\ u.emitted = w.emitted \cup x /\ u.status = st /\ u.told = z
    BY <1>8, <1>13, <1>16 DEF Moved, WatchFields
  <1>18. pc \in {"closed", "marker"} /\ (st.state = "COMPLETED" => pc = "closed")
    BY <1>3 DEF Boundary, Terminal
  <1>19. ToldOK(u)
    <2>1. w.emitted \cup x \subseteq 1..n
      BY <1>10, <1>11
    <2> QED BY <1>9, <1>10, <1>14, <1>17, <2>1 DEF ToldOK
  <1>20. ASSUME u.status.state = "COMPLETED" PROVE DoneOK(u)
    <2>1. w.row.state = "COMPLETED"
      BY <1>4, <1>17, <1>20
    <2> QED BY <1>4, <1>9, <1>10, <1>17, <1>18, <1>20, <2>1 DEF DoneOK
  <1>21. WatchOK(u)
    BY <1>2, <1>17, <1>18, <1>19, <1>20 DEF WatchOK
  <1>22. ASSUME NEW d \in Watchers PROVE WatchOK(watch[d])'
    <2>1. CASE d = c
      BY <1>0, <1>15, <1>21, <2>1, WatchSame
    <2>2. CASE d # c
      <3>1. PICK r : r = watch[d]
        OBVIOUS
      <3>2. WatchOK(r)'
        BY <1>0, <3>1, WatchSame DEF WatchInv
      <3>3. watch'[d] = r
        BY <1>16, <2>2, <3>1
      <3> QED BY <3>2, <3>3
    <2> QED BY <2>1, <2>2
  <1> QED BY <1>0, <1>16, <1>22 DEF WatchInv

----
\* Every step of the provider, the scheduler, the operator and the subscriptions.
LEMMA NextKeeps == ViewInv /\ [ViewNext]_viewVars => ViewInv'
  <1> SUFFICES ASSUME ViewInv, [ViewNext]_viewVars PROVE ViewInv'
    OBVIOUS
  <1>0. HistInv /\ RowInv /\ SortInv /\ WatchInv
    BY DEF ViewInv
  <1>1. ASSUME HistInv', RowInv', Grows, watch' = watch
        PROVE  ViewInv'
    <2>1. SortInv'
      BY <1>0, <1>1, SortKept
    <2>2. ASSUME NEW c \in Watchers PROVE WatchOK(watch[c])'
      <3>1. PICK w : w = watch[c]
        OBVIOUS
      <3>2. WatchOK(w)'
        BY <1>0, <1>1, <3>1, WatchFrame DEF WatchInv
      <3> QED BY <1>1, <3>1, <3>2
    <2>3. WatchInv'
      BY <1>0, <1>1, <2>2 DEF WatchInv
    <2> QED BY <1>1, <2>1, <2>3 DEF ViewInv
  <1>2. ASSUME WatchInv', UNCHANGED <<hist, tasks, active>>
        PROVE  ViewInv'
    BY <1>0, <1>2 DEF ViewInv, HistInv, RowInv, SortInv, LastTask
  <1>3. CASE Provider
    <2>1. watch' = watch
      BY <1>3 DEF Provider, ProviderSays, ProviderRests, ProviderResumes
    <2> QED BY <1>0, <1>1, <1>3, <2>1, ProviderKeeps
  <1>4. CASE \E t \in Tasks : Controller(t)
    <2>1. watch' = watch
      BY <1>4 DEF Controller, Dispatch, _bind_input, _set_running, _set_waiting_state,
                  _finish, resolve_held_task
    <2> QED BY <1>0, <1>1, <1>4, <2>1, ControllerKeeps
  <1>5. CASE \E c \in Watchers : \/ \E t \in Tasks : Subscribe(c, t)
                                 \/ SnapshotDue(c) \/ Watch(c) \/ Break(c)
    BY <1>0, <1>2, <1>5, StepKeeps, TellKeeps DEF Watch
  <1>6. CASE UNCHANGED viewVars
    <2>1. UNCHANGED <<hist, tasks, active, watch>>
      BY <1>6 DEF viewVars
    <2>2. WatchInv'
      <3>1. ASSUME NEW c \in Watchers PROVE WatchOK(watch[c])'
        <4>1. PICK w : w = watch[c]
          OBVIOUS
        <4>2. WatchOK(w)'
          BY <1>0, <2>1, <4>1, WatchSame DEF WatchInv
        <4> QED BY <2>1, <4>1, <4>2
      <3> QED BY <1>0, <2>1, <3>1 DEF WatchInv
    <2> QED BY <1>2, <2>1, <2>2
  <1> QED BY <1>3, <1>4, <1>5, <1>6 DEF ViewNext

\* A turn is one stretch of the session's history, and what a subscription has read, told
\* and reported agrees with it, however the reads of the row, the history and the marker
\* interleave with the work on the task.
THEOREM ViewInvariant == ViewSpec => []ViewInv
  <1>1. ViewInit => ViewInv
    <2> SUFFICES ASSUME ViewInit PROVE ViewInv
      OBVIOUS
    <2>1. hist = <<>> /\ Len(hist) = 0 /\ hist \in Seq(Event) /\ 1..Len(hist) = {}
      BY DEF ViewInit
    <2>2. HistInv
      BY <2>1 DEF HistInv, Turns
    <2>3. RowInv
      <3>1. /\ NewRow \in TaskRow /\ NewRow.start = 0
            /\ NewRow.end = 0 /\ NewRow.state = "SUBMITTED"
        BY DEF NewRow, TaskRow, States
      <3> QED BY <2>1, <3>1 DEF ViewInit, RowInv
    <2>4. SortInv
      <3>1. SUFFICES ASSUME NEW s \in SUBSET (1..Len(hist))
                     PROVE  \E q \in [1..Cardinality(s) -> s] : Increases(q)
        BY DEF SortInv
      <3>2. s = {} /\ Cardinality(s) = 0
        BY <2>1, FS_EmptySet
      <3>3. PICK q : q = [i \in {} |-> 0]
        OBVIOUS
      <3>4. q \in [1..0 -> s] /\ Increases(q)
        BY <3>3 DEF Increases
      <3> QED BY <3>2, <3>4
    <2>5. WatchInv
      <3>1. IsWatch(NewWatch) /\ NewWatch.pc = "new"
        BY DEF IsWatch, NewWatch, WatchFields
      <3> QED BY <3>1 DEF ViewInit, WatchInv, WatchOK
    <2> QED BY <2>2, <2>3, <2>4, <2>5 DEF ViewInv
  <1> QED BY <1>1, NextKeeps, PTL DEF ViewSpec

\* For any number of tasks, messages, requests and subscribers, a subscriber is told the
\* messages in order and once, all of them when the task completes, and nothing of
\* another turn.
THEOREM WatchTellsAll == ViewSpec => []WatchComplete
  <1>1. ViewInv => WatchComplete
    <2> SUFFICES ASSUME ViewInv, NEW c \in Watchers
                 PROVE  /\ watch[c].status.state = "COMPLETED" =>
                              \A i \in watch[c].view : hist[i].task = watch[c].task
                        /\ \A i, j \in 1..Len(watch[c].told) :
                              i < j => watch[c].told[i] < watch[c].told[j]
                        /\ WatchAt(c, "closed") /\ watch[c].status.state = "COMPLETED" =>
                              /\ OwnTexts(watch[c].task) \subseteq watch[c].emitted
                              /\ watch[c].status.message = MaxOf(OwnTexts(watch[c].task))
      BY DEF WatchComplete
    <2>1. PICK w : w = watch[c]
      OBVIOUS
    <2>2. WatchOK(w)
      BY <2>1 DEF ViewInv, WatchInv
    <2>3. CASE w.pc = "new"
      <3>1. w.told = <<>> /\ w.status.state # "COMPLETED"
        BY <2>2, <2>3 DEF WatchOK, NewWatch
      <3> QED BY <2>1, <3>1
    <2>4. CASE w.pc # "new"
      <3>1. w.told \in Seq(1..Len(hist)) /\ Increases(w.told)
        BY <2>2, <2>4 DEF WatchOK, ToldOK
      <3>2. \A i, j \in 1..Len(w.told) : i < j => w.told[i] < w.told[j]
        BY <3>1 DEF Increases
      <3>3. w.status.state = "COMPLETED" => DoneOK(w)
        BY <2>2, <2>4 DEF WatchOK
      <3> QED BY <2>1, <3>2, <3>3 DEF DoneOK
    <2> QED BY <2>3, <2>4
  <1> QED BY <1>1, ViewInvariant, PTL

----
\* The types of what a subscription keeps

\* A set of events that is not empty has a last one.
LastInv == \A s \in SUBSET (1..Len(hist)) : s # {} => \E m \in s : \A j \in s : j <= m

\* What a subscription keeps points into a history of n events.
KeepsTypes(w, n) ==
    /\ w.pc \in {"new", "marker", "row", "events", "closed", "broken"}
    /\ w.task \in {0} \cup Tasks /\ w.row \in TaskRow
    /\ w.next \in {Unread} \cup Marker /\ w.marker \in {Unread} \cup Marker
    /\ w.due \in BOOLEAN
    /\ w.view \in SUBSET (1..n) /\ w.emitted \in SUBSET (1..n) /\ w.told \in Seq(1..n)
    /\ w.status \in Status

ViewTypes ==
    /\ LastInv /\ fails \in 0..MaxFails
    /\ \A c \in Watchers : KeepsTypes(watch[c], Len(hist))

\* A longer history keeps the types.
LEMMA LongerKeepsTypes ==
    ASSUME NEW n \in Nat, NEW k \in {n, n + 1}, NEW w, KeepsTypes(w, n)
    PROVE  KeepsTypes(w, k)
  <1>1. 1..n \subseteq 1..k
    OBVIOUS
  <1>2. \A q \in Seq(1..n) : q \in Seq(1..k)
    BY <1>1, SeqOfMore
  <1>3. w.view \in SUBSET (1..k) /\ w.emitted \in SUBSET (1..k)
    BY <1>1 DEF KeepsTypes
  <1>4. w.told \in Seq(1..k)
    BY <1>2 DEF KeepsTypes
  <1> QED BY <1>3, <1>4 DEF KeepsTypes

\* The history has grown by one event at most.
LEMMA LastKept ==
    ASSUME HistInv, LastInv, Grows
    PROVE  LastInv'
  <1>1. PICK n \in Nat : n = Len(hist)
    BY EventFacts DEF HistInv, Turns
  <1>2. PICK k \in {n, n + 1} : k = Len(hist')
    BY <1>1 DEF Grows
  <1>3. ASSUME NEW s \in SUBSET (1..k), s # {}
        PROVE  \E m \in s : \A j \in s : j <= m
    <2>1. CASE \E i \in s : i = n + 1
      <3>1. PICK m \in s : m = n + 1
        BY <2>1
      <3>2. \A j \in s : j <= m
        BY <3>1, <1>2
      <3> QED BY <3>2
    <2>2. CASE ~ \E i \in s : i = n + 1
      <3>1. \A i \in s : i \in 1..n
        BY <2>2
      <3>2. s \in SUBSET (1..n)
        BY <3>1
      <3> QED BY <1>1, <1>3, <3>2 DEF LastInv
    <2> QED BY <2>1, <2>2
  <1> QED BY <1>2, <1>3 DEF LastInv

\* The last of a set of events, the number of the message that a completed task's
\* status carries.
LEMMA MaxOfFacts ==
    ASSUME LastInv, NEW s \in SUBSET (1..Len(hist)), s # {}
    PROVE  MaxOf(s) \in s /\ \A j \in s : j <= MaxOf(s)
  <1>1. \E m \in s : \A j \in s : j <= m
    BY DEF LastInv
  <1>2. MaxOf(s) = CHOOSE m \in s : \A j \in s : j <= m
    BY DEF MaxOf
  <1> QED BY <1>1, <1>2

\* The marker of a row.
LEMMA MarkerType == ASSUME NEW r \in TaskRow PROVE MarkerOf(r) \in Marker
  BY DEF TaskRow, MarkerOf, Marker

\* Every subscription but one is as it was, and that one has the types.
LEMMA OneWatch ==
    ASSUME DOMAIN watch = Watchers, ViewTypes, hist' = hist, fails' = fails,
           NEW c \in Watchers, NEW w, IsWatch(w), NEW pc,
           pc \in {"marker", "row", "events", "closed", "broken"},
           KeepsTypes([w EXCEPT !.pc = pc], Len(hist)), WatchGoto(c, w, pc)
    PROVE  ViewTypes'
  <1>1. /\ watch'[c] = [w EXCEPT !.pc = pc]
        /\ \A d \in Watchers \ {c} : watch'[d] = watch[d]
    BY DEF WatchGoto
  <1>2. ASSUME NEW d \in Watchers PROVE KeepsTypes(watch'[d], Len(hist'))
    <2>1. CASE d = c
      BY <1>1, <2>1
    <2>2. CASE d # c
      <3>1. watch'[d] = watch[d]
        BY <1>1, <2>2
      <3> QED BY <3>1 DEF ViewTypes
    <2> QED BY <2>1, <2>2
  <1>3. LastInv' /\ fails' \in 0..MaxFails
    BY DEF ViewTypes, LastInv
  <1> QED BY <1>2, <1>3 DEF ViewTypes

\* A subscription whose program counter moves.
LEMMA PcType ==
    ASSUME NEW n, NEW w, IsWatch(w), KeepsTypes(w, n),
           NEW pc \in {"marker", "row", "events", "closed", "broken"}
    PROVE  KeepsTypes([w EXCEPT !.pc = pc], n)
  <1>1. PICK u : u = [w EXCEPT !.pc = pc]
    OBVIOUS
  <1>2. /\ u.pc = pc /\ u.task = w.task /\ u.row = w.row /\ u.next = w.next
        /\ u.marker = w.marker /\ u.due = w.due /\ u.view = w.view
        /\ u.emitted = w.emitted /\ u.told = w.told /\ u.status = w.status
    <2>1. u["pc"] = pc /\ \A g \in WatchFields \ {"pc"} : u[g] = w[g]
      BY <1>1, FieldFacts DEF WatchFields
    <2> QED BY <2>1 DEF WatchFields
  <1>3. KeepsTypes(u, n)
    BY <1>2 DEF KeepsTypes
  <1> QED BY <1>1, <1>3

\* The steps of a subscription other than the full read.
LEMMA StepTypes ==
    ASSUME ViewInv, ViewTypes, NEW c \in Watchers,
           \/ \E t \in Tasks : Subscribe(c, t)
           \/ SnapshotDue(c) \/ watch_marker(c) \/ _get_task(c) \/ Break(c)
    PROVE  ViewTypes'
  <1>0. hist' = hist /\ fails' = fails
    BY DEF Subscribe, SnapshotDue, watch_marker, _get_task, Break
  <1>1. PICK w, n : w = watch[c] /\ n = Len(hist)
    OBVIOUS
  <1>2. DOMAIN watch = Watchers /\ WatchOK(w) /\ IsWatch(w) /\ KeepsTypes(w, n)
    BY <1>1 DEF ViewInv, WatchInv, WatchOK, ViewTypes
  <1>3. ASSUME NEW x, IsWatch(x), KeepsTypes(x, n), WatchGoto(c, x, "broken") \/ WatchGoto(c, x, "row")
                   \/ WatchGoto(c, x, "marker") \/ WatchGoto(c, x, "events")
        PROVE  ViewTypes'
    <2>1. \A pc \in {"marker", "row", "events", "closed", "broken"} :
             KeepsTypes([x EXCEPT !.pc = pc], Len(hist))
      BY <1>1, <1>3, PcType
    <2>2. PICK pc \in {"marker", "row", "events", "closed", "broken"} : WatchGoto(c, x, pc)
      BY <1>3
    <2> QED BY <1>0, <1>2, <1>3, <2>1, <2>2, OneWatch
  <1>4. ASSUME NEW f \in WatchFields \ {"pc"}, NEW v, NEW x, x = [w EXCEPT ![f] = v]
        PROVE  IsWatch(x) /\ x[f] = v /\ \A g \in WatchFields \ {f} : x[g] = w[g]
    <2>1. f \in WatchFields
      OBVIOUS
    <2>2. /\ IsWatch([w EXCEPT ![f] = v]) /\ [w EXCEPT ![f] = v][f] = v
          /\ \A g \in WatchFields \ {f} : [w EXCEPT ![f] = v][g] = w[g]
      BY <1>2, <2>1, FieldFacts
    <2> QED BY <1>4, <2>2
  <1>5. CASE \E t \in Tasks : Subscribe(c, t)
    <2>1. PICK t \in Tasks : Subscribe(c, t)
      BY <1>5
    <2>2. PICK x : x = [w EXCEPT !.task = t]
      OBVIOUS
    <2>3. IsWatch(x) /\ x.task = t /\ \A g \in WatchFields \ {"task"} : x[g] = w[g]
      BY <1>4, <2>2 DEF WatchFields
    <2>4. KeepsTypes(x, n)
      BY <1>2, <2>3 DEF KeepsTypes, WatchFields
    <2>5. WatchGoto(c, x, "row")
      BY <1>1, <2>1, <2>2 DEF Subscribe
    <2> QED BY <1>3, <2>3, <2>4, <2>5
  <1>6. CASE SnapshotDue(c)
    <2>0. PICK b \in BOOLEAN : b = TRUE
      OBVIOUS
    <2>2. PICK x : x = [w EXCEPT !.due = b]
      OBVIOUS
    <2>3. IsWatch(x) /\ x.due = b /\ \A g \in WatchFields \ {"due"} : x[g] = w[g]
      BY <1>4, <2>2 DEF WatchFields
    <2>4. KeepsTypes(x, n)
      BY <1>2, <2>3 DEF KeepsTypes, WatchFields
    <2>5. WatchGoto(c, x, "marker")
      BY <1>1, <1>6, <2>0, <2>2 DEF SnapshotDue
    <2> QED BY <1>3, <2>3, <2>4, <2>5
  <1>7. CASE watch_marker(c)
    <2>0. PICK m : m = MarkerOf(tasks[w.task])
      OBVIOUS
    <2>1. m \in Marker
      <3>1. w.pc = "marker" /\ w.task \in Tasks
        BY <1>1, <1>2, <1>7 DEF watch_marker, WatchAt, WatchOK
      <3>2. tasks[w.task] \in TaskRow
        BY <3>1, TaskRowFacts DEF ViewInv
      <3> QED BY <2>0, <3>2, MarkerType
    <2>2. PICK x : x = [w EXCEPT !.next = m]
      OBVIOUS
    <2>3. IsWatch(x) /\ x.next = m /\ \A g \in WatchFields \ {"next"} : x[g] = w[g]
      BY <1>4, <2>2 DEF WatchFields
    <2>4. KeepsTypes(x, n)
      BY <1>2, <2>1, <2>3 DEF KeepsTypes, WatchFields
    <2>5. WatchGoto(c, x, "row")
      BY <1>1, <1>7, <2>0, <2>2 DEF watch_marker
    <2> QED BY <1>3, <2>3, <2>4, <2>5
  <1>8. CASE _get_task(c)
    <2>0. PICK r : r = tasks[w.task]
      OBVIOUS
    <2>1. r \in TaskRow
      <3>1. w.pc = "row" /\ w.task \in Tasks
        BY <1>1, <1>2, <1>8 DEF _get_task, WatchAt, WatchOK
      <3> QED BY <2>0, <3>1, TaskRowFacts DEF ViewInv
    <2>2. PICK x : x = [w EXCEPT !.row = r]
      OBVIOUS
    <2>3. IsWatch(x) /\ x.row = r /\ \A g \in WatchFields \ {"row"} : x[g] = w[g]
      BY <1>4, <2>2 DEF WatchFields
    <2>4. KeepsTypes(x, n)
      BY <1>2, <2>1, <2>3 DEF KeepsTypes, WatchFields
    <2>5. WatchGoto(c, x, "events")
      BY <1>1, <1>8, <2>0, <2>2 DEF _get_task
    <2> QED BY <1>3, <2>3, <2>4, <2>5
  <1>9. CASE Break(c)
    <2>1. WatchGoto(c, w, "broken")
      BY <1>1, <1>9 DEF Break
    <2> QED BY <1>2, <1>3, <2>1
  <1> QED BY <1>5, <1>6, <1>7, <1>8, <1>9

\* The full read.
LEMMA TellTypes ==
    ASSUME ViewInv, ViewTypes, NEW c \in Watchers, build_task(c)
    PROVE  ViewTypes'
  <1>0. hist' = hist /\ fails' = fails
    BY DEF build_task
  <1>1. PICK w, n, v, x, q, st, pc, f :
           /\ w = watch[c] /\ n = Len(hist) /\ f = FALSE
           /\ v = Slice(w.row, hist) /\ x = Texts(v, hist) /\ q = InOrder(x \ w.emitted)
           /\ st = StatusOf(w.row, v, hist)
           /\ pc = IF st.state \in Boundary THEN "closed" ELSE "marker"
    OBVIOUS
  <1>2. DOMAIN watch = Watchers /\ IsWatch(w) /\ KeepsTypes(w, n) /\ n \in Nat
    <2>1. n \in Nat
      BY <1>1, EventFacts DEF ViewInv, HistInv, Turns
    <2>2. WatchOK(w)
      BY <1>1 DEF ViewInv, WatchInv
    <2> QED BY <1>1, <2>1, <2>2 DEF ViewInv, WatchInv, WatchOK, ViewTypes
  <1>3. v \in SUBSET (1..n) /\ x \in SUBSET v
    BY <1>1 DEF Slice, Texts
  <1>4. st \in Status
    <2>1. x # {} => MaxOf(x) \in 1..n
      <3> SUFFICES ASSUME x # {} PROVE MaxOf(x) \in 1..n
        OBVIOUS
      <3>1. x \in SUBSET (1..Len(hist)) /\ LastInv
        BY <1>1, <1>3 DEF ViewTypes
      <3>2. MaxOf(x) \in x
        BY <3>1, MaxOfFacts
      <3> QED BY <1>3, <3>2
    <2>2. x = {} => MaxOf(x) = 0
      BY DEF MaxOf
    <2>3. MaxOf(x) \in Nat
      BY <1>2, <2>1, <2>2
    <2>4. w.row.state \in States
      BY <1>2 DEF KeepsTypes, TaskRow
    <2>5. st = [state |-> w.row.state,
                message |-> IF w.row.state = "COMPLETED" THEN MaxOf(x) ELSE 0]
      BY <1>1 DEF StatusOf
    <2>6. (IF w.row.state = "COMPLETED" THEN MaxOf(x) ELSE 0) \in Nat
      BY <2>3
    <2> QED BY <2>4, <2>5, <2>6 DEF Status
  <1>5. q \in Seq(1..n)
    <2>1. x \ w.emitted \in SUBSET (1..n)
      BY <1>3
    <2> QED BY <1>1, <1>2, <2>1, InOrderFacts DEF ViewInv
  <1>6. PICK z : z = w.told \o q
    OBVIOUS
  <1>7. z \in Seq(1..n)
    <2>1. w.told \in Seq(1..n)
      BY <1>2 DEF KeepsTypes
    <2> QED BY <1>5, <1>6, <2>1, ConcatProperties
  <1>8. PICK y : y = [w EXCEPT !.view = v, !.marker = w.next, !.row = NewRow, !.next = Unread,
                               !.due = f, !.emitted = @ \cup x, !.status = st,
                               !.told = @ \o q]
    OBVIOUS
  <1>9. WatchGoto(c, y, pc)
    BY <1>1, <1>8 DEF build_task, Tell, Unseen
  <1>10. IsWatch(y) /\ KeepsTypes(y, n)
    <2>1. DOMAIN w = WatchFields
      BY <1>2 DEF IsWatch
    <2>2. y = [g \in WatchFields |-> y[g]]
      BY <1>8, <2>1
    <2>3. /\ y.pc = w.pc /\ y.task = w.task /\ y.row = NewRow /\ y.next = Unread
          /\ y.marker = w.next /\ y.due = f /\ y.view = v /\ y.emitted = w.emitted \cup x
          /\ y.status = st /\ y.told = z
      BY <1>6, <1>8, <2>1 DEF WatchFields
    <2>4. NewRow \in TaskRow
      BY DEF NewRow, TaskRow, States
    <2>5. w.emitted \cup x \in SUBSET (1..n)
      BY <1>2, <1>3 DEF KeepsTypes
    <2>6. f \in BOOLEAN
      BY <1>1
    <2>7. KeepsTypes(y, n)
      BY <1>2, <1>3, <1>4, <1>7, <2>3, <2>4, <2>5, <2>6 DEF KeepsTypes
    <2> QED BY <2>2, <2>7 DEF IsWatch
  <1>11. pc \in {"marker", "row", "events", "closed", "broken"}
    BY <1>1
  <1>12. KeepsTypes([y EXCEPT !.pc = pc], Len(hist))
    BY <1>1, <1>10, <1>11, PcType
  <1> QED BY <1>0, <1>2, <1>9, <1>10, <1>11, <1>12, OneWatch

\* Every step.
LEMMA TypesKept == ViewInv /\ ViewTypes /\ [ViewNext]_viewVars => ViewTypes'
  <1> SUFFICES ASSUME ViewInv, ViewTypes, [ViewNext]_viewVars PROVE ViewTypes'
    OBVIOUS
  <1>0. HistInv /\ RowInv
    BY DEF ViewInv
  <1>1. ASSUME Grows, watch' = watch, fails' \in 0..MaxFails
        PROVE  ViewTypes'
    <2>1. LastInv'
      BY <1>0, <1>1, LastKept DEF ViewTypes
    <2>2. PICK n \in Nat : n = Len(hist)
      BY <1>0, EventFacts DEF HistInv, Turns
    <2>3. PICK k \in {n, n + 1} : k = Len(hist')
      BY <1>1, <2>2 DEF Grows
    <2>4. \A c \in Watchers : KeepsTypes(watch[c], k)
      BY <2>2, LongerKeepsTypes DEF ViewTypes
    <2> QED BY <1>1, <2>1, <2>3, <2>4 DEF ViewTypes
  <1>2. fails \in 0..MaxFails /\ MaxFails \in Nat
    BY ViewAssumption DEF ViewTypes
  <1>3. CASE Provider
    <2>1. watch' = watch /\ fails' = fails
      BY <1>3 DEF Provider, ProviderSays, ProviderRests, ProviderResumes
    <2> QED BY <1>0, <1>1, <1>2, <1>3, <2>1, ProviderKeeps
  <1>4. CASE \E t \in Tasks : Controller(t)
    <2>1. watch' = watch
      BY <1>4 DEF Controller, Dispatch, _bind_input, _set_running, _set_waiting_state,
                  _finish, resolve_held_task
    <2>2. fails' = fails \/ (fails < MaxFails /\ fails' = fails + 1)
      BY <1>4 DEF Controller, Dispatch, _bind_input, _set_running, _set_waiting_state,
                  _finish, resolve_held_task
    <2>3. fails' \in 0..MaxFails
      BY <1>2, <2>2
    <2> QED BY <1>0, <1>1, <1>4, <2>1, <2>3, ControllerKeeps
  <1>5. CASE \E c \in Watchers : \/ \E t \in Tasks : Subscribe(c, t)
                                 \/ SnapshotDue(c) \/ Watch(c) \/ Break(c)
    BY <1>5, StepTypes, TellTypes DEF Watch
  <1>6. CASE UNCHANGED viewVars
    BY <1>6 DEF viewVars, ViewTypes, LastInv
  <1> QED BY <1>3, <1>4, <1>5, <1>6 DEF ViewNext

\* The types hold in every state.
LEMMA ViewTypesAlways == ViewSpec => []ViewTypes
  <1>1. ViewInit => ViewTypes
    <2> SUFFICES ASSUME ViewInit PROVE ViewTypes
      OBVIOUS
    <2>1. Len(hist) = 0 /\ 1..Len(hist) = {} /\ fails \in 0..MaxFails
      BY ViewAssumption DEF ViewInit
    <2>2. LastInv
      BY <2>1 DEF LastInv
    <2>3. KeepsTypes(NewWatch, 0)
      <3>1. NewRow \in TaskRow /\ [state |-> "SUBMITTED", message |-> 0] \in Status
        BY DEF NewRow, TaskRow, States, Status
      <3>2. <<>> \in Seq(1..0) /\ {} \in SUBSET (1..0)
        OBVIOUS
      <3>3. FALSE \in BOOLEAN
        OBVIOUS
      <3> QED BY <3>1, <3>2, <3>3 DEF KeepsTypes, NewWatch
    <2> QED BY <2>1, <2>2, <2>3 DEF ViewInit, ViewTypes
  <1> QED BY <1>1, ViewInvariant, TypesKept, PTL DEF ViewSpec

\* What a subscription keeps always refers to events of the history as it then is: the
\* views, the messages told and the rows' first and last events.
THEOREM ViewTypesHold == ViewSpec => []ViewTypeOK
  <1>1. ViewInv /\ ViewTypes => ViewTypeOK
    <2> SUFFICES ASSUME ViewInv, ViewTypes PROVE ViewTypeOK
      OBVIOUS
    <2>1. /\ hist \in Seq(Event) /\ Len(hist) \in Nat /\ tasks \in [Tasks -> TaskRow]
          /\ active \in {0} \cup Tasks
      BY EventFacts DEF ViewInv, HistInv, Turns, RowInv
    <2>2. ASSUME NEW t \in Tasks
          PROVE  tasks[t].start \in 0..Len(hist) /\ tasks[t].end \in 0..Len(hist)
      <3>1. /\ tasks[t].start # 0 => tasks[t].start \in 1..Len(hist)
            /\ tasks[t].state = "COMPLETED" => tasks[t].end \in 1..Len(hist)
            /\ tasks[t].state # "COMPLETED" => tasks[t].end = 0
        BY TaskRowFacts DEF ViewInv
      <3>2. \A i \in 1..Len(hist) : i \in 0..Len(hist)
        OBVIOUS
      <3>3. 0 \in 0..Len(hist)
        BY <2>1
      <3> QED BY <3>1, <3>2, <3>3
    <2>3. fails \in 0..MaxFails /\ \A c \in Watchers : KeepsTypes(watch[c], Len(hist))
      BY DEF ViewTypes
    <2> QED BY <2>1, <2>2, <2>3 DEF ViewTypeOK, KeepsTypes
  <1> QED BY <1>1, ViewInvariant, ViewTypesAlways, PTL

\* The message of the status that ends a subscription is one of the task's, and no message
\* of the task comes after it.
CarriesLast ==
    \A c \in Watchers :
        LET own == OwnTexts(watch[c].task) IN
        (WatchAt(c, "closed") /\ watch[c].status.state = "COMPLETED" /\ own # {}) =>
            /\ watch[c].status.message \in own
            /\ \A i \in own : i <= watch[c].status.message

\* build_task() gives a completed task's status the text of the last agent message in its
\* own slice: for any number of tasks and messages that is the last message of the task.
THEOREM StatusCarriesLast == ViewSpec => []CarriesLast
  <1>1. LastInv /\ WatchComplete => CarriesLast
    <2> SUFFICES ASSUME LastInv, WatchComplete, NEW c \in Watchers, NEW own,
                        own = OwnTexts(watch[c].task), own # {}, WatchAt(c, "closed"),
                        watch[c].status.state = "COMPLETED"
                 PROVE  /\ watch[c].status.message \in own
                        /\ \A i \in own : i <= watch[c].status.message
      BY DEF CarriesLast
    <2>1. watch[c].status.message = MaxOf(own)
      BY DEF WatchComplete
    <2>2. own \in SUBSET (1..Len(hist))
      BY DEF OwnTexts
    <2>3. MaxOf(own) \in own /\ \A i \in own : i <= MaxOf(own)
      BY <2>2, MaxOfFacts
    <2> QED BY <2>1, <2>3
  <1>2. ViewTypes => LastInv
    BY DEF ViewTypes
  <1> QED BY <1>1, <1>2, ViewTypesAlways, WatchTellsAll, PTL

====
