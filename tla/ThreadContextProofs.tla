---- MODULE ThreadContextProofs ----
(***************************************************************************)
(* Proofs about ThreadContext, for any number of threads, messages and      *)
(* workers: its types, what a bound row says, what an acknowledged message  *)
(* may rely on, that a live claim is kept, and that the rows implement      *)
(* ThreadBinding.                                                           *)
(***************************************************************************)
EXTENDS ThreadContext, TLAPS

----
\* The inductive invariant

\* A thread has a context exactly when it is ready.
RowInv == \A t \in Threads : thread[t].state = "ready" <=> thread[t].context # None

\* A claim on a row was handed out, and a claim that is not live has expired.
ClaimInv ==
    \A t \in Threads : thread[t].state = "initializing" =>
        /\ thread[t].claim \in 1..claims
        /\ ~thread[t].live => thread[t].claim \in expired

\* A row has a task exactly when it is bound.
LogInv == \A m \in Msgs : logical[m].status = "bound" <=> logical[m].task # None

\* The worker has a message, and the context it has read is the thread's.
ReadInv(p) ==
    turn[p].pc # "idle" =>
        /\ turn[p].msg \in Msgs
        /\ turn[p].context # None => /\ thread[Of(p)].state = "ready"
                                     /\ thread[Of(p)].context = turn[p].context

\* It has a claim or a context, never both, when it sends.
HoldInv(p) ==
    /\ turn[p].pc \in {"record", "claim", "bindTask", "push"} => turn[p].claim = 0
    /\ turn[p].pc = "claim" => turn[p].context = None
    /\ turn[p].pc \in {"send", "wait"} => (turn[p].claim = 0 <=> turn[p].context # None)
    /\ turn[p].pc \in {"release", "bindContext"} => turn[p].claim # 0

\* The answer it has is the task of its message: in the context its message
\* created before the binding, in the thread's context after it.
AnswerInv(p) ==
    /\ turn[p].pc = "bindContext" => /\ turn[p].task = <<turn[p].msg, turn[p].msg>>
                                     /\ turn[p].task \in tasks
    /\ turn[p].pc \in {"bindTask", "push"} =>
           /\ thread[Of(p)].state = "ready"
           /\ turn[p].task = <<thread[Of(p)].context, turn[p].msg>>
           /\ turn[p].task \in tasks
    /\ turn[p].pc = "push" => logical[turn[p].msg] = [status |-> "bound",
                                                      task |-> turn[p].task]

TurnInv(p) == ReadInv(p) /\ HoldInv(p) /\ AnswerInv(p)

\* No two workers have the same claim.
UniqueInv ==
    /\ \A p \in Procs : turn[p].claim <= claims
    /\ \A p, q \in Procs : p # q /\ turn[p].claim # 0 => turn[p].claim # turn[q].claim

IInv ==
    /\ TypeOK
    /\ RowInv
    /\ ClaimInv
    /\ LogInv
    /\ \A p \in Procs : TurnInv(p)
    /\ UniqueInv
    /\ BoundTaskInContext
    /\ AckedIsComplete
    /\ LiveClaimKept

----
\* What no step undoes

Kept ==
    /\ \A t \in Threads : thread[t].state = "ready" => thread'[t] = thread[t]
    /\ \A m \in Msgs : logical[m].status = "bound" => logical'[m] = logical[m]
    /\ tasks \subseteq tasks'
    /\ pushed \subseteq pushed'

\* Every step is one of these.
Cases ==
    \/ \E p \in Procs, m \in Msgs : Start(p, m)
    \/ \E p \in Procs :
          \/ record_logical_send(p) \/ ClaimAcquired(p) \/ ClaimReady(p) \/ ClaimBusy(p)
          \/ send_message(p) \/ Answer(p) \/ Refuse(p) \/ Timeout(p)
          \/ release_context_initialization(p) \/ bind_context(p) \/ bind_task_id(p)
          \/ create_push_config(p) \/ Crash(p)
    \/ \E r \in (Msgs \cup {None}) \X Msgs : AdmitRequest(r) \/ LoseRequest(r)
    \/ \E t \in Threads : ClaimExpires(t)

\* Workers in Python and in TypeScript take the same steps.
LEMMA NextCases == Next => Cases
  BY Zenon DEF Next, Cases, Step, send_turn, send, logicalSend, claim, bindContext, release,
         bindTask, claim_context_initialization, Procs

----
\* Types

\* A worker's record may be replaced by another one.
LEMMA TurnType ==
    ASSUME TypeOK, NEW p \in Procs, NEW l \in Turn, turn' = [turn EXCEPT ![p] = l]
    PROVE  turn' \in [Procs -> Turn]
  BY DEF TypeOK

\* An idle worker has a typed record.
LEMMA IdleType == IdleTurn \in Turn
  BY DEF IdleTurn, Turn, Pcs

\* A worker may move to another program counter.
LEMMA GotoType ==
    ASSUME TypeOK, NEW p \in Procs, NEW c \in Pcs, Goto(p, c)
    PROVE  turn' \in [Procs -> Turn]
  BY DEF TypeOK, Goto, Turn

\* A worker may become idle.
LEMMA EndType ==
    ASSUME TypeOK, NEW p \in Procs, End(p)
    PROVE  turn' \in [Procs -> Turn]
  BY IdleType, TurnType DEF End

\* A fault is counted within its bound.
LEMMA FaultType ==
    ASSUME faults \in 0..MaxFaults, Fault \/ UNCHANGED faults
    PROVE  faults' \in 0..MaxFaults
  BY ThreadAssumption DEF Fault

\* The initial rows are typed.
LEMMA InitType == Init => TypeOK
  <1> SUFFICES ASSUME Init PROVE TypeOK
    OBVIOUS
  <1>1. [state |-> "uninitialized", context |-> None, claim |-> 0, live |-> FALSE]
            \in ThreadRow
    BY DEF ThreadRow
  <1>2. [status |-> "none", task |-> None] \in LogicalRow
    BY DEF LogicalRow
  <1>3. faults \in 0..MaxFaults
    BY ThreadAssumption DEF Init
  <1> QED BY <1>1, <1>2, <1>3, IdleType DEF Init, TypeOK

\* Every step keeps the types.
LEMMA TypeStep ==
    ASSUME TypeOK, ClaimInv, \A p \in Procs : TurnInv(p), Cases
    PROVE  TypeOK'
  <1>1. CASE \E p \in Procs, m \in Msgs : Start(p, m)
    <2> PICK p \in Procs, m \in Msgs : Start(p, m)
      BY <1>1
    <2>1. [pc |-> "record", msg |-> m, claim |-> 0,
           context |-> thread[ThreadOf[m]].context, task |-> None] \in Turn
      BY ThreadAssumption DEF Turn, TypeOK, ThreadRow, Pcs
    <2>2. turn' \in [Procs -> Turn]
      BY <2>1, TurnType DEF Start
    <2>3. faults' \in 0..MaxFaults
      BY FaultType DEF Start, TypeOK
    <2> QED BY <2>2, <2>3 DEF Start, TypeOK
  <1>2. ASSUME NEW p \in Procs, record_logical_send(p)
        PROVE  TypeOK'
    <2>1. turn[p].msg \in Msgs
      BY <1>2 DEF record_logical_send, TurnInv, ReadInv
    <2>2. [status |-> "pending", task |-> None] \in LogicalRow
      BY DEF LogicalRow
    <2>3. logical' \in [Msgs -> LogicalRow]
      BY <1>2, <2>1, <2>2 DEF record_logical_send, TypeOK
    <2>4. turn' \in [Procs -> Turn]
      BY <1>2, GotoType DEF record_logical_send, Pcs, Holding
    <2> QED BY <1>2, <2>3, <2>4 DEF record_logical_send, TypeOK
  <1>3. ASSUME NEW p \in Procs, ClaimAcquired(p)
        PROVE  TypeOK'
    <2>1. turn[p].msg \in Msgs /\ Of(p) \in Threads
      BY <1>3, ThreadAssumption DEF ClaimAcquired, TurnInv, ReadInv, Of
    <2>2. claims' \in Nat /\ claims' = claims + 1
      BY <1>3 DEF ClaimAcquired, TypeOK
    <2>3. [state |-> "initializing", context |-> None, claim |-> claims', live |-> TRUE]
              \in ThreadRow
      BY <2>2 DEF ThreadRow
    <2>4. thread' \in [Threads -> ThreadRow]
      BY <1>3, <2>1, <2>2, <2>3 DEF ClaimAcquired, TypeOK
    <2>5. [turn[p] EXCEPT !.pc = "send", !.claim = claims'] \in Turn
      BY <2>2 DEF TypeOK, Turn, Pcs, Holding
    <2>6. turn' \in [Procs -> Turn]
      BY <1>3, <2>2, <2>5, TurnType DEF ClaimAcquired
    <2>7. expired' \subseteq 1..claims'
      BY <1>3, <2>2 DEF ClaimAcquired, TypeOK
    <2> QED BY <1>3, <2>2, <2>4, <2>6, <2>7 DEF ClaimAcquired, TypeOK
  <1>4. ASSUME NEW p \in Procs, ClaimReady(p)
        PROVE  TypeOK'
    <2>1. turn[p].msg \in Msgs /\ Of(p) \in Threads
      BY <1>4, ThreadAssumption DEF ClaimReady, TurnInv, ReadInv, Of
    <2>2. [turn[p] EXCEPT !.pc = "send", !.context = thread[Of(p)].context] \in Turn
      BY <2>1 DEF TypeOK, Turn, Pcs, Holding, ThreadRow
    <2>3. turn' \in [Procs -> Turn]
      BY <1>4, <2>2, TurnType DEF ClaimReady
    <2> QED BY <1>4, <2>3 DEF ClaimReady, TypeOK
  <1>5. ASSUME NEW p \in Procs, ClaimBusy(p)
        PROVE  TypeOK'
    BY <1>5, EndType DEF ClaimBusy, TypeOK
  <1>6. ASSUME NEW p \in Procs, send_message(p)
        PROVE  TypeOK'
    <2>1. <<turn[p].context, turn[p].msg>> \in (Msgs \cup {None}) \X Msgs
      BY <1>6 DEF send_message, TurnInv, ReadInv, TypeOK, Turn
    <2>2. turn' \in [Procs -> Turn]
      BY <1>6, GotoType DEF send_message, Pcs, Holding
    <2> QED BY <1>6, <2>1, <2>2 DEF send_message, TypeOK
  <1>7. ASSUME NEW p \in Procs, Answer(p)
        PROVE  TypeOK'
    <2> DEFINE k == TaskFor(<<turn[p].context, turn[p].msg>>)
    <2>1. k \in Tasks
      BY <1>7 DEF Answer, TypeOK
    <2>2. [turn[p] EXCEPT !.task = k,
              !.pc = IF turn[p].claim # 0 THEN "bindContext" ELSE "bindTask"] \in Turn
      BY <2>1 DEF TypeOK, Turn, Pcs, Holding
    <2>3. turn' \in [Procs -> Turn]
      BY <1>7, <2>2, TurnType DEF Answer
    <2> QED BY <1>7, <2>3 DEF Answer, TypeOK
  <1>8. ASSUME NEW p \in Procs, Refuse(p)
        PROVE  TypeOK'
    <2>1. turn' \in [Procs -> Turn]
      BY <1>8, GotoType, EndType DEF Refuse, Pcs, Holding
    <2>2. faults' \in 0..MaxFaults
      BY <1>8, FaultType DEF Refuse, TypeOK
    <2> QED BY <1>8, <2>1, <2>2 DEF Refuse, TypeOK
  <1>9. ASSUME NEW p \in Procs, Timeout(p) \/ Crash(p)
        PROVE  TypeOK'
    <2>1. turn' \in [Procs -> Turn]
      BY <1>9, EndType DEF Timeout, Crash
    <2>2. faults' \in 0..MaxFaults
      BY <1>9, FaultType DEF Timeout, Crash, TypeOK
    <2> QED BY <1>9, <2>1, <2>2 DEF Timeout, Crash, TypeOK
  <1>10. ASSUME NEW p \in Procs, release_context_initialization(p)
         PROVE  TypeOK'
    <2>1. turn[p].msg \in Msgs /\ Of(p) \in Threads
      BY <1>10, ThreadAssumption
      DEF release_context_initialization, TurnInv, ReadInv, Of
    <2>2. [state |-> "uninitialized", context |-> None, claim |-> 0, live |-> FALSE]
              \in ThreadRow
      BY DEF ThreadRow
    <2>3. thread' \in [Threads -> ThreadRow]
      BY <1>10, <2>1, <2>2 DEF release_context_initialization, TypeOK
    <2>4. turn' \in [Procs -> Turn]
      BY <1>10, EndType DEF release_context_initialization
    <2> QED BY <1>10, <2>3, <2>4 DEF release_context_initialization, TypeOK
  <1>11. ASSUME NEW p \in Procs, bind_context(p)
         PROVE  TypeOK'
    <2>1. turn[p].msg \in Msgs /\ Of(p) \in Threads
      BY <1>11, ThreadAssumption DEF bind_context, TurnInv, ReadInv, Of
    <2>a. turn[p].pc = "bindContext"
      BY <1>11 DEF bind_context
    <2>b. turn[p].task = <<turn[p].msg, turn[p].msg>>
      BY <2>a DEF TurnInv, AnswerInv
    <2>2. turn[p].task[1] \in Msgs
      BY <2>1, <2>b
    <2>3. [state |-> "ready", context |-> turn[p].task[1], claim |-> 0, live |-> FALSE]
              \in ThreadRow
      BY <2>2 DEF ThreadRow
    <2>4. thread' \in [Threads -> ThreadRow]
      BY <1>11, <2>1, <2>3 DEF bind_context, TypeOK
    <2>5. [turn[p] EXCEPT !.pc = "bindTask", !.claim = 0] \in Turn
      BY DEF TypeOK, Turn, Pcs
    <2>6. turn' \in [Procs -> Turn]
      BY <1>11, <2>5, TurnType, EndType DEF bind_context
    <2> QED BY <1>11, <2>4, <2>6 DEF bind_context, TypeOK
  <1>12. ASSUME NEW p \in Procs, bind_task_id(p)
         PROVE  TypeOK'
    <2>1. turn[p].msg \in Msgs /\ turn[p].task \in Tasks
      BY <1>12 DEF bind_task_id, TurnInv, ReadInv, AnswerInv, TypeOK
    <2>2. [status |-> "bound", task |-> turn[p].task] \in LogicalRow
      BY <2>1 DEF LogicalRow
    <2>3. logical' \in [Msgs -> LogicalRow]
      BY <1>12, <2>1, <2>2 DEF bind_task_id, TypeOK
    <2>4. turn' \in [Procs -> Turn]
      BY <1>12, GotoType, EndType DEF bind_task_id, Pcs
    <2> QED BY <1>12, <2>3, <2>4 DEF bind_task_id, TypeOK
  <1>13. ASSUME NEW p \in Procs, create_push_config(p)
         PROVE  TypeOK'
    <2>1. turn[p].msg \in Msgs /\ turn[p].task \in tasks
      BY <1>13 DEF create_push_config, TurnInv, ReadInv, AnswerInv
    <2>2. turn' \in [Procs -> Turn]
      BY <1>13, EndType DEF create_push_config
    <2>3. faults' \in 0..MaxFaults
      BY <1>13, FaultType DEF create_push_config, TypeOK
    <2> QED BY <1>13, <2>1, <2>2, <2>3 DEF create_push_config, TypeOK
  <1>14. ASSUME NEW r \in (Msgs \cup {None}) \X Msgs, AdmitRequest(r)
         PROVE  TypeOK'
    <2>1. ContextFor(r) \in Msgs /\ TaskFor(r) \in Tasks
      BY DEF ContextFor, TaskFor, Tasks
    <2> QED BY <1>14, <2>1 DEF AdmitRequest, TypeOK
  <1>15. ASSUME NEW r \in (Msgs \cup {None}) \X Msgs, LoseRequest(r)
         PROVE  TypeOK'
    <2>1. faults' \in 0..MaxFaults
      BY <1>15, FaultType DEF LoseRequest, TypeOK
    <2> QED BY <1>15, <2>1 DEF LoseRequest, TypeOK
  <1>16. ASSUME NEW t \in Threads, ClaimExpires(t)
         PROVE  TypeOK'
    <2>1. [thread[t] EXCEPT !.live = FALSE] \in ThreadRow
      BY DEF TypeOK, ThreadRow
    <2>2. thread' \in [Threads -> ThreadRow]
      BY <1>16, <2>1 DEF ClaimExpires, TypeOK
    <2>3. expired' \subseteq 1..claims'
      BY <1>16 DEF ClaimExpires, ClaimInv, TypeOK
    <2>4. faults' \in 0..MaxFaults
      BY <1>16, FaultType DEF ClaimExpires, TypeOK
    <2> QED BY <1>16, <2>2, <2>3, <2>4 DEF ClaimExpires, TypeOK
  <1> QED
    BY <1>1, <1>2, <1>3, <1>4, <1>5, <1>6, <1>7, <1>8, <1>9, <1>10, <1>11, <1>12, <1>13,
       <1>14, <1>15, <1>16 DEF Cases

----
\* The invariant, part by part

\* A ready thread, a bound row and what the controller made are never undone.
LEMMA KeptStep ==
    ASSUME TypeOK, \A p \in Procs : TurnInv(p), Cases
    PROVE  Kept
  <1>1. CASE \E p \in Procs, m \in Msgs : Start(p, m)
    BY <1>1 DEF Start, Kept
  <1>2. ASSUME NEW p \in Procs, record_logical_send(p)
        PROVE  Kept
    <2>1. turn[p].msg \in Msgs
      BY <1>2 DEF record_logical_send, TurnInv, ReadInv
    <2> QED BY <1>2, <2>1 DEF record_logical_send, Kept, TypeOK
  <1>3. ASSUME NEW p \in Procs, ClaimAcquired(p)
        PROVE  Kept
    <2>1. Of(p) \in Threads
      BY <1>3, ThreadAssumption DEF ClaimAcquired, TurnInv, ReadInv, Of
    <2>2. thread[Of(p)].state # "ready"
      BY <1>3 DEF ClaimAcquired, Claimable
    <2> QED BY <1>3, <2>1, <2>2 DEF ClaimAcquired, Kept, TypeOK
  <1>4. ASSUME NEW p \in Procs,
               ClaimReady(p) \/ ClaimBusy(p) \/ send_message(p) \/ Answer(p) \/ Refuse(p)
                 \/ Timeout(p) \/ Crash(p)
        PROVE  Kept
    BY <1>4 DEF ClaimReady, ClaimBusy, send_message, Answer, Refuse, Timeout, Crash, Kept
  <1>5. ASSUME NEW p \in Procs, release_context_initialization(p)
        PROVE  Kept
    <2>1. Of(p) \in Threads
      BY <1>5, ThreadAssumption DEF release_context_initialization, TurnInv, ReadInv, Of
    <2>2. OwnsClaim(p) => thread[Of(p)].state # "ready"
      BY DEF OwnsClaim
    <2> QED BY <1>5, <2>1, <2>2 DEF release_context_initialization, Kept, TypeOK
  <1>6. ASSUME NEW p \in Procs, bind_context(p)
        PROVE  Kept
    <2>1. Of(p) \in Threads
      BY <1>6, ThreadAssumption DEF bind_context, TurnInv, ReadInv, Of
    <2>2. OwnsClaim(p) => thread[Of(p)].state # "ready"
      BY DEF OwnsClaim
    <2> QED BY <1>6, <2>1, <2>2 DEF bind_context, Kept, TypeOK
  <1>7. ASSUME NEW p \in Procs, bind_task_id(p)
        PROVE  Kept
    <2>1. turn[p].msg \in Msgs
      BY <1>7 DEF bind_task_id, TurnInv, ReadInv
    <2> QED BY <1>7, <2>1 DEF bind_task_id, Kept, TypeOK
  <1>8. ASSUME NEW p \in Procs, create_push_config(p)
        PROVE  Kept
    BY <1>8 DEF create_push_config, Kept
  <1>9. ASSUME NEW r \in (Msgs \cup {None}) \X Msgs, AdmitRequest(r) \/ LoseRequest(r)
        PROVE  Kept
    BY <1>9 DEF AdmitRequest, LoseRequest, Kept
  <1>10. ASSUME NEW t \in Threads, ClaimExpires(t)
         PROVE  Kept
    BY <1>10 DEF ClaimExpires, Kept, TypeOK
  <1> QED
    BY <1>1, <1>2, <1>3, <1>4, <1>5, <1>6, <1>7, <1>8, <1>9, <1>10 DEF Cases

\* A worker that did not move keeps what it relies on.
LEMMA OthersStep ==
    ASSUME TypeOK, Kept, NEW q \in Procs, TurnInv(q), turn'[q] = turn[q]
    PROVE  TurnInv(q)'
  <1>1. ReadInv(q)' /\ HoldInv(q)'
    BY ThreadAssumption DEF Kept, TurnInv, ReadInv, HoldInv, Of
  <1>2. AnswerInv(q)'
    <2>1. turn[q].pc \in {"bindTask", "push"} =>
              turn[q].msg \in Msgs /\ Of(q) \in Threads
      BY ThreadAssumption DEF TurnInv, ReadInv, Of
    <2> QED BY <2>1 DEF Kept, TurnInv, AnswerInv, Of
  <1> QED BY <1>1, <1>2 DEF TurnInv

\* An idle worker relies on nothing.
LEMMA IdleStep ==
    ASSUME TypeOK, NEW p \in Procs, End(p)
    PROVE  TurnInv(p)'
  BY DEF End, IdleTurn, TypeOK, TurnInv, ReadInv, HoldInv, AnswerInv

\* A step of one worker keeps what every worker relies on.
LEMMA MoverStep ==
    ASSUME TypeOK, Kept, \A q \in Procs : TurnInv(q), NEW p \in Procs, TurnInv(p)',
           NEW l, turn' = [turn EXCEPT ![p] = l]
    PROVE  \A q \in Procs : TurnInv(q)'
  <1> TAKE q \in Procs
  <1>1. CASE q = p
    BY <1>1
  <1>2. CASE q # p
    <2>1. turn'[q] = turn[q]
      BY <1>2 DEF TypeOK
    <2> QED BY <2>1, OthersStep
  <1> QED BY <1>1, <1>2

\* A worker that ends keeps what the others rely on.
LEMMA EndStep ==
    ASSUME TypeOK, Kept, \A q \in Procs : TurnInv(q), NEW p \in Procs, End(p)
    PROVE  \A q \in Procs : TurnInv(q)'
  <1>1. TurnInv(p)'
    BY IdleStep
  <1>2. turn' = [turn EXCEPT ![p] = IdleTurn]
    BY DEF End
  <1> QED BY <1>1, <1>2, MoverStep

\* So does a step in which no worker moves.
LEMMA RestStep ==
    ASSUME TypeOK, Kept, \A q \in Procs : TurnInv(q), UNCHANGED turn
    PROVE  \A q \in Procs : TurnInv(q)'
  BY OthersStep

\* Every step keeps what every worker relies on.
LEMMA TurnStep ==
    ASSUME TypeOK, RowInv, ClaimInv, \A q \in Procs : TurnInv(q), Kept, Cases
    PROVE  \A q \in Procs : TurnInv(q)'
  <1>1. ASSUME NEW p \in Procs, NEW m \in Msgs, Start(p, m)
        PROVE  \A q \in Procs : TurnInv(q)'
    <2> DEFINE l == [pc |-> "record", msg |-> m, claim |-> 0,
                     context |-> thread[ThreadOf[m]].context, task |-> None]
    <2>1. turn' = [turn EXCEPT ![p] = l] /\ thread' = thread
      BY <1>1 DEF Start
    <2>2. turn'[p] = l
      BY <2>1 DEF TypeOK
    <2>3. ReadInv(p)'
      BY <2>1, <2>2, ThreadAssumption DEF ReadInv, RowInv, Of
    <2>4. HoldInv(p)' /\ AnswerInv(p)'
      BY <2>2 DEF HoldInv, AnswerInv
    <2>5. TurnInv(p)'
      BY <2>3, <2>4 DEF TurnInv
    <2> QED BY <2>1, <2>5, MoverStep
  <1>2. ASSUME NEW p \in Procs, record_logical_send(p)
        PROVE  \A q \in Procs : TurnInv(q)'
    <2> DEFINE l == [turn[p] EXCEPT !.pc = IF turn[p].context = None THEN "claim"
                                           ELSE "send"]
    <2>1. turn' = [turn EXCEPT ![p] = l] /\ thread' = thread /\ turn[p].pc = "record"
      BY <1>2 DEF record_logical_send, Goto
    <2>2. turn'[p] = l /\ turn[p] \in Turn
      BY <2>1 DEF TypeOK
    <2>3. ReadInv(p)'
      BY <2>1, <2>2 DEF TurnInv, ReadInv, Of, Turn
    <2>a. turn[p].claim = 0
      BY <2>1 DEF TurnInv, HoldInv
    <2>4. HoldInv(p)' /\ AnswerInv(p)'
      BY <2>a, <2>2 DEF HoldInv, AnswerInv, Turn
    <2>5. TurnInv(p)'
      BY <2>3, <2>4 DEF TurnInv
    <2> QED BY <2>1, <2>5, MoverStep
  <1>3. ASSUME NEW p \in Procs, ClaimAcquired(p)
        PROVE  \A q \in Procs : TurnInv(q)'
    <2> DEFINE l == [turn[p] EXCEPT !.pc = "send", !.claim = claims + 1]
    <2>1. turn' = [turn EXCEPT ![p] = l] /\ turn[p].pc = "claim"
      BY <1>3 DEF ClaimAcquired
    <2>2. turn'[p] = l /\ turn[p] \in Turn /\ claims + 1 # 0
      BY <2>1 DEF TypeOK
    <2>3. turn[p].context = None /\ turn[p].msg \in Msgs
      BY <2>1 DEF TurnInv, ReadInv, HoldInv
    <2>4. ReadInv(p)'
      BY <2>2, <2>3 DEF ReadInv, Turn
    <2>5. HoldInv(p)' /\ AnswerInv(p)'
      BY <2>2, <2>3 DEF HoldInv, AnswerInv, Turn
    <2>6. TurnInv(p)'
      BY <2>4, <2>5 DEF TurnInv
    <2> QED BY <2>1, <2>6, MoverStep
  <1>4. ASSUME NEW p \in Procs, ClaimReady(p)
        PROVE  \A q \in Procs : TurnInv(q)'
    <2> DEFINE l == [turn[p] EXCEPT !.pc = "send", !.context = thread[Of(p)].context]
    <2>1. /\ turn' = [turn EXCEPT ![p] = l] /\ turn[p].pc = "claim" /\ thread' = thread
          /\ thread[Of(p)].state = "ready"
      BY <1>4 DEF ClaimReady
    <2>2. turn'[p] = l /\ turn[p] \in Turn
      BY <2>1 DEF TypeOK
    <2>3. turn[p].claim = 0 /\ turn[p].msg \in Msgs /\ Of(p) \in Threads
      BY <2>1, ThreadAssumption DEF TurnInv, ReadInv, HoldInv, Of
    <2>4. thread[Of(p)].context # None
      BY <2>1, <2>3 DEF RowInv
    <2>a. turn'[p].msg = turn[p].msg /\ turn'[p].context = thread[Of(p)].context
      BY <2>2 DEF Turn
    <2>b. Of(p)' = Of(p)
      BY <2>a DEF Of
    <2>5. ReadInv(p)'
      BY <2>1, <2>3, <2>a, <2>b DEF ReadInv
    <2>6. HoldInv(p)' /\ AnswerInv(p)'
      BY <2>2, <2>3, <2>4 DEF HoldInv, AnswerInv, Turn
    <2>7. TurnInv(p)'
      BY <2>5, <2>6 DEF TurnInv
    <2> QED BY <2>1, <2>7, MoverStep
  <1>5. ASSUME NEW p \in Procs, ClaimBusy(p) \/ Timeout(p) \/ Crash(p)
                 \/ release_context_initialization(p) \/ create_push_config(p)
        PROVE  \A q \in Procs : TurnInv(q)'
    <2>1. End(p)
      BY <1>5 DEF ClaimBusy, Timeout, Crash, release_context_initialization,
                  create_push_config
    <2> QED BY <2>1, EndStep
  <1>6. ASSUME NEW p \in Procs, send_message(p)
        PROVE  \A q \in Procs : TurnInv(q)'
    <2> DEFINE l == [turn[p] EXCEPT !.pc = "wait"]
    <2>1. turn' = [turn EXCEPT ![p] = l] /\ thread' = thread /\ turn[p].pc = "send"
      BY <1>6 DEF send_message, Goto
    <2>2. turn'[p] = l /\ turn[p] \in Turn
      BY <2>1 DEF TypeOK
    <2>3. ReadInv(p)'
      BY <2>1, <2>2 DEF TurnInv, ReadInv, Of, Turn
    <2>a. turn[p].claim = 0 <=> turn[p].context # None
      BY <2>1 DEF TurnInv, HoldInv
    <2>4. HoldInv(p)' /\ AnswerInv(p)'
      BY <2>a, <2>2 DEF HoldInv, AnswerInv, Turn
    <2>5. TurnInv(p)'
      BY <2>3, <2>4 DEF TurnInv
    <2> QED BY <2>1, <2>5, MoverStep
  <1>7. ASSUME NEW p \in Procs, Answer(p)
        PROVE  \A q \in Procs : TurnInv(q)'
    <2> DEFINE r == <<turn[p].context, turn[p].msg>>
               l == [turn[p] EXCEPT !.task = TaskFor(r),
                        !.pc = IF turn[p].claim # 0 THEN "bindContext" ELSE "bindTask"]
    <2>1. /\ turn' = [turn EXCEPT ![p] = l] /\ thread' = thread /\ turn[p].pc = "wait"
          /\ tasks' = tasks /\ TaskFor(r) \in tasks
      BY <1>7 DEF Answer
    <2>2. turn'[p] = l /\ turn[p] \in Turn
      BY <2>1 DEF TypeOK
    <2>3. /\ turn[p].msg \in Msgs
          /\ turn[p].claim = 0 <=> turn[p].context # None
          /\ turn[p].context # None => /\ thread[Of(p)].state = "ready"
                                       /\ thread[Of(p)].context = turn[p].context
      BY <2>1 DEF TurnInv, ReadInv, HoldInv
    <2>4. ReadInv(p)'
      BY <2>1, <2>2, <2>3 DEF ReadInv, Of, Turn
    <2>5. HoldInv(p)'
      BY <2>2, <2>3 DEF HoldInv, Turn
    <2>6. ASSUME turn[p].claim # 0 PROVE AnswerInv(p)'
      <3>1. TaskFor(r) = <<turn[p].msg, turn[p].msg>>
        BY <2>3, <2>6 DEF TaskFor, ContextFor
      <3> QED BY <2>1, <2>2, <2>6, <3>1 DEF AnswerInv, Turn
    <2>7. ASSUME turn[p].claim = 0 PROVE AnswerInv(p)'
      <3>1. /\ TaskFor(r) = <<thread[Of(p)].context, turn[p].msg>>
            /\ thread[Of(p)].state = "ready"
        BY <2>3, <2>7 DEF TaskFor, ContextFor
      <3> QED BY <2>1, <2>2, <2>7, <3>1 DEF AnswerInv, Turn, Of
    <2>8. TurnInv(p)'
      BY <2>4, <2>5, <2>6, <2>7 DEF TurnInv
    <2> QED BY <2>1, <2>8, MoverStep
  <1>8. ASSUME NEW p \in Procs, Refuse(p)
        PROVE  \A q \in Procs : TurnInv(q)'
    <2>1. CASE turn[p].claim = 0
      BY <1>8, <2>1, EndStep DEF Refuse
    <2>2. CASE turn[p].claim # 0
      <3> DEFINE l == [turn[p] EXCEPT !.pc = "release"]
      <3>1. turn' = [turn EXCEPT ![p] = l] /\ thread' = thread /\ turn[p].pc = "wait"
        BY <1>8, <2>2 DEF Refuse, Goto
      <3>2. turn'[p] = l /\ turn[p] \in Turn
        BY <3>1 DEF TypeOK
      <3>3. ReadInv(p)'
        BY <3>1, <3>2 DEF TurnInv, ReadInv, Of, Turn
      <3>4. HoldInv(p)' /\ AnswerInv(p)'
        BY <3>1, <3>2, <2>2 DEF TurnInv, HoldInv, AnswerInv, Turn
      <3>5. TurnInv(p)'
        BY <3>3, <3>4 DEF TurnInv
      <3> QED BY <3>1, <3>5, MoverStep
    <2> QED BY <2>1, <2>2
  <1>9. ASSUME NEW p \in Procs, bind_context(p)
        PROVE  \A q \in Procs : TurnInv(q)'
    <2> DEFINE t == Of(p)
               c == turn[p].task[1]
               l == [turn[p] EXCEPT !.pc = "bindTask", !.claim = 0]
    <2>1. turn[p].pc = "bindContext" /\ tasks' = tasks /\ logical' = logical
      BY <1>9 DEF bind_context
    <2>2. turn[p].msg \in Msgs /\ t \in Threads /\ turn[p] \in Turn
      BY <2>1, ThreadAssumption DEF TurnInv, ReadInv, Of, TypeOK
    <2>3. turn[p].task = <<turn[p].msg, turn[p].msg>> /\ turn[p].task \in tasks
      BY <2>1 DEF TurnInv, AnswerInv
    <2>4. c = turn[p].msg
      BY <2>3
    <2>5. CASE End(p)
      BY <2>5, EndStep
    <2>6. CASE ~End(p)
      <3>1. /\ turn' = [turn EXCEPT ![p] = l]
            /\ \/ thread' = [thread EXCEPT ![t] = [state |-> "ready", context |-> c,
                                                   claim |-> 0, live |-> FALSE]]
               \/ thread' = thread /\ BoundTo(t, c)
        BY <1>9, <2>6 DEF bind_context
      <3>2. thread'[t].state = "ready" /\ thread'[t].context = turn[p].msg
        BY <2>2, <2>4, <3>1 DEF BoundTo, TypeOK
      <3>3. turn'[p] = l
        BY <3>1 DEF TypeOK
      <3>4. Of(p)' = t
        BY <2>2, <3>3 DEF Of, Turn
      <3>5. ReadInv(p)'
        <4>1. turn[p].context # None => thread[t].context = turn[p].context
                                        /\ thread[t].state = "ready"
          BY <2>1 DEF TurnInv, ReadInv
        <4>2. turn[p].context # None => thread'[t] = thread[t]
          BY <4>1, <2>2 DEF Kept
        <4> QED BY <2>2, <3>2, <3>3, <3>4, <4>1, <4>2 DEF ReadInv, Turn
      <3>6. HoldInv(p)'
        BY <2>2, <3>3 DEF HoldInv, Turn
      <3>7. AnswerInv(p)'
        BY <2>1, <2>2, <2>3, <3>2, <3>3, <3>4 DEF AnswerInv, Turn
      <3>8. TurnInv(p)'
        BY <3>5, <3>6, <3>7 DEF TurnInv
      <3> QED BY <3>1, <3>8, MoverStep
    <2> QED BY <2>5, <2>6
  <1>10. ASSUME NEW p \in Procs, bind_task_id(p)
         PROVE  \A q \in Procs : TurnInv(q)'
    <2> DEFINE l == [turn[p] EXCEPT !.pc = "push"]
    <2>1. turn[p].pc = "bindTask" /\ tasks' = tasks /\ thread' = thread
      BY <1>10 DEF bind_task_id
    <2>2. turn[p].msg \in Msgs /\ turn[p] \in Turn
      BY <2>1 DEF TurnInv, ReadInv, TypeOK
    <2>3. CASE End(p)
      BY <2>3, EndStep
    <2>4. CASE ~End(p)
      <3>1. /\ turn' = [turn EXCEPT ![p] = l]
            /\ logical'[turn[p].msg] = [status |-> "bound", task |-> turn[p].task]
        BY <1>10, <2>2, <2>4 DEF bind_task_id, Goto, TypeOK
      <3>2. turn'[p] = l
        BY <3>1 DEF TypeOK
      <3>3. ReadInv(p)' /\ HoldInv(p)'
        BY <2>1, <2>2, <3>2 DEF TurnInv, ReadInv, HoldInv, Of, Turn
      <3>4. AnswerInv(p)'
        BY <2>1, <2>2, <3>1, <3>2 DEF TurnInv, AnswerInv, Of, Turn
      <3>5. TurnInv(p)'
        BY <3>3, <3>4 DEF TurnInv
      <3> QED BY <3>1, <3>5, MoverStep
    <2> QED BY <2>3, <2>4
  <1>11. ASSUME NEW r \in (Msgs \cup {None}) \X Msgs, AdmitRequest(r) \/ LoseRequest(r)
         PROVE  \A q \in Procs : TurnInv(q)'
    BY <1>11, RestStep DEF AdmitRequest, LoseRequest
  <1>12. ASSUME NEW t \in Threads, ClaimExpires(t)
         PROVE  \A q \in Procs : TurnInv(q)'
    BY <1>12, RestStep DEF ClaimExpires
  <1> QED
    BY <1>1, <1>2, <1>3, <1>4, <1>5, <1>6, <1>7, <1>8, <1>9, <1>10, <1>11, <1>12 DEF Cases

\* A thread is ready exactly when it has a context, and its claim is known.
LEMMA RowStep ==
    ASSUME TypeOK, RowInv, ClaimInv, \A q \in Procs : TurnInv(q), Cases
    PROVE  RowInv' /\ ClaimInv'
  <1>1. CASE UNCHANGED <<thread, claims, expired>>
    BY <1>1 DEF RowInv, ClaimInv
  <1>2. ASSUME NEW p \in Procs, ClaimAcquired(p)
        PROVE  RowInv' /\ ClaimInv'
    <2>1. Of(p) \in Threads
      BY <1>2, ThreadAssumption DEF ClaimAcquired, TurnInv, ReadInv, Of
    <2>2. /\ thread' = [thread EXCEPT ![Of(p)] = [state |-> "initializing", context |-> None,
                                                 claim |-> claims', live |-> TRUE]]
          /\ claims' = claims + 1 /\ claims \in Nat /\ expired' = expired
      BY <1>2 DEF ClaimAcquired, TypeOK
    <2>3. RowInv'
      BY <2>1, <2>2 DEF RowInv, TypeOK
    <2>4. ASSUME NEW t \in Threads, thread'[t].state = "initializing"
          PROVE  /\ thread'[t].claim \in 1..claims'
                 /\ ~thread'[t].live => thread'[t].claim \in expired'
      <3>1. CASE t = Of(p)
        BY <2>1, <2>2, <3>1 DEF TypeOK
      <3>2. CASE t # Of(p)
        <4>1. thread'[t] = thread[t]
          BY <2>1, <2>2, <3>2 DEF TypeOK
        <4> QED BY <2>2, <2>4, <4>1 DEF ClaimInv
      <3> QED BY <3>1, <3>2
    <2> QED BY <2>3, <2>4 DEF ClaimInv
  <1>3. ASSUME NEW p \in Procs, release_context_initialization(p)
        PROVE  RowInv' /\ ClaimInv'
    <2>1. Of(p) \in Threads
      BY <1>3, ThreadAssumption DEF release_context_initialization, TurnInv, ReadInv, Of
    <2> QED BY <1>3, <2>1 DEF release_context_initialization, RowInv, ClaimInv, TypeOK
  <1>4. ASSUME NEW p \in Procs, bind_context(p)
        PROVE  RowInv' /\ ClaimInv'
    <2>1. Of(p) \in Threads /\ turn[p].msg \in Msgs /\ turn[p].pc = "bindContext"
      BY <1>4, ThreadAssumption DEF bind_context, TurnInv, ReadInv, Of
    <2>2. turn[p].task = <<turn[p].msg, turn[p].msg>>
      BY <2>1 DEF TurnInv, AnswerInv
    <2>3. turn[p].task[1] # None
      BY <2>1, <2>2, ThreadAssumption
    <2>4. /\ \/ thread' = thread
             \/ thread' = [thread EXCEPT ![Of(p)] = [state |-> "ready",
                               context |-> turn[p].task[1], claim |-> 0, live |-> FALSE]]
          /\ claims' = claims /\ expired' = expired
      BY <1>4 DEF bind_context
    <2> QED BY <2>1, <2>3, <2>4 DEF RowInv, ClaimInv, TypeOK
  <1>5. ASSUME NEW t \in Threads, ClaimExpires(t)
        PROVE  RowInv' /\ ClaimInv'
    <2>1. /\ thread' = [thread EXCEPT ![t] = [thread[t] EXCEPT !.live = FALSE]]
          /\ expired' = expired \cup {thread[t].claim} /\ claims' = claims
      BY <1>5 DEF ClaimExpires
    <2>2. /\ thread'[t].claim = thread[t].claim /\ thread'[t].state = thread[t].state
          /\ thread'[t].context = thread[t].context
          /\ \A u \in Threads : u # t => thread'[u] = thread[u]
      BY <2>1 DEF TypeOK, ThreadRow
    <2>3. RowInv'
      BY <2>2 DEF RowInv
    <2>4. ClaimInv'
      BY <2>1, <2>2 DEF ClaimInv
    <2> QED BY <2>3, <2>4
  <1>6. CASE \E p \in Procs, m \in Msgs : Start(p, m)
    BY <1>1, <1>6 DEF Start
  <1>7. ASSUME NEW p \in Procs,
               \/ record_logical_send(p) \/ ClaimReady(p) \/ ClaimBusy(p) \/ send_message(p)
               \/ Answer(p) \/ Refuse(p) \/ Timeout(p) \/ bind_task_id(p)
               \/ create_push_config(p) \/ Crash(p)
        PROVE  UNCHANGED <<thread, claims, expired>>
    BY <1>7 DEF record_logical_send, ClaimReady, ClaimBusy, send_message, Answer, Refuse,
                Timeout, bind_task_id, create_push_config, Crash
  <1>8. ASSUME NEW r \in (Msgs \cup {None}) \X Msgs, AdmitRequest(r) \/ LoseRequest(r)
        PROVE  UNCHANGED <<thread, claims, expired>>
    BY <1>8 DEF AdmitRequest, LoseRequest
  <1> QED BY <1>1, <1>2, <1>3, <1>4, <1>5, <1>6, <1>7, <1>8 DEF Cases

\* A bound row has the thread's task, and an acknowledged message has it with
\* its push configuration.
LEMMA BoundStep ==
    ASSUME IInv, Cases, Kept
    PROVE  LogInv' /\ BoundTaskInContext' /\ AckedIsComplete'
  <1> USE DEF IInv
  <1>1. ASSUME UNCHANGED <<logical, acked>>
        PROVE  LogInv' /\ BoundTaskInContext' /\ AckedIsComplete'
    BY <1>1, ThreadAssumption
    DEF LogInv, BoundTaskInContext, AckedIsComplete, Kept
  <1>2. ASSUME NEW p \in Procs, record_logical_send(p)
        PROVE  LogInv' /\ BoundTaskInContext' /\ AckedIsComplete'
    <2>1. turn[p].msg \in Msgs
      BY <1>2 DEF record_logical_send, TurnInv, ReadInv
    <2>2. /\ \/ logical' = logical
             \/ logical' = [logical EXCEPT ![turn[p].msg] = [status |-> "pending",
                                                             task |-> None]]
          /\ acked' = acked
      BY <1>2 DEF record_logical_send
    <2>3. LogInv'
      BY <2>1, <2>2 DEF LogInv, TypeOK
    <2>4. \A m \in Msgs : logical'[m].status = "bound" => logical'[m] = logical[m]
      BY <2>1, <2>2 DEF TypeOK
    <2>5. BoundTaskInContext'
      BY <2>4, ThreadAssumption DEF BoundTaskInContext, Kept
    <2>6. AckedIsComplete'
      BY <2>2 DEF AckedIsComplete, Kept, TypeOK
    <2> QED BY <2>3, <2>5, <2>6
  <1>3. ASSUME NEW p \in Procs, bind_task_id(p)
        PROVE  LogInv' /\ BoundTaskInContext' /\ AckedIsComplete'
    <2>1. turn[p].pc = "bindTask" /\ acked' = acked
      BY <1>3 DEF bind_task_id
    <2>2. /\ turn[p].msg \in Msgs /\ Of(p) \in Threads
          /\ thread[Of(p)].state = "ready" /\ turn[p].task \in tasks
          /\ turn[p].task = <<thread[Of(p)].context, turn[p].msg>>
      BY <2>1, ThreadAssumption DEF TurnInv, ReadInv, AnswerInv, Of
    <2>3. turn[p].task # None
      BY <2>2, ThreadAssumption DEF TypeOK, Tasks
    <2>4. \/ logical' = logical
          \/ logical' = [logical EXCEPT ![turn[p].msg] = [status |-> "bound",
                                                          task |-> turn[p].task]]
      BY <1>3 DEF bind_task_id
    <2>5. LogInv'
      BY <2>2, <2>3, <2>4 DEF LogInv, TypeOK
    <2>6. ASSUME NEW m \in Msgs, logical'[m].status = "bound"
          PROVE  /\ thread'[ThreadOf[m]].state = "ready"
                 /\ logical'[m].task = <<thread'[ThreadOf[m]].context, m>>
                 /\ logical'[m].task \in tasks'
      <3>1. CASE logical'[m] = logical[m]
        BY <2>6, <3>1, ThreadAssumption DEF BoundTaskInContext, Kept
      <3>2. CASE logical'[m] # logical[m]
        <4>1. m = turn[p].msg /\ logical'[m].task = turn[p].task
          BY <2>2, <2>4, <3>2 DEF TypeOK
        <4>2. thread'[Of(p)] = thread[Of(p)] /\ Of(p) = ThreadOf[m]
          BY <2>2, <4>1 DEF Kept, Of
        <4> QED BY <2>2, <4>1, <4>2 DEF Kept
      <3> QED BY <3>1, <3>2
    <2>7. BoundTaskInContext'
      BY <2>6 DEF BoundTaskInContext
    <2>8. AckedIsComplete'
      BY <2>1 DEF AckedIsComplete, Kept, TypeOK
    <2> QED BY <2>5, <2>7, <2>8
  <1>4. ASSUME NEW p \in Procs, create_push_config(p)
        PROVE  LogInv' /\ BoundTaskInContext' /\ AckedIsComplete'
    <2>1. turn[p].pc = "push" /\ logical' = logical
      BY <1>4 DEF create_push_config
    <2>2. logical[turn[p].msg] = [status |-> "bound", task |-> turn[p].task]
      BY <2>1 DEF TurnInv, AnswerInv
    <2>3. LogInv' /\ BoundTaskInContext'
      BY <2>1, ThreadAssumption DEF LogInv, BoundTaskInContext, Kept
    <2>4. \/ acked' = acked
          \/ acked' = acked \cup {turn[p].msg} /\ turn[p].task \in pushed'
      BY <1>4 DEF create_push_config
    <2>5. AckedIsComplete'
      BY <2>1, <2>2, <2>4 DEF AckedIsComplete, Kept
    <2> QED BY <2>3, <2>5
  <1>5. ASSUME NEW p \in Procs,
               \/ ClaimAcquired(p) \/ ClaimReady(p) \/ ClaimBusy(p) \/ send_message(p)
               \/ Answer(p) \/ Refuse(p) \/ Timeout(p) \/ release_context_initialization(p)
               \/ bind_context(p) \/ Crash(p)
        PROVE  UNCHANGED <<logical, acked>>
    BY <1>5 DEF ClaimAcquired, ClaimReady, ClaimBusy, send_message, Answer, Refuse, Timeout,
                release_context_initialization, bind_context, Crash
  <1>6. ASSUME NEW p \in Procs, NEW m \in Msgs, Start(p, m)
        PROVE  UNCHANGED <<logical, acked>>
    BY <1>6 DEF Start
  <1>7. ASSUME NEW r \in (Msgs \cup {None}) \X Msgs, AdmitRequest(r) \/ LoseRequest(r)
        PROVE  UNCHANGED <<logical, acked>>
    BY <1>7 DEF AdmitRequest, LoseRequest
  <1>8. ASSUME NEW t \in Threads, ClaimExpires(t)
        PROVE  UNCHANGED <<logical, acked>>
    BY <1>8 DEF ClaimExpires
  <1> QED BY <1>1, <1>2, <1>3, <1>4, <1>5, <1>6, <1>7, <1>8 DEF Cases

----
\* Claims

\* A worker's record that keeps its claim or gives it up.
Shrinks(p) ==
    /\ \A q \in Procs : q # p => turn'[q] = turn[q]
    /\ turn'[p].claim \in {0, turn[p].claim}

\* Steps that hand out no claim.
LEMMA UniqueKept ==
    ASSUME TypeOK, UniqueInv, claims' = claims, NEW p \in Procs, Shrinks(p)
    PROVE  UniqueInv'
  BY DEF UniqueInv, Shrinks, TypeOK

\* A worker that keeps its claim, its message and the row keeps the ownership.
LEMMA LiveKept ==
    ASSUME LiveClaimKept, expired \subseteq expired', NEW q \in Procs,
           turn'[q].claim = turn[q].claim, turn'[q].msg = turn[q].msg,
           turn'[q].pc \in Holding /\ turn'[q].claim # 0 => turn[q].pc \in Holding,
           thread'[Of(q)] = thread[Of(q)]
    PROVE  turn'[q].pc \in Holding /\ turn'[q].claim # 0 /\ turn'[q].claim \notin expired'
               => OwnsClaim(q)'
  BY DEF LiveClaimKept, OwnsClaim, Of

\* Claim ids stay unique and a live claim stays with its holder.
LEMMA ClaimStep ==
    ASSUME IInv, Cases
    PROVE  UniqueInv' /\ LiveClaimKept'
  <1> USE DEF IInv
  <1>1. ASSUME NEW p \in Procs, End(p), claims' = claims, expired' = expired,
               thread' = thread
        PROVE  UniqueInv' /\ LiveClaimKept'
    <2>1. turn'[p] = IdleTurn /\ \A q \in Procs : q # p => turn'[q] = turn[q]
      BY <1>1 DEF End, TypeOK
    <2>2. Shrinks(p)
      BY <2>1 DEF Shrinks, IdleTurn
    <2>3. UniqueInv'
      BY <1>1, <2>2, UniqueKept
    <2>4. ASSUME NEW q \in Procs
          PROVE  turn'[q].pc \in Holding /\ turn'[q].claim # 0
                   /\ turn'[q].claim \notin expired' => OwnsClaim(q)'
      <3>1. CASE q = p
        BY <2>1, <3>1 DEF IdleTurn
      <3>2. CASE q # p
        BY <1>1, <2>1, <3>2, LiveKept
      <3> QED BY <3>1, <3>2
    <2> QED BY <2>3, <2>4 DEF LiveClaimKept
  <1>2. ASSUME NEW p \in Procs, NEW l \in Turn, turn' = [turn EXCEPT ![p] = l],
               claims' = claims, expired' = expired, thread' = thread,
               \/ l.claim = 0
               \/ l.claim = turn[p].claim /\ l.msg = turn[p].msg /\ turn[p].pc \in Holding
        PROVE  UniqueInv' /\ LiveClaimKept'
    <2>1. turn'[p] = l /\ \A q \in Procs : q # p => turn'[q] = turn[q]
      BY <1>2 DEF TypeOK
    <2>2. Shrinks(p)
      BY <1>2, <2>1 DEF Shrinks
    <2>3. UniqueInv'
      BY <1>2, <2>2, UniqueKept
    <2>4. ASSUME NEW q \in Procs
          PROVE  turn'[q].pc \in Holding /\ turn'[q].claim # 0
                   /\ turn'[q].claim \notin expired' => OwnsClaim(q)'
      <3>1. CASE q = p
        BY <1>2, <2>1, <3>1, LiveKept
      <3>2. CASE q # p
        BY <1>2, <2>1, <3>2, LiveKept
      <3> QED BY <3>1, <3>2
    <2> QED BY <2>3, <2>4 DEF LiveClaimKept
  <1>3. ASSUME UNCHANGED <<turn, claims, expired, thread>>
        PROVE  UniqueInv' /\ LiveClaimKept'
    BY <1>3 DEF UniqueInv, LiveClaimKept, OwnsClaim, Of
  <1>4. ASSUME NEW p \in Procs, ClaimAcquired(p)
        PROVE  UniqueInv' /\ LiveClaimKept'
    <2>1. /\ turn[p].pc = "claim" /\ Claimable(Of(p)) /\ expired' = expired
          /\ claims' = claims + 1 /\ claims \in Nat
          /\ thread' = [thread EXCEPT ![Of(p)] = [state |-> "initializing", context |-> None,
                                                 claim |-> claims', live |-> TRUE]]
          /\ turn' = [turn EXCEPT ![p] = [turn[p] EXCEPT !.pc = "send",
                                                        !.claim = claims']]
      BY <1>4 DEF ClaimAcquired, TypeOK
    <2>2. turn[p].msg \in Msgs /\ Of(p) \in Threads
      BY <2>1, ThreadAssumption DEF TurnInv, ReadInv, Of
    <2>3. /\ turn'[p].claim = claims' /\ turn'[p].msg = turn[p].msg
          /\ \A q \in Procs : q # p => turn'[q] = turn[q]
      BY <2>1 DEF TypeOK, Turn
    <2>4. \A q \in Procs : turn[q].claim \in Nat /\ turn[q].claim <= claims
      BY DEF UniqueInv, TypeOK, Turn
    <2>5. UniqueInv'
      BY <2>1, <2>3, <2>4 DEF UniqueInv
    <2>6. ASSUME NEW q \in Procs, turn'[q].pc \in Holding, turn'[q].claim # 0,
                 turn'[q].claim \notin expired'
          PROVE  OwnsClaim(q)'
      <3>1. CASE q = p
        <4>1. thread'[Of(p)].state = "initializing" /\ thread'[Of(p)].claim = claims'
          BY <2>1, <2>2 DEF TypeOK
        <4>2. Of(p)' = Of(p)
          BY <2>3 DEF Of
        <4> QED BY <2>3, <3>1, <4>1, <4>2 DEF OwnsClaim
      <3>2. CASE q # p
        <4>1. OwnsClaim(q)
          BY <2>1, <2>3, <2>6, <3>2 DEF LiveClaimKept
        <4>2. Of(q) # Of(p)
          <5> SUFFICES ASSUME Of(q) = Of(p) PROVE FALSE
            OBVIOUS
          <5>1. thread[Of(p)].claim \in expired
            BY <2>1, <2>2, <4>1 DEF OwnsClaim, Claimable, ClaimInv
          <5> QED BY <2>1, <2>3, <2>6, <3>2, <4>1, <5>1 DEF OwnsClaim
        <4>3. thread'[Of(q)] = thread[Of(q)] /\ Of(q)' = Of(q)
          <5>1. Of(q) \in Threads
            <6>1. turn[q].pc # "idle"
              BY <2>3, <2>6, <3>2 DEF Holding
            <6> QED BY <6>1, ThreadAssumption DEF TurnInv, ReadInv, Of
          <5> QED BY <2>1, <2>2, <2>3, <3>2, <4>2, <5>1 DEF Of, TypeOK
        <4> QED BY <2>3, <3>2, <4>1, <4>3 DEF OwnsClaim
      <3> QED BY <3>1, <3>2
    <2> QED BY <2>5, <2>6 DEF LiveClaimKept
  <1>5. ASSUME NEW p \in Procs, turn[p].pc \in {"release", "bindContext"},
               \A q \in Procs : q # p => turn'[q] = turn[q],
               turn'[p].claim = 0, claims' = claims, expired' = expired,
               \/ thread' = thread
               \/ /\ OwnsClaim(p)
                  /\ \A t \in Threads : t # Of(p) => thread'[t] = thread[t]
        PROVE  UniqueInv' /\ LiveClaimKept'
    <2>1. Shrinks(p)
      BY <1>5 DEF Shrinks
    <2>2. UniqueInv'
      BY <1>5, <2>1, UniqueKept
    <2>3. ASSUME NEW q \in Procs, turn'[q].pc \in Holding, turn'[q].claim # 0,
                 turn'[q].claim \notin expired'
          PROVE  OwnsClaim(q)'
      <3>1. q # p
        BY <1>5, <2>3
      <3>2. turn'[q] = turn[q] /\ Of(q)' = Of(q)
        BY <1>5, <3>1 DEF Of
      <3>3. OwnsClaim(q)
        BY <1>5, <2>3, <3>2 DEF LiveClaimKept
      <3>4. OwnsClaim(p) => Of(q) # Of(p)
        <4>1. turn[q].claim # turn[p].claim
          BY <2>3, <3>1, <3>2 DEF UniqueInv
        <4> QED BY <3>3, <4>1 DEF OwnsClaim
      <3>5. Of(q) \in Threads
        <4>1. turn[q].pc # "idle"
          BY <2>3, <3>2 DEF Holding
        <4> QED BY <4>1, ThreadAssumption DEF TurnInv, ReadInv, Of
      <3>6. thread'[Of(q)] = thread[Of(q)]
        BY <1>5, <3>4, <3>5
      <3> QED BY <3>2, <3>3, <3>6 DEF OwnsClaim
    <2> QED BY <2>2, <2>3 DEF LiveClaimKept
  <1>6. ASSUME NEW p \in Procs, release_context_initialization(p)
        PROVE  UniqueInv' /\ LiveClaimKept'
    <2>1. /\ turn[p].pc = "release" /\ claims' = claims /\ expired' = expired
          /\ \/ thread' = thread
             \/ /\ OwnsClaim(p)
                /\ thread' = [thread EXCEPT ![Of(p)] = [state |-> "uninitialized",
                                 context |-> None, claim |-> 0, live |-> FALSE]]
      BY <1>6 DEF release_context_initialization
    <2>2. turn'[p].claim = 0 /\ \A q \in Procs : q # p => turn'[q] = turn[q]
      BY <1>6 DEF release_context_initialization, End, IdleTurn, TypeOK
    <2>3. \/ thread' = thread
          \/ OwnsClaim(p) /\ \A t \in Threads : t # Of(p) => thread'[t] = thread[t]
      BY <2>1 DEF TypeOK
    <2> QED BY <2>1, <2>2, <2>3, <1>5
  <1>7. ASSUME NEW p \in Procs, bind_context(p)
        PROVE  UniqueInv' /\ LiveClaimKept'
    <2>1. /\ turn[p].pc = "bindContext" /\ claims' = claims /\ expired' = expired
          /\ \/ thread' = thread
             \/ /\ OwnsClaim(p)
                /\ thread' = [thread EXCEPT ![Of(p)] = [state |-> "ready",
                                 context |-> turn[p].task[1], claim |-> 0, live |-> FALSE]]
      BY <1>7 DEF bind_context
    <2>2. \/ turn' = [turn EXCEPT ![p] = IdleTurn]
          \/ turn' = [turn EXCEPT ![p] = [turn[p] EXCEPT !.pc = "bindTask", !.claim = 0]]
      BY <1>7 DEF bind_context, End
    <2>3. turn'[p].claim = 0 /\ \A q \in Procs : q # p => turn'[q] = turn[q]
      <3> DEFINE k == [turn[p] EXCEPT !.pc = "bindTask", !.claim = 0]
      <3>1. k.claim = 0 /\ IdleTurn.claim = 0
        BY DEF IdleTurn, TypeOK, Turn
      <3>2. \E l : l.claim = 0 /\ turn' = [turn EXCEPT ![p] = l]
        BY <2>2, <3>1
      <3> QED BY <3>2 DEF TypeOK
    <2>4. \/ thread' = thread
          \/ OwnsClaim(p) /\ \A t \in Threads : t # Of(p) => thread'[t] = thread[t]
      BY <2>1 DEF TypeOK
    <2> QED BY <2>1, <2>3, <2>4, <1>5
  <1>8. ASSUME NEW t \in Threads, ClaimExpires(t)
        PROVE  UniqueInv' /\ LiveClaimKept'
    <2>1. /\ turn' = turn /\ claims' = claims /\ expired \subseteq expired'
          /\ thread' = [thread EXCEPT ![t] = [thread[t] EXCEPT !.live = FALSE]]
      BY <1>8 DEF ClaimExpires
    <2>2. \A u \in Threads : thread'[u].state = thread[u].state
                             /\ thread'[u].claim = thread[u].claim
      BY <2>1 DEF TypeOK, ThreadRow
    <2>3. UniqueInv'
      BY <2>1 DEF UniqueInv
    <2>4. ASSUME NEW q \in Procs, turn[q].pc \in Holding, turn[q].claim # 0,
                 turn[q].claim \notin expired'
          PROVE  OwnsClaim(q)'
      <3>1. OwnsClaim(q) /\ turn[q].pc # "idle"
        BY <2>1, <2>4 DEF LiveClaimKept, Holding
      <3>2. Of(q) \in Threads /\ Of(q)' = Of(q)
        BY <2>1, <3>1, ThreadAssumption DEF TurnInv, ReadInv, Of
      <3> QED BY <2>1, <2>2, <3>1, <3>2 DEF OwnsClaim
    <2> QED BY <2>1, <2>3, <2>4 DEF LiveClaimKept
  <1>9. ASSUME NEW p \in Procs, NEW m \in Msgs, Start(p, m)
        PROVE  UniqueInv' /\ LiveClaimKept'
    <2> DEFINE l == [pc |-> "record", msg |-> m, claim |-> 0,
                     context |-> thread[ThreadOf[m]].context, task |-> None]
    <2>1. l \in Turn /\ l.claim = 0
      BY ThreadAssumption DEF Turn, TypeOK, ThreadRow, Pcs
    <2>2. /\ turn' = [turn EXCEPT ![p] = l] /\ claims' = claims /\ expired' = expired
          /\ thread' = thread
      BY <1>9 DEF Start
    <2> HIDE DEF l
    <2> QED BY <2>1, <2>2, <1>2
  <1>10. ASSUME NEW p \in Procs,
                record_logical_send(p) \/ ClaimReady(p) \/ bind_task_id(p)
         PROVE  UniqueInv' /\ LiveClaimKept'
    <2>1. turn[p].pc \in {"record", "claim", "bindTask"} /\ claims' = claims
          /\ expired' = expired /\ thread' = thread
      BY <1>10 DEF record_logical_send, ClaimReady, bind_task_id
    <2>2. turn[p].claim = 0
      BY <2>1 DEF TurnInv, HoldInv
    <2>3. PICK l \in Turn : l.claim = 0 /\ turn' = [turn EXCEPT ![p] = l]
      <3>1. CASE record_logical_send(p)
        <4> DEFINE k == [turn[p] EXCEPT !.pc = IF turn[p].context = None THEN "claim"
                                               ELSE "send"]
        <4>1. k \in Turn /\ k.claim = 0 /\ turn' = [turn EXCEPT ![p] = k]
          BY <2>2, <3>1 DEF record_logical_send, Goto, TypeOK, Turn, Pcs, Holding
        <4> QED BY <4>1
      <3>2. CASE ClaimReady(p)
        <4> DEFINE k == [turn[p] EXCEPT !.pc = "send", !.context = thread[Of(p)].context]
        <4>1. turn' = [turn EXCEPT ![p] = k] /\ Of(p) \in Threads
          BY <3>2, ThreadAssumption DEF ClaimReady, TurnInv, ReadInv, Of
        <4>2. k \in Turn /\ k.claim = 0
          BY <2>2, <4>1 DEF TypeOK, Turn, ThreadRow, Pcs, Holding
        <4> QED BY <4>1, <4>2
      <3>3. CASE bind_task_id(p) /\ End(p)
        <4>1. turn' = [turn EXCEPT ![p] = IdleTurn] /\ IdleTurn.claim = 0
          BY <3>3 DEF End, IdleTurn
        <4> QED BY <4>1, IdleType
      <3>4. CASE bind_task_id(p) /\ ~End(p)
        <4> DEFINE k == [turn[p] EXCEPT !.pc = "push"]
        <4>1. turn' = [turn EXCEPT ![p] = k]
          BY <3>4 DEF bind_task_id, Goto
        <4>2. k \in Turn /\ k.claim = 0
          BY <2>2 DEF TypeOK, Turn, Pcs
        <4> QED BY <4>1, <4>2
      <3> QED BY <1>10, <3>1, <3>2, <3>3, <3>4
    <2> QED BY <2>1, <2>3, <1>2
  <1>11. ASSUME NEW p \in Procs, send_message(p) \/ Answer(p) \/ (Refuse(p) /\ ~End(p))
         PROVE  UniqueInv' /\ LiveClaimKept'
    <2>1. turn[p].pc \in Holding /\ claims' = claims /\ expired' = expired
          /\ thread' = thread
      BY <1>11 DEF send_message, Answer, Refuse, Holding
    <2>2. PICK l \in Turn : /\ l.claim = turn[p].claim /\ l.msg = turn[p].msg
                            /\ turn' = [turn EXCEPT ![p] = l]
      <3>1. CASE send_message(p)
        <4> DEFINE k == [turn[p] EXCEPT !.pc = "wait"]
        <4>1. k \in Turn /\ k.claim = turn[p].claim /\ k.msg = turn[p].msg
          BY DEF TypeOK, Turn, Pcs, Holding
        <4>2. turn' = [turn EXCEPT ![p] = k]
          BY <3>1 DEF send_message, Goto
        <4> QED BY <4>1, <4>2
      <3>2. CASE Answer(p)
        <4> DEFINE t == TaskFor(<<turn[p].context, turn[p].msg>>)
                   k == [turn[p] EXCEPT !.task = t,
                           !.pc = IF turn[p].claim # 0 THEN "bindContext" ELSE "bindTask"]
        <4>1. t \in Tasks /\ turn' = [turn EXCEPT ![p] = k]
          BY <3>2 DEF Answer, TypeOK
        <4>2. k \in Turn /\ k.claim = turn[p].claim /\ k.msg = turn[p].msg
          BY <4>1 DEF TypeOK, Turn, Pcs, Holding
        <4> QED BY <4>1, <4>2
      <3>3. CASE Refuse(p) /\ ~End(p)
        <4> DEFINE k == [turn[p] EXCEPT !.pc = "release"]
        <4>1. k \in Turn /\ k.claim = turn[p].claim /\ k.msg = turn[p].msg
          BY DEF TypeOK, Turn, Pcs, Holding
        <4>2. turn' = [turn EXCEPT ![p] = k]
          BY <3>3 DEF Refuse, Goto
        <4> QED BY <4>1, <4>2
      <3> QED BY <1>11, <3>1, <3>2, <3>3
    <2> QED BY <2>1, <2>2, <1>2
  <1>12. ASSUME NEW p \in Procs,
                \/ ClaimBusy(p) \/ Timeout(p) \/ create_push_config(p) \/ Crash(p)
                \/ (Refuse(p) /\ End(p))
         PROVE  UniqueInv' /\ LiveClaimKept'
    <2>1. End(p) /\ claims' = claims /\ expired' = expired /\ thread' = thread
      BY <1>12 DEF ClaimBusy, Timeout, create_push_config, Crash, Refuse
    <2> QED BY <2>1, <1>1
  <1>13. ASSUME NEW r \in (Msgs \cup {None}) \X Msgs, AdmitRequest(r) \/ LoseRequest(r)
         PROVE  UniqueInv' /\ LiveClaimKept'
    <2>1. UNCHANGED <<turn, claims, expired, thread>>
      BY <1>13 DEF AdmitRequest, LoseRequest
    <2> QED BY <2>1, <1>3
  <1> QED
    BY <1>4, <1>6, <1>7, <1>8, <1>9, <1>10, <1>11, <1>12, <1>13 DEF Cases

----
\* The theorems

\* The initial state satisfies the invariant.
LEMMA InitInv == Init => IInv
  <1> SUFFICES ASSUME Init PROVE IInv
    OBVIOUS
  <1>1. TypeOK
    BY InitType
  <1>2. RowInv /\ ClaimInv
    BY DEF Init, RowInv, ClaimInv
  <1>3. LogInv /\ BoundTaskInContext /\ AckedIsComplete
    BY DEF Init, LogInv, BoundTaskInContext, AckedIsComplete
  <1>4. \A p \in Procs : turn[p] = IdleTurn
    BY DEF Init
  <1>5. \A p \in Procs : TurnInv(p)
    BY <1>4 DEF IdleTurn, TurnInv, ReadInv, HoldInv, AnswerInv
  <1>6. UniqueInv /\ LiveClaimKept
    BY <1>4 DEF Init, IdleTurn, UniqueInv, LiveClaimKept, Holding
  <1> QED BY <1>1, <1>2, <1>3, <1>5, <1>6 DEF IInv

\* Every step, and stuttering, preserves it.
LEMMA StepInv == IInv /\ [Next]_vars => IInv'
  <1> SUFFICES ASSUME IInv, [Next]_vars PROVE IInv'
    OBVIOUS
  <1>1. CASE Next
    <2>1. Cases
      BY <1>1, NextCases
    <2>2. TypeOK'
      BY <2>1, TypeStep DEF IInv
    <2>3. Kept
      BY <2>1, KeptStep DEF IInv
    <2>4. \A q \in Procs : TurnInv(q)'
      BY <2>1, <2>3, TurnStep DEF IInv
    <2>5. RowInv' /\ ClaimInv'
      BY <2>1, RowStep DEF IInv
    <2>6. LogInv' /\ BoundTaskInContext' /\ AckedIsComplete'
      BY <2>1, <2>3, BoundStep
    <2>7. UniqueInv' /\ LiveClaimKept'
      BY <2>1, ClaimStep
    <2> QED BY <2>2, <2>4, <2>5, <2>6, <2>7 DEF IInv
  <1>2. CASE UNCHANGED vars
    <2>1. TypeOK' /\ RowInv' /\ ClaimInv' /\ LogInv'
      BY <1>2 DEF vars, IInv, TypeOK, RowInv, ClaimInv, LogInv
    <2>2. \A q \in Procs : TurnInv(q)'
      BY <1>2 DEF vars, IInv, TurnInv, ReadInv, HoldInv, AnswerInv, Of
    <2>3. UniqueInv' /\ BoundTaskInContext' /\ AckedIsComplete'
      BY <1>2 DEF vars, IInv, UniqueInv, BoundTaskInContext, AckedIsComplete
    <2>4. LiveClaimKept'
      BY <1>2 DEF vars, IInv, LiveClaimKept, OwnsClaim, Of
    <2> QED BY <2>1, <2>2, <2>3, <2>4 DEF IInv
  <1> QED BY <1>1, <1>2

\* The invariant holds in every reachable state.
LEMMA Invariance == Spec => []IInv
  BY InitInv, StepInv, PTL DEF Spec

\* Thread rows, submission rows, requests and workers stay in their domains.
THEOREM ThreadTypeCorrect == Spec => []TypeOK
  <1>1. IInv => TypeOK
    BY DEF IInv
  <1> QED BY <1>1, Invariance, PTL

\* bind_task_id() never stores a task of another context than the one
\* bind_context() stored for the thread, although claims expire and answers of
\* send_message() come late.
THEOREM ThreadBoundInContext == Spec => []BoundTaskInContext
  <1>1. IInv => BoundTaskInContext
    BY DEF IInv
  <1> QED BY <1>1, Invariance, PTL

\* A message for which send_turn() or send() returned is bound to its task, and
\* create_push_config() was answered for that task.
THEOREM ThreadAckedComplete == Spec => []AckedIsComplete
  <1>1. IInv => AckedIsComplete
    BY DEF IInv
  <1> QED BY <1>1, Invariance, PTL

\* claim_context_initialization() takes no claim whose lease has not run out.
THEOREM ThreadLiveClaimKept == Spec => []LiveClaimKept
  <1>1. IInv => LiveClaimKept
    BY DEF IInv
  <1> QED BY <1>1, Invariance, PTL

----
\* One context per thread, as long as no claim ran out

\* Messages of a thread that have created a context or may still create one.
Opened(t) == {c \in Msgs : ThreadOf[c] = t /\ (c \in contexts \/ <<None, c>> \in wire)}

\* A context belongs to the thread of the message that created it, and so do its tasks
\* and the requests that name it.
OriginInv ==
    /\ \A t \in Threads : thread[t].context # None => ThreadOf[thread[t].context] = t
    /\ \A r \in wire : r[1] # None => thread[ThreadOf[r[2]]].context = r[1]
    /\ \A k \in tasks : k[1] \in contexts /\ ThreadOf[k[1]] = ThreadOf[k[2]]

\* A request for a new context was not admitted before, at most one message of a thread
\* opens a context, and a thread that is ready has that one.
OpenInv(t) ==
    /\ \A c, d \in Opened(t) : c = d
    /\ \A c \in Opened(t) : <<None, c>> \in wire => c \notin contexts
    /\ thread[t].state = "uninitialized" => Opened(t) = {}
    /\ thread[t].state = "ready" => \A c \in Opened(t) : c = thread[t].context /\ <<None, c>> \notin wire

\* The holder of a claim is the one that opens it.
OpenerInv(p) ==
    turn[p].pc \in Holding /\ turn[p].claim # 0 =>
        /\ turn[p].pc \in {"send", "release"} => Opened(Of(p)) = {}
        /\ turn[p].pc \in {"wait", "bindContext"} => Opened(Of(p)) \subseteq {turn[p].msg}
        /\ turn[p].pc = "bindContext" => <<None, turn[p].msg>> \notin wire

SplitInv ==
    /\ OriginInv
    /\ expired = {} => /\ \A t \in Threads : OpenInv(t)
                       /\ \A p \in Procs : OpenerInv(p)

\* Contexts, tasks and requests keep to their threads.
LEMMA OriginKept ==
    ASSUME IInv, OriginInv, Kept, wire' \subseteq wire, UNCHANGED <<tasks, contexts>>,
           \A t \in Threads : thread'[t].context \in {None, thread[t].context}
    PROVE  OriginInv'
  <1>1. ASSUME NEW r \in wire', r[1] # None
        PROVE  thread'[ThreadOf[r[2]]].context = r[1]
    <2>1. ThreadOf[r[2]] \in Threads
      BY ThreadAssumption DEF IInv, TypeOK
    <2>2. thread[ThreadOf[r[2]]].context = r[1]
      BY <1>1 DEF OriginInv
    <2>3. thread[ThreadOf[r[2]]].state = "ready"
      BY <1>1, <2>1, <2>2 DEF IInv, RowInv
    <2> QED BY <2>1, <2>2, <2>3 DEF Kept
  <1> QED BY <1>1 DEF OriginInv

LEMMA OriginStep ==
    ASSUME IInv, OriginInv, Kept, Cases
    PROVE  OriginInv'
  <1> USE DEF IInv
  <1>1. ASSUME NEW p \in Procs, NEW m \in Msgs, Start(p, m) PROVE OriginInv'
    BY <1>1, OriginKept DEF Start
  <1>2. ASSUME NEW p \in Procs,
               \/ record_logical_send(p) \/ ClaimReady(p) \/ ClaimBusy(p) \/ Answer(p)
               \/ Timeout(p) \/ bind_task_id(p) \/ create_push_config(p) \/ Crash(p)
        PROVE  OriginInv'
    <2>1. UNCHANGED <<thread, wire, tasks, contexts>>
      BY <1>2 DEF record_logical_send, ClaimReady, ClaimBusy, Answer, Timeout, bind_task_id,
         create_push_config, Crash
    <2> QED BY <2>1, OriginKept
  <1>3. ASSUME NEW p \in Procs, Refuse(p) PROVE OriginInv'
    BY <1>3, OriginKept DEF Refuse
  <1>4. ASSUME NEW r \in (Msgs \cup {None}) \X Msgs, LoseRequest(r) PROVE OriginInv'
    BY <1>4, OriginKept DEF LoseRequest
  <1>5. ASSUME NEW t \in Threads, ClaimExpires(t) PROVE OriginInv'
    <2>1. /\ UNCHANGED <<wire, tasks, contexts>>
          /\ thread' = [thread EXCEPT ![t] = [thread[t] EXCEPT !.live = FALSE]]
      BY <1>5 DEF ClaimExpires
    <2>2. \A u \in Threads : thread'[u].context = thread[u].context
      BY <2>1 DEF TypeOK, ThreadRow
    <2> QED BY <2>1, <2>2, OriginKept
  <1>6. ASSUME NEW p \in Procs, ClaimAcquired(p) \/ release_context_initialization(p)
        PROVE  OriginInv'
    <2>1. UNCHANGED <<wire, tasks, contexts>>
      BY <1>6 DEF ClaimAcquired, release_context_initialization
    <2>2. thread' = thread \/ \E l : l.context = None /\ thread' = [thread EXCEPT ![Of(p)] = l]
      <3>1. CASE ClaimAcquired(p)
        BY <3>1 DEF ClaimAcquired
      <3>2. CASE release_context_initialization(p)
        BY <3>2 DEF release_context_initialization
      <3> QED BY <1>6, <3>1, <3>2
    <2>3. \A u \in Threads : thread'[u].context \in {None, thread[u].context}
      BY <2>2 DEF TypeOK
    <2> QED BY <2>1, <2>3, OriginKept
  <1>7. ASSUME NEW p \in Procs, send_message(p) PROVE OriginInv'
    <2>1. /\ wire' = wire \cup {<<turn[p].context, turn[p].msg>>}
          /\ turn[p].pc = "send" /\ UNCHANGED <<thread, tasks, contexts>>
      BY <1>7 DEF send_message
    <2>2. turn[p].context # None => thread[ThreadOf[turn[p].msg]].context = turn[p].context
      BY <2>1 DEF TurnInv, ReadInv, Of
    <2> QED BY <2>1, <2>2 DEF OriginInv
  <1>8. ASSUME NEW r \in (Msgs \cup {None}) \X Msgs, AdmitRequest(r) PROVE OriginInv'
    <2>1. /\ r \in wire /\ wire' = wire \ {r} /\ contexts' = contexts \cup {ContextFor(r)}
          /\ tasks' = tasks \cup {<<ContextFor(r), r[2]>>} /\ UNCHANGED thread
      BY <1>8 DEF AdmitRequest, TaskFor
    <2>2. ThreadOf[ContextFor(r)] = ThreadOf[r[2]]
      <3>1. CASE r[1] = None
        BY <3>1 DEF ContextFor
      <3>2. CASE r[1] # None
        <4>1. thread[ThreadOf[r[2]]].context = r[1] /\ ThreadOf[r[2]] \in Threads
          BY <2>1, <3>2, ThreadAssumption DEF OriginInv
        <4> QED BY <3>2, <4>1 DEF OriginInv, ContextFor
      <3> QED BY <3>1, <3>2
    <2> QED BY <2>1, <2>2 DEF OriginInv
  <1>9. ASSUME NEW p \in Procs, bind_context(p) PROVE OriginInv'
    <2>1. turn[p].pc = "bindContext" /\ UNCHANGED <<wire, tasks, contexts>>
      BY <1>9 DEF bind_context
    <2>2. CASE thread' = thread
      BY <2>1, <2>2, OriginKept
    <2>3. CASE /\ OwnsClaim(p)
               /\ thread' = [thread EXCEPT ![Of(p)] = [state |-> "ready",
                                context |-> turn[p].task[1], claim |-> 0, live |-> FALSE]]
      <3>1. turn[p].msg \in Msgs /\ Of(p) \in Threads /\ turn[p].task[1] = turn[p].msg
        <4>1. turn[p].task = <<turn[p].msg, turn[p].msg>>
          BY <2>1 DEF TurnInv, AnswerInv
        <4>2. turn[p].msg \in Msgs
          BY <2>1 DEF TurnInv, ReadInv
        <4> QED BY <4>1, <4>2, ThreadAssumption DEF Of
      <3>2. /\ thread'[Of(p)].context = turn[p].msg
            /\ \A t \in Threads \ {Of(p)} : thread'[t] = thread[t]
        BY <2>3, <3>1 DEF TypeOK
      <3>3. \A t \in Threads : thread'[t].context # None => ThreadOf[thread'[t].context] = t
        BY <3>1, <3>2 DEF OriginInv, Of
      <3>4. ASSUME NEW r \in wire, r[1] # None
            PROVE  thread'[ThreadOf[r[2]]].context = r[1]
        <4>1. ThreadOf[r[2]] \in Threads /\ thread[ThreadOf[r[2]]].context = r[1]
          BY <3>4, ThreadAssumption DEF OriginInv, TypeOK
        <4>2. thread[ThreadOf[r[2]]].state = "ready"
          BY <3>4, <4>1 DEF RowInv
        <4> QED BY <4>1, <4>2 DEF Kept
      <3> QED BY <2>1, <3>3, <3>4 DEF OriginInv
    <2> QED BY <1>9, <2>2, <2>3 DEF bind_context
  <1> QED BY <1>1, <1>2, <1>3, <1>4, <1>5, <1>6, <1>7, <1>8, <1>9 DEF Cases

\* As long as no claim ran out, its holder owns its row, alone.
LEMMA SoleHolder ==
    ASSUME IInv, expired = {}, NEW p \in Procs, turn[p].pc \in Holding, turn[p].claim # 0
    PROVE  /\ turn[p].msg \in Msgs /\ Of(p) \in Threads
           /\ thread[Of(p)].state = "initializing"
           /\ \A q \in Procs \ {p} : turn[q].pc \in Holding /\ turn[q].claim # 0 => Of(q) # Of(p)
  <1>1. OwnsClaim(p)
    BY DEF IInv, LiveClaimKept
  <1>2. turn[p].msg \in Msgs /\ Of(p) \in Threads
    BY ThreadAssumption DEF IInv, TurnInv, ReadInv, Of, Holding
  <1>3. ASSUME NEW q \in Procs \ {p}, turn[q].pc \in Holding, turn[q].claim # 0
        PROVE  Of(q) # Of(p)
    <2>1. OwnsClaim(q)
      BY <1>3 DEF IInv, LiveClaimKept
    <2>2. turn[q].claim # turn[p].claim
      BY <1>3 DEF IInv, UniqueInv
    <2> QED BY <1>1, <2>1, <2>2 DEF OwnsClaim
  <1> QED BY <1>1, <1>2, <1>3 DEF OwnsClaim

\* A step of a worker that opens nothing, on the row of its thread.
LEMMA NothingOpened ==
    ASSUME IInv, SplitInv, OriginInv', UNCHANGED <<contexts, expired>>, wire' \subseteq wire,
           NEW p \in Procs, \A q \in Procs \ {p} : turn'[q] = turn[q],
           \A t \in Threads \ {Of(p)} : thread'[t] = thread[t],
           expired = {} => OpenerInv(p)',
           \A t \in Threads : t = Of(p) /\ expired = {} => OpenInv(t)'
    PROVE  SplitInv'
  <1> SUFFICES ASSUME expired = {}
               PROVE  (\A t \in Threads : OpenInv(t)') /\ (\A q \in Procs : OpenerInv(q)')
    BY DEF SplitInv
  <1>1. \A t \in Threads : Opened(t)' \subseteq Opened(t)
    BY DEF Opened
  <1>2. ASSUME NEW t \in Threads \ {Of(p)} PROVE OpenInv(t)'
    <2>1. OpenInv(t)
      BY DEF SplitInv
    <2> QED BY <1>1, <2>1 DEF OpenInv
  <1>3. ASSUME NEW q \in Procs \ {p} PROVE OpenerInv(q)'
    <2> SUFFICES ASSUME turn[q].pc \in Holding, turn[q].claim # 0 PROVE OpenerInv(q)'
      BY DEF OpenerInv
    <2>1. OpenerInv(q) /\ Of(q) \in Threads
      BY SoleHolder DEF SplitInv
    <2>2. turn'[q] = turn[q] /\ Of(q)' = Of(q) /\ Opened(Of(q))' \subseteq Opened(Of(q))
      BY <1>1, <2>1 DEF Of, Opened
    <2> QED BY <2>1, <2>2 DEF OpenerInv, Opened
  <1> QED BY <1>2, <1>3

\* ... that leaves the row alone.
LEMMA RowUntouched ==
    ASSUME IInv, SplitInv, OriginInv', UNCHANGED <<contexts, expired, thread>>, wire' \subseteq wire,
           NEW p \in Procs, \A q \in Procs \ {p} : turn'[q] = turn[q],
           expired = {} => OpenerInv(p)'
    PROVE  SplitInv'
  <1>1. ASSUME NEW t \in Threads, expired = {} PROVE OpenInv(t)'
    <2>1. OpenInv(t) /\ Opened(t)' \subseteq Opened(t)
      BY <1>1 DEF SplitInv, Opened
    <2> QED BY <2>1 DEF OpenInv
  <1> QED BY <1>1, NothingOpened

LEMMA SplitStep ==
    ASSUME IInv, SplitInv, OriginInv', Cases
    PROVE  SplitInv'
  <1>1. TypeOK /\ turn \in [Procs -> Turn]
    BY DEF IInv, TypeOK
  <1>2. ASSUME NEW p \in Procs, End(p), UNCHANGED <<contexts, expired, thread>>, wire' \subseteq wire
        PROVE  SplitInv'
    <2>1. turn'[p] = IdleTurn /\ \A q \in Procs \ {p} : turn'[q] = turn[q]
      BY <1>1, <1>2 DEF End
    <2>2. OpenerInv(p)'
      BY <2>1 DEF OpenerInv, IdleTurn
    <2> QED BY <1>2, <2>1, <2>2, RowUntouched
  <1>3. ASSUME NEW p \in Procs, NEW l, l.claim = 0, turn' = [turn EXCEPT ![p] = l],
               UNCHANGED <<contexts, expired, thread, wire>>
        PROVE  SplitInv'
    <2>1. turn'[p] = l /\ \A q \in Procs \ {p} : turn'[q] = turn[q]
      BY <1>1, <1>3
    <2>2. OpenerInv(p)'
      BY <1>3, <2>1 DEF OpenerInv
    <2> QED BY <1>3, <2>1, <2>2, RowUntouched
  <1>4. ASSUME NEW p \in Procs, NEW m \in Msgs, Start(p, m) PROVE SplitInv'
    <2> DEFINE l == [pc |-> "record", msg |-> m, claim |-> 0,
                     context |-> thread[ThreadOf[m]].context, task |-> None]
    <2>1. l.claim = 0 /\ turn' = [turn EXCEPT ![p] = l] /\ UNCHANGED <<contexts, expired, thread, wire>>
      BY <1>4 DEF Start
    <2> HIDE DEF l
    <2> QED BY <1>3, <2>1
  <1>5. ASSUME NEW p \in Procs, record_logical_send(p) \/ ClaimReady(p) \/ bind_task_id(p)
        PROVE  SplitInv'
    <2>1. turn[p].pc \in {"record", "claim", "bindTask"} /\ UNCHANGED <<contexts, expired, thread, wire>>
      BY <1>5 DEF record_logical_send, ClaimReady, bind_task_id
    <2>2. turn[p].claim = 0 /\ turn[p] \in Turn
      BY <1>1, <2>1 DEF IInv, TurnInv, HoldInv
    <2>3. CASE End(p)
      BY <1>2, <2>1, <2>3
    <2>4. CASE ~End(p)
      <3>1. \/ \E there : Goto(p, there)
            \/ turn' = [turn EXCEPT ![p] = [turn[p] EXCEPT !.pc = "send",
                                              !.context = thread[Of(p)].context]]
        BY <1>5, <2>4 DEF record_logical_send, ClaimReady, bind_task_id
      <3>2. PICK l : l.claim = 0 /\ turn' = [turn EXCEPT ![p] = l]
        <4>1. ASSUME NEW there, Goto(p, there)
              PROVE  \E l : l.claim = 0 /\ turn' = [turn EXCEPT ![p] = l]
          <5>1. [turn[p] EXCEPT !.pc = there].claim = 0
            BY <2>2 DEF Turn
          <5> QED BY <4>1, <5>1 DEF Goto
        <4>2. [turn[p] EXCEPT !.pc = "send", !.context = thread[Of(p)].context].claim = 0
          BY <2>2 DEF Turn
        <4> QED BY <3>1, <4>1, <4>2
      <3> QED BY <1>3, <2>1, <3>2
    <2> QED BY <2>3, <2>4
  <1>6. ASSUME NEW p \in Procs,
               \/ ClaimBusy(p) \/ Timeout(p) \/ create_push_config(p) \/ Crash(p)
               \/ (Refuse(p) /\ End(p))
        PROVE  SplitInv'
    <2>1. End(p) /\ UNCHANGED <<contexts, expired, thread>> /\ wire' \subseteq wire
      BY <1>6 DEF ClaimBusy, Timeout, create_push_config, Crash, Refuse
    <2> QED BY <1>2, <2>1
  <1>7. ASSUME NEW p \in Procs, Answer(p) PROVE SplitInv'
    <2> DEFINE r == <<turn[p].context, turn[p].msg>>
               l == [turn[p] EXCEPT !.task = TaskFor(r),
                        !.pc = IF turn[p].claim # 0 THEN "bindContext" ELSE "bindTask"]
    <2>1. /\ turn[p].pc = "wait" /\ r \notin wire /\ turn' = [turn EXCEPT ![p] = l]
          /\ UNCHANGED <<contexts, expired, thread, wire>>
      BY <1>7 DEF Answer
    <2>2. /\ l.claim = turn[p].claim /\ l.msg = turn[p].msg
          /\ l.pc = IF turn[p].claim # 0 THEN "bindContext" ELSE "bindTask"
      <3>1. turn[p] \in Turn
        BY <1>1
      <3> HIDE DEF r
      <3> QED BY <3>1 DEF Turn
    <2> HIDE DEF l
    <2>3. /\ turn'[p] = l /\ \A q \in Procs \ {p} : turn'[q] = turn[q]
      BY <1>1, <2>1
    <2>4. ASSUME expired = {}, turn[p].claim # 0 PROVE OpenerInv(p)'
      <3>1. turn[p].context = None /\ turn[p].pc \in Holding
        BY <2>1, <2>4 DEF IInv, TurnInv, HoldInv, Holding
      <3>2. Opened(Of(p)) \subseteq {turn[p].msg} /\ <<None, turn[p].msg>> \notin wire
        BY <2>1, <2>4, <3>1 DEF SplitInv, OpenerInv
      <3>3. Of(p)' = Of(p) /\ Opened(Of(p))' = Opened(Of(p))
        BY <2>1, <2>2, <2>3 DEF Of, Opened
      <3> QED BY <2>1, <2>2, <2>3, <2>4, <3>2, <3>3 DEF OpenerInv
    <2>5. turn[p].claim = 0 => OpenerInv(p)'
      BY <2>2, <2>3 DEF OpenerInv
    <2> QED BY <2>1, <2>3, <2>4, <2>5, RowUntouched
  <1>8. ASSUME NEW p \in Procs, Refuse(p), ~End(p) PROVE SplitInv'
    <2> DEFINE r == <<turn[p].context, turn[p].msg>>
               l == [turn[p] EXCEPT !.pc = "release"]
    <2>1. /\ turn[p].pc = "wait" /\ turn[p].claim # 0 /\ r \in wire /\ wire' = wire \ {r}
          /\ turn' = [turn EXCEPT ![p] = l] /\ UNCHANGED <<contexts, expired, thread>>
      BY <1>8 DEF Refuse, Goto
    <2>2. l.claim = turn[p].claim /\ l.msg = turn[p].msg /\ l.pc = "release"
      BY <1>1 DEF Turn
    <2> HIDE DEF l
    <2>3. /\ turn'[p] = l /\ \A q \in Procs \ {p} : turn'[q] = turn[q]
      BY <1>1, <2>1
    <2>4. ASSUME expired = {} PROVE OpenerInv(p)'
      <3>1. turn[p].context = None /\ turn[p].pc \in Holding
        BY <2>1 DEF IInv, TurnInv, HoldInv, Holding
      <3>2. turn[p].msg \in Msgs /\ Of(p) \in Threads
        BY <2>1, <2>4, <3>1, SoleHolder
      <3>3. Opened(Of(p)) \subseteq {turn[p].msg}
        BY <2>1, <2>4, <3>1 DEF SplitInv, OpenerInv
      <3>4. turn[p].msg \in Opened(Of(p)) /\ turn[p].msg \notin contexts
        BY <2>1, <2>4, <3>1, <3>2 DEF SplitInv, OpenInv, Opened, Of
      <3>5. Of(p)' = Of(p)
        BY <2>2, <2>3 DEF Of
      <3>6. PICK t \in Threads : t = Of(p)
        BY <3>2
      <3>7. Opened(t)' = {}
        BY <2>1, <3>1, <3>3, <3>4, <3>6 DEF Opened
      <3> QED BY <2>2, <2>3, <3>5, <3>6, <3>7 DEF OpenerInv, Opened
    <2> QED BY <2>1, <2>3, <2>4, RowUntouched
  <1>9. ASSUME NEW r \in (Msgs \cup {None}) \X Msgs, LoseRequest(r) PROVE SplitInv'
    <2>1. UNCHANGED <<contexts, expired, thread, turn>> /\ wire' \subseteq wire
      BY <1>9 DEF LoseRequest
    <2>2. ASSUME expired = {}, NEW t \in Threads PROVE OpenInv(t)'
      <3>1. OpenInv(t) /\ Opened(t)' \subseteq Opened(t)
        BY <2>1, <2>2 DEF SplitInv, Opened
      <3> QED BY <2>1, <3>1 DEF OpenInv
    <2>3. ASSUME expired = {}, NEW q \in Procs PROVE OpenerInv(q)'
      <3>1. OpenerInv(q) /\ Opened(Of(q))' \subseteq Opened(Of(q)) /\ Of(q)' = Of(q)
        BY <2>1, <2>3 DEF SplitInv, Opened, Of
      <3> QED BY <2>1, <3>1 DEF OpenerInv, Opened
    <2> QED BY <2>1, <2>2, <2>3 DEF SplitInv
  <1>10. ASSUME NEW t \in Threads, ClaimExpires(t) PROVE SplitInv'
    BY <1>10 DEF ClaimExpires, SplitInv
  <1>11. ASSUME NEW p \in Procs, ClaimAcquired(p) PROVE SplitInv'
    <2> DEFINE l == [turn[p] EXCEPT !.pc = "send", !.claim = claims + 1]
    <2>1. /\ turn[p].pc = "claim" /\ Claimable(Of(p)) /\ turn' = [turn EXCEPT ![p] = l]
          /\ thread' = [thread EXCEPT ![Of(p)] = [state |-> "initializing", context |-> None,
                                                 claim |-> claims + 1, live |-> TRUE]]
          /\ UNCHANGED <<contexts, expired, wire>>
      BY <1>11 DEF ClaimAcquired
    <2>2. l.msg = turn[p].msg /\ l.pc = "send"
      BY <1>1 DEF Turn
    <2> HIDE DEF l
    <2>3. /\ turn'[p] = l /\ \A q \in Procs \ {p} : turn'[q] = turn[q]
      BY <1>1, <2>1
    <2>4. PICK t \in Threads : t = Of(p)
      BY <2>1, ThreadAssumption DEF IInv, TurnInv, ReadInv, Of
    <2>5. thread'[t].state = "initializing" /\ \A u \in Threads \ {t} : thread'[u] = thread[u]
      BY <1>1, <2>1, <2>4 DEF TypeOK
    <2>6. ASSUME expired = {} PROVE OpenerInv(p)' /\ OpenInv(t)'
      <3>1. thread[t].state = "uninitialized"
        BY <2>1, <2>4, <2>6 DEF Claimable, IInv, ClaimInv
      <3>2. Opened(t)' = {}
        <4>1. Opened(t) = {}
          BY <2>6, <3>1 DEF SplitInv, OpenInv
        <4> QED BY <2>1, <4>1 DEF Opened
      <3>3. Of(p)' = t
        BY <2>2, <2>3, <2>4 DEF Of
      <3> QED BY <2>2, <2>3, <2>5, <3>2, <3>3 DEF OpenerInv, OpenInv, Opened
    <2> QED BY <2>1, <2>3, <2>4, <2>5, <2>6, NothingOpened
  <1>12. ASSUME NEW p \in Procs, release_context_initialization(p) PROVE SplitInv'
    <2>1. /\ turn[p].pc = "release" /\ End(p) /\ UNCHANGED <<contexts, expired, wire>>
          /\ thread' = thread
             \/ thread' = [thread EXCEPT ![Of(p)] = [state |-> "uninitialized",
                              context |-> None, claim |-> 0, live |-> FALSE]]
      BY <1>12 DEF release_context_initialization
    <2>2. turn'[p] = IdleTurn /\ \A q \in Procs \ {p} : turn'[q] = turn[q]
      BY <1>1, <2>1 DEF End
    <2>3. OpenerInv(p)'
      BY <2>2 DEF OpenerInv, IdleTurn
    <2>4. turn[p].claim # 0 /\ turn[p].pc \in Holding
      BY <2>1 DEF IInv, TurnInv, HoldInv, Holding
    <2>5. PICK t \in Threads : t = Of(p)
      BY <2>1, ThreadAssumption DEF IInv, TurnInv, ReadInv, Of
    <2>6. ASSUME expired = {} PROVE OpenInv(t)'
      <3>1. Opened(t) = {}
        BY <2>1, <2>4, <2>5, <2>6 DEF SplitInv, OpenerInv
      <3>2. Opened(t)' = {}
        BY <2>1, <3>1 DEF Opened
      <3> QED BY <3>2 DEF OpenInv
    <2>7. \A u \in Threads \ {t} : thread'[u] = thread[u]
      BY <1>1, <2>1, <2>5 DEF TypeOK
    <2> QED BY <2>1, <2>2, <2>3, <2>5, <2>6, <2>7, NothingOpened
  <1>13. ASSUME NEW p \in Procs, bind_context(p) PROVE SplitInv'
    <2>1. /\ turn[p].pc = "bindContext" /\ UNCHANGED <<contexts, expired, wire>>
          /\ \/ thread' = thread
             \/ thread' = [thread EXCEPT ![Of(p)] = [state |-> "ready",
                              context |-> turn[p].task[1], claim |-> 0, live |-> FALSE]]
          /\ \/ turn' = [turn EXCEPT ![p] = IdleTurn]
             \/ turn' = [turn EXCEPT ![p] = [turn[p] EXCEPT !.pc = "bindTask", !.claim = 0]]
      BY <1>13 DEF bind_context, End
    <2>2. turn'[p].claim = 0 /\ \A q \in Procs \ {p} : turn'[q] = turn[q]
      <3> DEFINE k == [turn[p] EXCEPT !.pc = "bindTask", !.claim = 0]
      <3>1. k.claim = 0 /\ IdleTurn.claim = 0
        BY <1>1 DEF IdleTurn, Turn
      <3>2. \E l : l.claim = 0 /\ turn' = [turn EXCEPT ![p] = l]
        BY <2>1, <3>1
      <3> QED BY <1>1, <3>2
    <2>3. OpenerInv(p)'
      BY <2>2 DEF OpenerInv
    <2>4. turn[p].claim # 0 /\ turn[p].pc \in Holding
      BY <2>1 DEF IInv, TurnInv, HoldInv, Holding
    <2>5. PICK t \in Threads, m \in Msgs : t = Of(p) /\ m = turn[p].msg
      BY <2>1, ThreadAssumption DEF IInv, TurnInv, ReadInv, Of
    <2>6. turn[p].task = <<m, m>>
      BY <2>1, <2>5 DEF IInv, TurnInv, AnswerInv
    <2>7. \A u \in Threads \ {t} : thread'[u] = thread[u]
      BY <1>1, <2>1, <2>5 DEF TypeOK
    <2>8. CASE thread' = thread
      BY <2>1, <2>2, <2>3, <2>8, RowUntouched
    <2>9. CASE thread' = [thread EXCEPT ![Of(p)] = [state |-> "ready",
                              context |-> turn[p].task[1], claim |-> 0, live |-> FALSE]]
      <3>1. thread'[t].state = "ready" /\ thread'[t].context = m
        BY <1>1, <2>5, <2>6, <2>9 DEF TypeOK
      <3>2. ASSUME expired = {} PROVE OpenInv(t)'
        <4>1. Opened(t) \subseteq {m} /\ <<None, m>> \notin wire
          BY <2>1, <2>4, <2>5, <3>2 DEF SplitInv, OpenerInv
        <4>2. Opened(t)' \subseteq {m} /\ <<None, m>> \notin wire'
          BY <2>1, <4>1 DEF Opened
        <4> QED BY <3>1, <4>2 DEF OpenInv
      <3> QED BY <2>1, <2>2, <2>3, <2>5, <2>7, <3>2, NothingOpened
    <2> QED BY <2>1, <2>8, <2>9
  <1>14. ASSUME NEW p \in Procs, send_message(p) PROVE SplitInv'
    <2> DEFINE l == [turn[p] EXCEPT !.pc = "wait"]
    <2>1. /\ turn[p].pc = "send" /\ turn[p].pc \in Holding
          /\ wire' = wire \cup {<<turn[p].context, turn[p].msg>>}
          /\ turn' = [turn EXCEPT ![p] = l] /\ UNCHANGED <<thread, contexts, expired>>
      BY <1>14 DEF send_message, Goto, Holding
    <2>2. l.claim = turn[p].claim /\ l.msg = turn[p].msg /\ l.pc = "wait"
      BY <1>1 DEF Turn
    <2> HIDE DEF l
    <2>3. /\ turn'[p] = l /\ \A q \in Procs \ {p} : turn'[q] = turn[q]
      BY <1>1, <2>1
    <2> SUFFICES ASSUME expired = {}
                 PROVE  (\A t \in Threads : OpenInv(t)') /\ (\A q \in Procs : OpenerInv(q)')
      BY <2>1 DEF SplitInv
    <2>4. PICK t \in Threads, m \in Msgs : t = Of(p) /\ m = turn[p].msg /\ ThreadOf[m] = t
      BY <2>1, ThreadAssumption DEF IInv, TurnInv, ReadInv, Of
    <2>5. (\A u \in Threads : OpenInv(u)) /\ (\A q \in Procs : OpenerInv(q))
      BY DEF SplitInv
    <2>6. \A q \in Procs : Of(q)' = Of(q)
      BY <2>2, <2>3 DEF Of
    <2>7. CASE turn[p].claim = 0
      <3>1. \A c \in Msgs : <<None, c>> \in wire' <=> <<None, c>> \in wire
        <4>1. turn[p].context # None
          BY <2>1, <2>7 DEF IInv, TurnInv, HoldInv
        <4> QED BY <2>1, <4>1
      <3>2. \A u : Opened(u)' = Opened(u)
        BY <2>1, <3>1 DEF Opened
      <3>3. ASSUME NEW u \in Threads PROVE OpenInv(u)'
        BY <2>1, <2>5, <3>1, <3>2 DEF OpenInv, Opened
      <3>4. ASSUME NEW q \in Procs PROVE OpenerInv(q)'
        <4>1. CASE q = p
          BY <2>2, <2>3, <2>7, <4>1 DEF OpenerInv
        <4>2. CASE q # p
          <5> SUFFICES ASSUME turn[q].pc \in Holding, turn[q].claim # 0 PROVE OpenerInv(q)'
            BY <2>3, <4>2 DEF OpenerInv
          <5>1. turn[q].msg \in Msgs
            BY SoleHolder
          <5> QED BY <2>3, <2>5, <2>6, <3>1, <3>2, <4>2, <5>1 DEF OpenerInv, Opened
        <4> QED BY <4>1, <4>2
      <3> QED BY <3>3, <3>4
    <2>8. CASE turn[p].claim # 0
      <3>1. turn[p].context = None /\ wire' = wire \cup {<<None, m>>}
        BY <2>1, <2>4, <2>8 DEF IInv, TurnInv, HoldInv
      <3>2. /\ thread[t].state = "initializing"
            /\ \A q \in Procs \ {p} : turn[q].pc \in Holding /\ turn[q].claim # 0 => Of(q) # t
        BY <2>1, <2>4, <2>8, SoleHolder
      <3>3. Opened(t) = {}
        BY <2>1, <2>4, <2>5, <2>8 DEF OpenerInv
      <3>4. /\ Opened(t)' = {m} /\ m \notin contexts
            /\ \A u \in Threads \ {t} : Opened(u)' = Opened(u)
        BY <2>1, <2>4, <3>1, <3>3 DEF Opened
      <3>5. ASSUME NEW u \in Threads PROVE OpenInv(u)'
        <4>1. CASE u = t
          BY <2>1, <3>2, <3>4, <4>1 DEF OpenInv
        <4>2. CASE u # t
          <5>1. \A c \in Opened(u) : c # m
            BY <2>4, <4>2 DEF Opened
          <5> QED BY <2>1, <2>5, <3>1, <3>4, <4>2, <5>1 DEF OpenInv
        <4> QED BY <4>1, <4>2
      <3>6. ASSUME NEW q \in Procs PROVE OpenerInv(q)'
        <4>1. CASE q = p
          BY <2>2, <2>3, <2>4, <2>6, <3>4, <4>1 DEF OpenerInv, Opened
        <4>2. CASE q # p
          <5> SUFFICES ASSUME turn[q].pc \in Holding, turn[q].claim # 0 PROVE OpenerInv(q)'
            BY <2>3, <4>2 DEF OpenerInv
          <5>1. PICK u \in Threads : u = Of(q) /\ u # t
            BY <3>2, <4>2, SoleHolder
          <5>2. turn[q].msg # m
            BY <2>4, <5>1 DEF Of
          <5> QED BY <2>3, <2>5, <2>6, <3>1, <3>4, <4>2, <5>1, <5>2 DEF OpenerInv, Opened
        <4> QED BY <4>1, <4>2
      <3> QED BY <3>5, <3>6
    <2> QED BY <2>7, <2>8
  <1>15. ASSUME NEW r \in (Msgs \cup {None}) \X Msgs, AdmitRequest(r) PROVE SplitInv'
    <2>1. /\ r \in wire /\ wire' = wire \ {r} /\ contexts' = contexts \cup {ContextFor(r)}
          /\ UNCHANGED <<thread, turn, expired>>
      BY <1>15 DEF AdmitRequest
    <2> SUFFICES ASSUME expired = {}
                 PROVE  (\A t \in Threads : OpenInv(t)') /\ (\A q \in Procs : OpenerInv(q)')
      BY <2>1 DEF SplitInv
    <2>2. (\A u \in Threads : OpenInv(u)) /\ (\A q \in Procs : OpenerInv(q))
      BY DEF SplitInv
    <2>3. \A q \in Procs : Of(q)' = Of(q)
      BY <2>1 DEF Of
    <2>4. CASE r[1] = None
      <3>1. r = <<None, r[2]>> /\ contexts' = contexts \cup {r[2]}
        BY <2>1, <2>4 DEF ContextFor
      <3>2. \A u : Opened(u)' = Opened(u)
        BY <2>1, <3>1 DEF Opened
      <3>3. ASSUME NEW u \in Threads PROVE OpenInv(u)'
        BY <2>1, <2>2, <3>1, <3>2 DEF OpenInv
      <3>4. ASSUME NEW q \in Procs PROVE OpenerInv(q)'
        <4>1. Opened(Of(q))' = Opened(Of(q))
          BY <2>1, <2>3, <3>1 DEF Opened
        <4> QED BY <2>1, <2>2, <4>1 DEF OpenerInv
      <3> QED BY <3>3, <3>4
    <2>5. CASE r[1] # None
      <3>1. PICK t \in Threads, c \in Msgs :
              /\ t = ThreadOf[r[2]] /\ c = r[1] /\ thread[t].context = c /\ thread[t].state = "ready"
              /\ ThreadOf[c] = t
        <4>1. ThreadOf[r[2]] \in Threads /\ r[1] \in Msgs
          BY <2>5, ThreadAssumption
        <4>2. thread[ThreadOf[r[2]]].context = r[1]
          BY <2>1, <2>5 DEF SplitInv, OriginInv
        <4>3. thread[ThreadOf[r[2]]].state = "ready" /\ ThreadOf[r[1]] = ThreadOf[r[2]]
          BY <2>5, <4>1, <4>2 DEF IInv, RowInv, SplitInv, OriginInv
        <4> QED BY <4>1, <4>2, <4>3
      <3>2. contexts' = contexts \cup {c} /\ \A d : <<None, d>> \in wire' <=> <<None, d>> \in wire
        BY <2>1, <2>5, <3>1 DEF ContextFor
      <3>3. /\ Opened(t)' = Opened(t) \cup {c}
            /\ \A u \in Threads \ {t} : Opened(u)' = Opened(u)
        BY <3>1, <3>2 DEF Opened
      <3>4. Opened(t) \subseteq {c} /\ <<None, c>> \notin wire
        BY <2>2, <3>1 DEF OpenInv, Opened
      <3>5. ASSUME NEW u \in Threads PROVE OpenInv(u)'
        <4>1. CASE u = t
          BY <2>1, <3>1, <3>2, <3>3, <3>4, <4>1 DEF OpenInv
        <4>2. CASE u # t
          <5>1. \A d \in Opened(u) : d # c
            BY <3>1, <4>2 DEF Opened
          <5> QED BY <2>1, <2>2, <3>2, <3>3, <4>2, <5>1 DEF OpenInv
        <4> QED BY <4>1, <4>2
      <3>6. ASSUME NEW q \in Procs PROVE OpenerInv(q)'
        <4> SUFFICES ASSUME turn[q].pc \in Holding, turn[q].claim # 0 PROVE OpenerInv(q)'
          BY <2>1 DEF OpenerInv
        <4>1. PICK u \in Threads : u = Of(q) /\ u # t
          BY <3>1, SoleHolder
        <4>2. Opened(Of(q))' = Opened(Of(q))
          BY <2>3, <3>3, <4>1 DEF Opened
        <4> QED BY <2>1, <2>2, <3>2, <4>2 DEF OpenerInv
      <3> QED BY <3>5, <3>6
    <2> QED BY <2>4, <2>5
  <1> QED
    BY <1>4, <1>5, <1>6, <1>7, <1>8, <1>9, <1>10, <1>11, <1>12, <1>13, <1>14, <1>15 DEF Cases

LEMMA SplitInvariance == Spec => []SplitInv
  <1>1. Init => SplitInv
    <2> SUFFICES ASSUME Init PROVE SplitInv
      OBVIOUS
    <2>1. OriginInv /\ \A t \in Threads : Opened(t) = {}
      BY DEF Init, OriginInv, Opened
    <2>2. \A t \in Threads : OpenInv(t)
      BY <2>1 DEF OpenInv, Init
    <2>3. \A p \in Procs : OpenerInv(p)
      BY DEF Init, OpenerInv, IdleTurn, Holding
    <2> QED BY <2>1, <2>2, <2>3 DEF SplitInv
  <1>2. IInv /\ SplitInv /\ [Next]_vars => SplitInv'
    <2> SUFFICES ASSUME IInv, SplitInv, [Next]_vars PROVE SplitInv'
      OBVIOUS
    <2>1. CASE Next
      <3>1. Cases
        BY <2>1, NextCases
      <3>2. OriginInv'
        BY <3>1, KeptStep, OriginStep DEF IInv, SplitInv
      <3> QED BY <3>1, <3>2, SplitStep
    <2>2. CASE UNCHANGED vars
      BY <2>2 DEF vars, SplitInv, OriginInv, OpenInv, OpenerInv, Opened, Of
    <2> QED BY <2>1, <2>2
  <1> QED BY <1>1, <1>2, Invariance, PTL DEF Spec

\* As long as no initialization claim has run out, failed, repeated, refused and lost
\* sends never give a thread two contexts or a message two tasks.
THEOREM ThreadSplitOnlyAfterExpiry == Spec => []SplitOnlyAfterExpiry
  <1>1. IInv /\ SplitInv => SplitOnlyAfterExpiry
    <2> SUFFICES ASSUME IInv, SplitInv, expired = {} PROVE SplitOnlyAfterExpiry
      BY DEF SplitOnlyAfterExpiry
    <2>1. ASSUME NEW c \in contexts, NEW d \in contexts, ThreadOf[c] = ThreadOf[d] PROVE c = d
      <3>1. c \in Msgs /\ d \in Msgs /\ ThreadOf[c] \in Threads
        BY ThreadAssumption DEF IInv, TypeOK
      <3>2. c \in Opened(ThreadOf[c]) /\ d \in Opened(ThreadOf[c])
        BY <2>1, <3>1 DEF Opened
      <3> QED BY <3>1, <3>2 DEF SplitInv, OpenInv
    <2>2. ASSUME NEW k \in tasks, NEW l \in tasks, k[2] = l[2] PROVE k = l
      <3>1. k \in Msgs \X Msgs /\ l \in Msgs \X Msgs
        BY DEF IInv, TypeOK, Tasks
      <3>2. k[1] = l[1]
        BY <2>1, <2>2 DEF SplitInv, OriginInv
      <3> QED BY <2>2, <3>1, <3>2
    <2> QED BY <2>1, <2>2 DEF SplitOnlyAfterExpiry
  <1> QED BY <1>1, Invariance, SplitInvariance, PTL

----
\* Refinement

\* The columns ThreadBinding speaks of.
ContextOf == [t \in Threads |-> thread[t].context]
TaskOf == [m \in Msgs |-> logical[m].task]

\* A step that leaves these columns alone is a stutter of ThreadBinding.
LEMMA Stutter ==
    ASSUME \A t \in Threads : thread'[t].context = thread[t].context,
           \A m \in Msgs : logical'[m].task = logical[m].task
    PROVE  UNCHANGED <<ContextOf, TaskOf>>
  BY DEF ContextOf, TaskOf

\* A step of ThreadBinding or a stutter, in these columns.
Binds ==
    \/ \E t \in Threads, c \in Msgs :
          /\ ContextOf[t] = None
          /\ \A u \in Threads : ContextOf[u] # c
          /\ ContextOf' = [ContextOf EXCEPT ![t] = c]
          /\ UNCHANGED TaskOf
    \/ \E m \in Msgs :
          /\ TaskOf[m] = None
          /\ ContextOf[ThreadOf[m]] # None
          /\ TaskOf' = [TaskOf EXCEPT ![m] = <<ContextOf[ThreadOf[m]], m>>]
          /\ UNCHANGED ContextOf
    \/ UNCHANGED <<ContextOf, TaskOf>>

\* Each step binds one thread, binds one message or stutters.
LEMMA BindingStep ==
    ASSUME IInv, Cases
    PROVE  Binds
  <1>1. ASSUME UNCHANGED <<thread, logical>>
        PROVE  Binds
    BY <1>1, Stutter DEF Binds
  <1>2. ASSUME NEW p \in Procs, record_logical_send(p)
        PROVE  Binds
    <2>1. turn[p].msg \in Msgs /\ thread' = thread
      BY <1>2 DEF record_logical_send, IInv, TurnInv, ReadInv
    <2>2. \/ logical' = logical
          \/ /\ logical[turn[p].msg].status = "none"
             /\ logical' = [logical EXCEPT ![turn[p].msg] = [status |-> "pending",
                                                             task |-> None]]
      BY <1>2 DEF record_logical_send
    <2>3. logical[turn[p].msg].status = "none" => logical[turn[p].msg].task = None
      BY <2>1 DEF IInv, LogInv
    <2>4. \A m \in Msgs : logical'[m].task = logical[m].task
      BY <2>1, <2>2, <2>3 DEF IInv, TypeOK
    <2> QED BY <2>1, <2>4, Stutter DEF Binds
  <1>3. ASSUME NEW p \in Procs, ClaimAcquired(p) \/ release_context_initialization(p)
        PROVE  Binds
    <2>1. Of(p) \in Threads /\ logical' = logical
      BY <1>3, ThreadAssumption
      DEF ClaimAcquired, release_context_initialization, IInv, TurnInv, ReadInv, Of
    <2>2. \/ thread' = thread
          \/ /\ thread[Of(p)].state # "ready"
             /\ \E x : x.context = None /\ thread' = [thread EXCEPT ![Of(p)] = x]
      <3>1. CASE ClaimAcquired(p)
        BY <3>1 DEF ClaimAcquired, Claimable
      <3>2. CASE release_context_initialization(p)
        BY <3>2 DEF release_context_initialization, OwnsClaim
      <3> QED BY <1>3, <3>1, <3>2
    <2>3. thread[Of(p)].state # "ready" => thread[Of(p)].context = None
      BY <2>1 DEF IInv, RowInv
    <2>4. \A t \in Threads : thread'[t].context = thread[t].context
      BY <2>1, <2>2, <2>3 DEF IInv, TypeOK
    <2> QED BY <2>1, <2>4, Stutter DEF Binds
  <1>4. ASSUME NEW p \in Procs, bind_context(p)
        PROVE  Binds
    <2> DEFINE c == turn[p].task[1]
    <2>1. turn[p].pc = "bindContext" /\ logical' = logical
      BY <1>4 DEF bind_context
    <2>2. turn[p].msg \in Msgs /\ Of(p) \in Threads
      BY <2>1, ThreadAssumption DEF IInv, TurnInv, ReadInv, Of
    <2>3. c \in Msgs
      <3>1. turn[p].task = <<turn[p].msg, turn[p].msg>>
        BY <2>1 DEF IInv, TurnInv, AnswerInv
      <3> QED BY <2>2, <3>1
    <2>4. \/ thread' = thread
          \/ /\ OwnsClaim(p) /\ Unbound(c)
             /\ thread' = [thread EXCEPT ![Of(p)] = [state |-> "ready", context |-> c,
                                                     claim |-> 0, live |-> FALSE]]
      BY <1>4 DEF bind_context
    <2>5. CASE /\ OwnsClaim(p) /\ Unbound(c)
               /\ thread' = [thread EXCEPT ![Of(p)] = [state |-> "ready", context |-> c,
                                                       claim |-> 0, live |-> FALSE]]
      <3>1. ContextOf[Of(p)] = None
        BY <2>2, <2>5 DEF OwnsClaim, IInv, RowInv, ContextOf
      <3>2. \A u \in Threads : ContextOf[u] # c
        BY <2>5 DEF Unbound, ContextOf
      <3>3. ContextOf' = [ContextOf EXCEPT ![Of(p)] = c]
        BY <2>2, <2>5 DEF ContextOf, IInv, TypeOK
      <3>4. UNCHANGED TaskOf
        BY <2>1 DEF TaskOf
      <3> HIDE DEF c
      <3> QED BY <2>2, <2>3, <3>1, <3>2, <3>3, <3>4 DEF Binds
    <2> QED BY <1>1, <2>1, <2>4, <2>5
  <1>5. ASSUME NEW p \in Procs, bind_task_id(p)
        PROVE  Binds
    <2> DEFINE m == turn[p].msg
    <2>1. turn[p].pc = "bindTask" /\ thread' = thread
      BY <1>5 DEF bind_task_id
    <2>2. m \in Msgs /\ Of(p) \in Threads /\ Of(p) = ThreadOf[m]
      BY <2>1, ThreadAssumption DEF IInv, TurnInv, ReadInv, Of
    <2>3. thread[Of(p)].state = "ready" /\ turn[p].task = <<thread[Of(p)].context, m>>
      BY <2>1 DEF IInv, TurnInv, AnswerInv
    <2>4. \/ logical' = logical
          \/ /\ logical[m].status = "pending"
             /\ logical' = [logical EXCEPT ![m] = [status |-> "bound",
                                                   task |-> turn[p].task]]
      BY <1>5 DEF bind_task_id
    <2>5. CASE /\ logical[m].status = "pending"
               /\ logical' = [logical EXCEPT ![m] = [status |-> "bound",
                                                     task |-> turn[p].task]]
      <3>1. TaskOf[m] = None
        BY <2>2, <2>5 DEF IInv, LogInv, TaskOf
      <3>2. ContextOf[ThreadOf[m]] # None
        BY <2>2, <2>3 DEF IInv, RowInv, ContextOf
      <3>3. ContextOf[ThreadOf[m]] = thread[Of(p)].context
        BY <2>2 DEF ContextOf
      <3>4. TaskOf' = [TaskOf EXCEPT ![m] = turn[p].task]
        BY <2>2, <2>5 DEF TaskOf, IInv, TypeOK
      <3>5. UNCHANGED ContextOf
        BY <2>1 DEF ContextOf
      <3> HIDE DEF m
      <3> QED BY <2>2, <2>3, <3>1, <3>2, <3>3, <3>4, <3>5 DEF Binds
    <2> QED BY <1>1, <2>1, <2>4, <2>5
  <1>6. ASSUME NEW t \in Threads, ClaimExpires(t)
        PROVE  Binds
    <2>1. logical' = logical
          /\ thread' = [thread EXCEPT ![t] = [thread[t] EXCEPT !.live = FALSE]]
      BY <1>6 DEF ClaimExpires
    <2>2. \A u \in Threads : thread'[u].context = thread[u].context
      BY <2>1 DEF IInv, TypeOK, ThreadRow
    <2> QED BY <2>1, <2>2, Stutter DEF Binds
  <1>7. ASSUME NEW p \in Procs,
               \/ ClaimReady(p) \/ ClaimBusy(p) \/ send_message(p) \/ Answer(p)
               \/ Refuse(p) \/ Timeout(p) \/ create_push_config(p) \/ Crash(p)
        PROVE  UNCHANGED <<thread, logical>>
    BY <1>7 DEF ClaimReady, ClaimBusy, send_message, Answer, Refuse, Timeout,
                create_push_config, Crash
  <1>8. ASSUME NEW r \in (Msgs \cup {None}) \X Msgs, AdmitRequest(r) \/ LoseRequest(r)
        PROVE  UNCHANGED <<thread, logical>>
    BY <1>8 DEF AdmitRequest, LoseRequest
  <1>9. ASSUME NEW p \in Procs, NEW m \in Msgs, Start(p, m)
        PROVE  UNCHANGED <<thread, logical>>
    BY <1>9 DEF Start
  <1> QED
    BY <1>1, <1>2, <1>3, <1>4, <1>5, <1>6, <1>7, <1>8, <1>9 DEF Cases

\* The agent_threads and agent_tasks rows implement ThreadBinding: bind_context()
\* gives a thread a context no other thread has, bind_task_id() gives a message
\* its task in that context, and nothing ever changes either.
THEOREM ThreadRefinesBinding == Spec => BindingSpec
  <1>1. Init => Bindings!AbstractInit
    BY DEF Init, Bindings!AbstractInit
  <1>2. IInv /\ [Next]_vars => [Bindings!AbstractNext]_(Bindings!abstractVars)
    <2> SUFFICES ASSUME IInv, [Next]_vars
                 PROVE  [Bindings!AbstractNext]_(Bindings!abstractVars)
      OBVIOUS
    <2>1. CASE Next
      <3>1. Cases
        BY <2>1, NextCases
      <3> QED
        BY <3>1, BindingStep
        DEF Binds, ContextOf, TaskOf, Bindings!AbstractNext, Bindings!BindThread,
            Bindings!BindMessage, Bindings!abstractVars
    <2>2. CASE UNCHANGED vars
      BY <2>2 DEF vars, Bindings!abstractVars
    <2> QED BY <2>1, <2>2
  <1> QED
    BY <1>1, <1>2, Invariance, PTL DEF Spec, BindingSpec, Bindings!AbstractSpec

====
