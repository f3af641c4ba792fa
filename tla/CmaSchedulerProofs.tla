---- MODULE CmaSchedulerProofs ----
(***************************************************************************)
(* Proofs about CmaScheduler for every set of tasks and workers and every   *)
(* bound: its types, then its safety properties with the inductive          *)
(* invariants they rest on, each on top of the earlier ones.                *)
(***************************************************************************)
EXTENDS CmaScheduler, FiniteSetTheorems, SequenceTheorems, TLAPS

----
\* Types

\* FirstOf and LastOf return a position of the set, or 0.
LEMMA PositionType ==
    ASSUME NEW S \in SUBSET Nat
    PROVE  FirstOf(S) \in Nat /\ LastOf(S) \in Nat
  BY DEF FirstOf, LastOf

\* The positions of events are natural numbers.
LEMMA EventsType ==
    ASSUME NEW K, NEW lo, NEW hi, TypeOK
    PROVE  EventsOf(K, lo, hi) \in SUBSET Nat
  BY DEF EventsOf, TypeOK

\* The listing lengths and the first or last event found are event ids.
LEMMA ListingType ==
    ASSUME TypeOK, NEW K, NEW lo, NEW hi
    PROVE  /\ Len(hist) \in Nat
           /\ FirstOf(EventsOf(K, lo, hi)) \in Nat
           /\ LastOf(EventsOf(K, lo, hi)) \in Nat
  BY EventsType, PositionType DEF TypeOK

\* An event of the kind is appended for the task, whatever it answers.
Grows(k, t) == \E a \in Nat : Answer(k, t, a)

\* Most events answer nothing.
LEMMA AppendGrows == ASSUME NEW k, NEW t, Append1(k, t) PROVE Grows(k, t)
  BY DEF Append1, Grows

\* A confirmation is appended for the worker's task.
LEMMA ConfirmGrows ==
    ASSUME TypeOK, NEW w \in Workers, ConfirmTool(w)
    PROVE  /\ loc[w].says \in {"allow", "deny"} /\ loc[w].task \in Tasks
           /\ UNCHANGED hist \/ Grows(loc[w].says, loc[w].task)
  <1>1. loc[w] \in Local /\ LocalFits(loc[w]) /\ loc[w].pc = "confirm"
    BY DEF TypeOK, LocalOK, ConfirmTool, At
  <1>2. loc[w].says \in {"allow", "deny"} /\ loc[w].task \in Tasks
    BY <1>1 DEF LocalFits
  <1>3. loc[w].ev \in Nat
    BY <1>1 DEF Local
  <1>4. UNCHANGED hist \/ Answer(loc[w].says, loc[w].task, loc[w].ev)
    BY DEF ConfirmTool
  <1> QED BY <1>2, <1>3, <1>4 DEF Grows

\* An appended event keeps the history a sequence of events.
LEMMA AppendType ==
    ASSUME TypeOK, NEW t \in Tasks \cup {None}, NEW k \in EventKinds, Grows(k, t)
    PROVE  hist' \in Seq(Event)
  <1>1. PICK a \in Nat : Answer(k, t, a)
    BY DEF Grows
  <1> QED BY <1>1 DEF TypeOK, Answer, Event

\* A worker's local record may be replaced by one of the same type.
LEMMA LocalType ==
    ASSUME TypeOK, NEW w \in Workers, NEW r \in Local,
           LocalFits(r), loc' = [loc EXCEPT ![w] = r]
    PROVE  LocalOK'
  BY DEF TypeOK, LocalOK

\* A move of the program counter alone.
LEMMA GotoType ==
    ASSUME TypeOK, NEW w \in Workers, NEW p \in Pcs,
           LocalFits([loc[w] EXCEPT !.pc = p]), Goto(w, p)
    PROVE  LocalOK'
  <1>1. [loc[w] EXCEPT !.pc = p] \in Local
    BY DEF TypeOK, LocalOK, Local
  <1>2. loc' = [loc EXCEPT ![w] = [loc[w] EXCEPT !.pc = p]]
    BY DEF Goto
  <1> QED BY <1>1, <1>2, LocalType

\* The program points that ask nothing of what the worker carries but a task.
PlainPcs == Pcs \ {"confirm", "hold", "fail_context", "finish"}

\* A worker with a task in hand, or one that ends its run, may go to any of
\* them.
LEMMA PlainType ==
    ASSUME TypeOK, NEW w \in Workers, NEW p \in PlainPcs,
           \/ p \in {"reconcile", "release"}
           \/ loc[w].pc \notin {"idle", "reconcile", "release"},
           Goto(w, p)
    PROVE  LocalOK'
  <1>1. loc[w] \in Local /\ LocalFits(loc[w])
    BY DEF TypeOK, LocalOK
  <1>2. LocalFits([loc[w] EXCEPT !.pc = p])
    BY <1>1 DEF Local, LocalFits, PlainPcs
  <1> QED BY <1>2, GotoType DEF PlainPcs

\* Hold and GotoWith keep an outcome that fits the column it goes to; a review
\* pass keeps one for its last step.
LEMMA OutcomeType ==
    ASSUME TypeOK, NEW w \in Workers,
           loc[w].pc \notin {"idle", "reconcile", "release"},
           \/ \E r \in HeldReasons : Hold(w, r)
           \/ \E o \in A2aStates : GotoWith(w, "finish", o) \/ GotoWith(w, "fail_context", o)
           \/ \E p \in PlainPcs, o \in A2aStates \cup HeldReasons : GotoWith(w, p, o)
    PROVE  LocalOK'
  <1>0. loc[w] \in Local /\ loc[w].task \in Tasks
    BY DEF TypeOK, LocalOK, LocalFits
  <1>1. PICK p \in Pcs, o \in A2aStates \cup HeldReasons :
            /\ loc' = [loc EXCEPT ![w] = [loc[w] EXCEPT !.pc = p, !.out = o]]
            /\ \/ p = "hold" /\ o \in HeldReasons
               \/ p \in {"finish", "fail_context"} /\ o \in A2aStates
               \/ p \in PlainPcs
    <2>1. CASE \E r \in HeldReasons : Hold(w, r)
      BY <2>1 DEF Hold, GotoWith, Pcs
    <2>2. CASE \E o \in A2aStates : GotoWith(w, "finish", o) \/ GotoWith(w, "fail_context", o)
      BY <2>2 DEF GotoWith, Pcs
    <2>3. CASE \E p \in PlainPcs, o \in A2aStates \cup HeldReasons : GotoWith(w, p, o)
      <3>1. PlainPcs \subseteq Pcs
        BY DEF PlainPcs
      <3> QED BY <2>3, <3>1 DEF GotoWith
    <2> QED BY <2>1, <2>2, <2>3
  <1>2. [loc[w] EXCEPT !.pc = p, !.out = o] \in Local
    BY <1>0 DEF Local
  <1>3. LocalFits([loc[w] EXCEPT !.pc = p, !.out = o])
    BY <1>0, <1>1 DEF Local, LocalFits, PlainPcs
  <1> QED BY <1>1, <1>2, <1>3, LocalType

\* A row may be replaced by a row.
LEMMA RowType ==
    ASSUME TypeOK, NEW t \in Tasks, NEW r \in TaskRow, task' = [task EXCEPT ![t] = r]
    PROVE  task' \in [Tasks -> TaskRow]
  BY DEF TypeOK

\* The initial state has the types.
LEMMA TypeInit == Init => TypeOK
  <1> SUFFICES ASSUME Init PROVE TypeOK
    OBVIOUS
  <1>1. NoTask \in TaskRow
    BY DEF NoTask, TaskRow, InternalStates, A2aStates, HeldReasons, RequestStates, Decisions
  <1>2. IdleLocal \in Local
    BY DEF IdleLocal, Local, Pcs, HeldReasons, Decisions
  <1>3. ctx \in ContextRow
    BY DEF Init, ContextRow
  <1>4. LocalOK
    BY <1>2 DEF Init, LocalOK, LocalFits, IdleLocal
  <1> QED BY <1>1, <1>3, <1>4 DEF Init, TypeOK

\* The service and the operator keep the types.
LEMMA TypeClient ==
    ASSUME TypeOK, NEW t \in Tasks,
           Admit(t) \/ CancelTask(t) \/ AdminFail(t) \/ AdminRetry(t)
    PROVE  TypeOK'
  <1>0. task[t] \in TaskRow
    BY DEF TypeOK
  <1>1. CASE Admit(t)
    <2>1. Rejection \in HeldReasons
      BY DEF Rejection, HeldReasons
    <2>2. ctx.next_sequence \in Nat /\ ctx' \in ContextRow
      BY <1>1 DEF TypeOK, Admit, ContextRow
    <2>3. task'[t] \in TaskRow
      BY <1>0, <1>1, <2>1, <2>2 DEF Admit, TypeOK, TaskRow, InternalStates, A2aStates
    <2> QED BY <1>1, <2>2, <2>3 DEF TypeOK, Admit, LocalOK
  <1>2. CASE CancelTask(t)
    <2>1. \/ task' = [task EXCEPT ![t] = [@ EXCEPT
                 !.internal_state = "terminal", !.a2a_state = "CANCELED"]]
          \/ task' = [task EXCEPT ![t] = [@ EXCEPT !.cancel_requested = TRUE]]
      BY <1>2 DEF CancelTask
    <2>2. task' \in [Tasks -> TaskRow]
      <3>1. [task[t] EXCEPT !.internal_state = "terminal", !.a2a_state = "CANCELED"] \in TaskRow
        BY <1>0 DEF TaskRow, InternalStates, A2aStates
      <3>2. [task[t] EXCEPT !.cancel_requested = TRUE] \in TaskRow
        BY <1>0 DEF TaskRow
      <3> QED BY <2>1, <3>1, <3>2, RowType
    <2> QED BY <1>2, <2>2 DEF TypeOK, CancelTask, LocalOK
  <1>3. CASE AdminFail(t)
    <2>1. task'[t] \in TaskRow
      BY <1>0, <1>3 DEF TypeOK, AdminFail, TaskRow, InternalStates, A2aStates, HeldReasons
    <2>2. ctx' \in ContextRow
      BY <1>3 DEF TypeOK, AdminFail, ContextRow
    <2> QED BY <1>3, <2>1, <2>2 DEF TypeOK, AdminFail, LocalOK
  <1>4. CASE AdminRetry(t)
    <2>1. task'[t] \in TaskRow
      BY <1>0, <1>4 DEF TypeOK, AdminRetry, TaskRow, InternalStates, A2aStates, HeldReasons
    <2>2. ctx' \in ContextRow
      BY <1>4 DEF TypeOK, AdminRetry, ContextRow
    <2> QED BY <1>4, <2>1, <2>2 DEF TypeOK, AdminRetry, LocalOK
  <1> QED BY <1>1, <1>2, <1>3, <1>4

\* The provider and the passing of time keep the types.
LEMMA TypeProvider ==
    ASSUME TypeOK, Provider \/ LeaseExpires
    PROVE  TypeOK'
  <1>1. CASE ProviderListsInitial
    <2>1. cma.unlisted \in Tasks \cup {None} /\ cma' \in [sessions: Nat, unlisted: Tasks \cup {None}]
      BY <1>1 DEF TypeOK, ProviderListsInitial
    <2>2. hist' \in Seq(Event)
      BY <1>1, <2>1, AppendType, AppendGrows DEF ProviderListsInitial, EventKinds
    <2> QED BY <1>1, <2>1, <2>2 DEF TypeOK, ProviderListsInitial, LocalOK
  <1>2. CASE ProviderRuns
    <2>1. hist' \in Seq(Event)
      BY <1>2, AppendType, AppendGrows DEF ProviderRuns, Statuses, EventKinds
    <2> QED BY <1>2, <2>1 DEF TypeOK, ProviderRuns, LocalOK
  <1>3. ASSUME NEW stop \in {"end_turn", "requires_action", "idle_budget"}, ProviderRests(stop)
        PROVE  TypeOK'
    <2>1. hist' \in Seq(Event)
      BY <1>3, AppendType, AppendGrows DEF ProviderRests, Statuses, EventKinds
    <2> QED BY <1>3, <2>1 DEF TypeOK, ProviderRests, LocalOK
  <1>4. CASE ProviderYields
    <2>1. hist' \in Seq(Event)
      BY <1>4, AppendType, AppendGrows DEF ProviderYields, Statuses, EventKinds
    <2> QED BY <1>4, <2>1 DEF TypeOK, ProviderYields, LocalOK
  <1>5. CASE ProviderStops
    <2>1. PICK kind \in Failures \ {"idle_budget"} : Append1(kind, None)
      BY <1>5 DEF ProviderStops
    <2>2. hist' \in Seq(Event)
      BY <2>1, AppendType, AppendGrows, BoundsAssumption DEF Statuses, EventKinds
    <2> QED BY <1>5, <2>2 DEF TypeOK, ProviderStops, LocalOK
  <1>6. CASE LeaseExpires
    <2>1. ctx' \in ContextRow
      BY <1>6 DEF TypeOK, LeaseExpires, ContextRow
    <2> QED BY <1>6, <2>1 DEF TypeOK, LeaseExpires, LocalOK
  <1> QED BY <1>1, <1>2, <1>3, <1>4, <1>5, <1>6 DEF Provider

\* Lease steps and faults of a worker.
LEMMA TypeLease ==
    ASSUME TypeOK, NEW w \in Workers,
           \/ ClaimScheduler(w) \/ ReleaseScheduler(w) \/ LoseClaim(w)
           \/ Raise(w) \/ Crash(w)
    PROVE  TypeOK'
  <1>0. IdleLocal \in Local /\ LocalFits(IdleLocal)
    BY DEF IdleLocal, LocalFits, Local, Pcs, HeldReasons, Decisions
  <1>1. CASE ClaimScheduler(w)
    <2>1. LocalOK'
      BY <1>1, PlainType DEF ClaimScheduler, PlainPcs, Pcs
    <2>2. ctx' \in ContextRow
      BY <1>1 DEF TypeOK, ClaimScheduler, ContextRow
    <2> QED BY <1>1, <2>1, <2>2 DEF TypeOK, ClaimScheduler
  <1>2. CASE ReleaseScheduler(w)
    <2>1. LocalOK'
      BY <1>0, <1>2, LocalType DEF ReleaseScheduler
    <2>2. ctx' \in ContextRow
      BY <1>2 DEF TypeOK, ReleaseScheduler, ContextRow
    <2> QED BY <1>2, <2>1, <2>2 DEF TypeOK, ReleaseScheduler
  <1>3. CASE LoseClaim(w)
    <2>1. LocalOK'
      BY <1>3, PlainType DEF LoseClaim, FencedPcs, PlainPcs, Pcs
    <2> QED BY <1>3, <2>1 DEF TypeOK, LoseClaim
  <1>4. CASE Raise(w)
    <2>1. LocalOK'
      BY <1>4, PlainType DEF Raise, PlainPcs, Pcs
    <2> QED BY <1>4, <2>1 DEF TypeOK, Raise
  <1>5. CASE Crash(w)
    <2>1. LocalOK'
      BY <1>0, <1>5, LocalType DEF Crash
    <2> QED BY <1>5, <2>1 DEF TypeOK, Crash
  <1> QED BY <1>1, <1>2, <1>3, <1>4, <1>5

\* Steps of a worker that only read: they change nothing but loc.
ReadStep(w) ==
    \/ ReconcileActive(w) \/ ReconcileQueued(w) \/ ReconcileNothing(w)
    \/ FindSession(w) \/ InitialInput(w) \/ RecoverSession(w) \/ ListActive(w)
    \/ ReconcileConfirmations(w) \/ ReadStatus(w) \/ EvaluateReview(w) \/ Recheck(w)
    \/ CancelSettled(w) \/ CancelOpen(w)

\* They keep the types.
LEMMA TypeRead ==
    ASSUME TypeOK, NEW w \in Workers, ReadStep(w)
    PROVE  TypeOK'
  <1> DEFINE t == loc[w].task
  <1>0. loc[w] \in Local /\ LocalFits(loc[w]) /\ ctx \in ContextRow
    BY DEF TypeOK, LocalOK
  <1>l. Len(hist) \in Nat
    BY DEF TypeOK
  <1>1. CASE ReconcileActive(w)
    <2>1. ctx.active_task \in Tasks
      BY <1>0, <1>1 DEF ReconcileActive, ContextRow
    <2>2. task[ctx.active_task].cancel_requested \in BOOLEAN
      BY <2>1 DEF TypeOK, TaskRow
    <2> DEFINE r == [loc[w] EXCEPT !.pc = "active", !.task = ctx.active_task,
                                   !.cancel = task[ctx.active_task].cancel_requested]
    <2>3. r \in Local /\ LocalFits(r)
      BY <1>0, <2>1, <2>2, ZenonT(60) DEF Local, LocalFits, Pcs
    <2>4. loc' = [loc EXCEPT ![w] = r]
      BY <1>1 DEF ReconcileActive
    <2>5. LocalOK'
      BY <2>3, <2>4, LocalType
    <2> QED BY <1>1, <2>5 DEF TypeOK, ReconcileActive
  <1>2. CASE ReconcileQueued(w)
    <2>1. PICK u \in Tasks :
            loc' = [loc EXCEPT ![w] =
                IF ctx.lifecycle_state = "failed"
                THEN [loc[w] EXCEPT !.pc = "finish", !.task = u, !.out = "FAILED"]
                ELSE [loc[w] EXCEPT !.pc = "activate", !.task = u,
                               !.snap = IF ctx.cma_session THEN Len(hist) ELSE 0]]
      BY <1>2 DEF ReconcileQueued
    <2> DEFINE r == [loc[w] EXCEPT !.pc = "finish", !.task = u, !.out = "FAILED"]
               q == [loc[w] EXCEPT !.pc = "activate", !.task = u,
                                   !.snap = IF ctx.cma_session THEN Len(hist) ELSE 0]
    <2>2. r \in Local /\ LocalFits(r)
      BY <1>0, ZenonT(60) DEF Local, LocalFits, Pcs, A2aStates
    <2>3. q \in Local /\ LocalFits(q)
      BY <1>0, <1>l DEF Local, LocalFits, Pcs
    <2>4. LocalOK'
      BY <2>1, <2>2, <2>3, LocalType
    <2> QED BY <1>2, <2>4 DEF TypeOK, ReconcileQueued
  <1>3. CASE ReconcileNothing(w)
    <2>1. LocalOK'
      BY <1>3, PlainType DEF ReconcileNothing, At, PlainPcs, Pcs
    <2> QED BY <1>3, <2>1 DEF TypeOK, ReconcileNothing
  <1>4. CASE FindSession(w)
    <2>1. LocalOK'
      BY <1>4, PlainType DEF FindSession, At, PlainPcs, Pcs
    <2> QED BY <1>4, <2>1 DEF TypeOK, FindSession
  <1>5. CASE InitialInput(w)
    <2> DEFINE found == FirstOf(EventsOf({"message"}, 0, Len(hist)))
               r == [loc[w] EXCEPT !.pc = "bind_initial", !.ev = found]
    <2>1. CASE found = 0
      <3>1. LocalOK'
        BY <1>5, <2>1, OutcomeType DEF InitialInput, At, HeldReasons
      <3> QED BY <1>5, <3>1 DEF TypeOK, InitialInput
    <2>2. CASE found # 0
      <3>1. found \in Nat
        BY ListingType
      <3>2. r \in Local /\ LocalFits(r)
        BY <1>0, <1>5, <3>1 DEF Local, LocalFits, Pcs, InitialInput, At
      <3>3. LocalOK'
        BY <1>5, <2>2, <3>2, LocalType DEF InitialInput
      <3> QED BY <1>5, <3>3 DEF TypeOK, InitialInput
    <2> QED BY <2>1, <2>2
  <1>6. CASE RecoverSession(w)
    <2>1. LocalOK'
      BY <1>6, PlainType, OutcomeType DEF RecoverSession, At, PlainPcs, Pcs, HeldReasons
    <2> QED BY <1>6, <2>1 DEF TypeOK, RecoverSession
  <1>7. CASE ListActive(w)
    <2> DEFINE c == FirstOf(EventsOf({"message"}, task[t].predecessor, Len(hist)))
    <2>1. CASE Hold(w, "ambiguous-dispatch")
      <3>1. LocalOK'
        BY <1>7, <2>1, OutcomeType DEF ListActive, At, HeldReasons
      <3> QED BY <1>7, <3>1 DEF TypeOK, ListActive
    <2>2. CASE ~Hold(w, "ambiguous-dispatch")
      <3>1. c \in Nat
        BY ListingType
      <3>2. PICK p \in {"bind_found", "cancel", "confirmations"}, e \in Nat :
               loc' = [loc EXCEPT ![w] = [loc[w] EXCEPT !.snap = Len(hist), !.ev = e, !.pc = p]]
        BY <1>7, <2>2, <3>1 DEF ListActive
      <3> DEFINE r == [loc[w] EXCEPT !.snap = Len(hist), !.ev = e, !.pc = p]
      <3>3. r \in Local /\ LocalFits(r)
        BY <1>0, <1>7, <1>l DEF Local, LocalFits, Pcs, ListActive, At
      <3>4. LocalOK'
        BY <3>2, <3>3, LocalType
      <3> QED BY <1>7, <3>4 DEF TypeOK, ListActive
    <2> QED BY <2>1, <2>2
  <1>8. CASE ReconcileConfirmations(w)
    <2>1. LocalOK'
      BY <1>8, PlainType DEF ReconcileConfirmations, At, PlainPcs, Pcs
    <2> QED BY <1>8, <2>1 DEF TypeOK, ReconcileConfirmations
  <1>9. CASE ReadStatus(w)
    <2> DEFINE status == LatestStatus(task[t].input_event, Len(hist))
               r(p) == [loc[w] EXCEPT !.pc = p, !.snap = Len(hist)]
    <2>1. r("review") \in Local /\ r("discover") \in Local
          /\ LocalFits(r("review")) /\ LocalFits(r("discover"))
      BY <1>0, <1>9, <1>l DEF Local, LocalFits, Pcs, ReadStatus, At
    <2>2. status \in Statuses \cup {"none"}
      <3>1. \A i \in EventsOf(Statuses, task[t].input_event, Len(hist)) : hist[i].kind \in Statuses
        BY DEF EventsOf
      <3> QED BY <3>1 DEF LatestStatus, LastOf
    <2>3. \/ Goto(w, "release") \/ Goto(w, "running")
          \/ loc' = [loc EXCEPT ![w] = r("review")]
          \/ loc' = [loc EXCEPT ![w] = r("discover")]
          \/ GotoWith(w, "fail_context", "FAILED")
          \/ GotoWith(w, "finish", "COMPLETED")
      BY <1>9, <2>2 DEF ReadStatus, Statuses
    <2>4. LocalOK'
      <3>0. loc[w].pc \notin {"idle", "reconcile", "release"}
        BY <1>9 DEF ReadStatus, At
      <3>1. CASE Goto(w, "release") \/ Goto(w, "running")
        BY <3>0, <3>1, PlainType DEF PlainPcs, Pcs
      <3>2. CASE \/ loc' = [loc EXCEPT ![w] = r("review")]
                 \/ loc' = [loc EXCEPT ![w] = r("discover")]
        BY <2>1, <3>2, LocalType
      <3>3. CASE \/ GotoWith(w, "fail_context", "FAILED")
                 \/ GotoWith(w, "finish", "COMPLETED")
        BY <3>0, <3>3, OutcomeType DEF A2aStates
      <3> QED BY <2>3, <3>1, <3>2, <3>3
    <2> QED BY <1>9, <2>4 DEF TypeOK, ReadStatus
  <1>10. CASE EvaluateReview(w)
    <2>0. loc[w].pc \notin {"idle", "reconcile", "release"} /\ t \in Tasks
      BY <1>0, <1>10 DEF EvaluateReview, At, LocalFits
    <2>1. \/ \E p \in PlainPcs, o \in A2aStates \cup HeldReasons : GotoWith(w, p, o)
          \/ Goto(w, "release")
      BY <1>10 DEF EvaluateReview, PlainPcs, Pcs, A2aStates, HeldReasons
    <2>2. LocalOK'
      BY <2>0, <2>1, OutcomeType, PlainType DEF PlainPcs, Pcs
    <2> QED BY <1>10, <2>2 DEF TypeOK, EvaluateReview
  <1>11. CASE CancelSettled(w)
    <2>1. LocalOK'
      BY <1>11, OutcomeType DEF CancelSettled, At, A2aStates
    <2> QED BY <1>11, <2>1 DEF TypeOK, CancelSettled
  <1>12. CASE CancelOpen(w)
    <2>1. LocalOK'
      BY <1>12, OutcomeType, PlainType DEF CancelOpen, At, HeldReasons, PlainPcs, Pcs
    <2> QED BY <1>12, <2>1 DEF TypeOK, CancelOpen
  <1>13. CASE Recheck(w)
    <2>1. LocalOK'
      BY <1>13, PlainType DEF Recheck, At, PlainPcs, Pcs
    <2> QED BY <1>13, <2>1 DEF TypeOK, Recheck
  <1> QED BY <1>1, <1>2, <1>3, <1>4, <1>5, <1>6, <1>7, <1>8, <1>9, <1>10, <1>11, <1>12, <1>13
          DEF ReadStep

\* Steps of a worker that call the provider.
CallStep(w) == CreateSession(w) \/ SendMessage(w) \/ ConfirmTool(w) \/ Interrupt(w)

\* They keep the types.
LEMMA TypeCall ==
    ASSUME TypeOK, NEW w \in Workers, CallStep(w)
    PROVE  TypeOK'
  <1> DEFINE t == loc[w].task
  <1>0. /\ loc[w] \in Local /\ LocalFits(loc[w])
        /\ loc[w].pc \notin {"idle", "reconcile", "release"}
        /\ t \in Tasks
    BY DEF TypeOK, LocalOK, LocalFits, CallStep, CreateSession, SendMessage, ConfirmTool,
           Interrupt, At
  <1>1. CASE CreateSession(w)
    <2>1. LocalOK'
      BY <1>0, <1>1, PlainType, OutcomeType
         DEF CreateSession, PlainPcs, Pcs, HeldReasons, A2aStates
    <2>2. hist' \in Seq(Event)
      BY <1>0, <1>1, AppendType, AppendGrows DEF CreateSession, EventKinds, TypeOK
    <2>3. cma' \in [sessions: Nat, unlisted: Tasks \cup {None}]
      BY <1>0, <1>1 DEF CreateSession, TypeOK
    <2> QED BY <1>1, <2>1, <2>2, <2>3 DEF TypeOK, CreateSession
  <1>2. CASE SendMessage(w)
    <2> DEFINE r == [loc[w] EXCEPT !.pc = "bind_sent", !.ev = Len(hist) + 1]
    <2>1. r \in Local /\ LocalFits(r)
      <3>1. Len(hist) + 1 \in Nat
        BY DEF TypeOK
      <3> QED BY <1>0, <3>1, ZenonT(60) DEF Local, LocalFits, Pcs
    <2>2. \/ loc' = [loc EXCEPT ![w] = r]
          \/ \E h \in HeldReasons : Hold(w, h)
          \/ GotoWith(w, "finish", "FAILED")
      BY <1>2 DEF SendMessage, HeldReasons
    <2>3. LocalOK'
      BY <1>0, <2>1, <2>2, LocalType, OutcomeType DEF A2aStates
    <2>4. hist' \in Seq(Event)
      BY <1>0, <1>2, AppendType, AppendGrows DEF SendMessage, EventKinds, TypeOK
    <2> QED BY <1>2, <2>3, <2>4 DEF TypeOK, SendMessage
  <1>3. CASE ConfirmTool(w)
    <2>1. LocalOK'
      BY <1>0, <1>3, PlainType, OutcomeType DEF ConfirmTool, PlainPcs, Pcs, A2aStates
    <2>2. loc[w].says \in EventKinds
      BY <1>0, <1>3 DEF ConfirmTool, At, LocalFits, EventKinds
    <2>3. hist' \in Seq(Event)
      BY <1>3, <2>2, AppendType, ConfirmGrows DEF TypeOK
    <2> QED BY <1>3, <2>1, <2>3 DEF TypeOK, ConfirmTool
  <1>4. CASE Interrupt(w)
    <2>1. LocalOK'
      BY <1>0, <1>4, PlainType, OutcomeType DEF Interrupt, PlainPcs, Pcs, HeldReasons, A2aStates
    <2>2. hist' \in Seq(Event)
      BY <1>4, AppendType, AppendGrows DEF Interrupt, EventKinds, TypeOK
    <2> QED BY <1>4, <2>1, <2>2 DEF TypeOK, Interrupt
  <1> QED BY <1>1, <1>2, <1>3, <1>4 DEF CallStep

\* Steps of a worker that write the context row.
ContextStep(w) == AttachSession(w) \/ FailContext(w) \/ ClearActive(w) \/ ActivateTask(w)

\* They keep the types.
LEMMA TypeContext ==
    ASSUME TypeOK, NEW w \in Workers, ContextStep(w)
    PROVE  TypeOK'
  <1> DEFINE t == loc[w].task
  <1>0. /\ loc[w] \in Local /\ LocalFits(loc[w])
        /\ loc[w].pc \notin {"idle", "reconcile", "release"}
        /\ t \in Tasks
    BY DEF TypeOK, LocalOK, LocalFits, ContextStep, AttachSession, FailContext, ClearActive,
           ActivateTask, At
  <1>1. ctx' \in ContextRow
    <2>1. ctx \in ContextRow
      BY DEF TypeOK
    <2> QED BY <1>0, <2>1
            DEF ContextStep, AttachSession, FailContext, ClearActive, ActivateTask, ContextRow
  <1>2. CASE AttachSession(w)
    <2>1. LocalOK'
      BY <1>0, <1>2, PlainType DEF AttachSession, PlainPcs, Pcs
    <2> QED BY <1>1, <1>2, <2>1 DEF TypeOK, AttachSession
  <1>3. CASE FailContext(w)
    <2>1. LocalFits([loc[w] EXCEPT !.pc = "finish"])
      BY <1>0, <1>3 DEF FailContext, At, LocalFits, Local
    <2>2. LocalOK'
      BY <1>3, <2>1, GotoType DEF FailContext, Pcs
    <2> QED BY <1>1, <1>3, <2>2 DEF TypeOK, FailContext
  <1>4. CASE ClearActive(w)
    <2>1. LocalOK'
      BY <1>0, <1>4, PlainType DEF ClearActive, PlainPcs, Pcs
    <2> QED BY <1>1, <1>4, <2>1 DEF TypeOK, ClearActive
  <1>5. CASE ActivateTask(w)
    <2>1. LocalOK'
      BY <1>0, <1>5, PlainType DEF ActivateTask, PlainPcs, Pcs
    <2>2. task[t] \in TaskRow /\ loc[w].snap \in Nat
      BY <1>0 DEF TypeOK, Local
    <2>3. PICK n \in Nat : n = task[t].dispatch_attempts + 1
      BY <2>2 DEF TaskRow
    <2> DEFINE r == [task[t] EXCEPT !.internal_state = "dispatching",
                         !.predecessor = loc[w].snap, !.dispatch_attempts = n]
    <2>r. r \in TaskRow
      BY <2>2 DEF TaskRow, InternalStates
    <2>s. task' = task \/ task' = [task EXCEPT ![t] = r]
      BY <1>5, <2>3 DEF ActivateTask
    <2>4. task' \in [Tasks -> TaskRow]
      BY <1>0, <2>r, <2>s, RowType DEF TypeOK
    <2> QED BY <1>1, <1>5, <2>1, <2>4 DEF TypeOK, ActivateTask
  <1> QED BY <1>2, <1>3, <1>4, <1>5 DEF ContextStep

\* Steps of a worker that write only the task's review.
ReviewStep(w) ==
    \/ DiscoverReview(w) \/ RecordDecision(w) \/ MarkConfirmation(w) \/ ResolveReview(w)
    \/ CancelBlocked(w)

\* They keep the types.
LEMMA TypeReview ==
    ASSUME TypeOK, NEW w \in Workers, ReviewStep(w)
    PROVE  TypeOK'
  <1> DEFINE t == loc[w].task
  <1>0. /\ loc[w] \in Local /\ LocalFits(loc[w])
        /\ loc[w].pc \notin {"idle", "reconcile", "release"}
        /\ t \in Tasks /\ task[t] \in TaskRow
    BY DEF TypeOK, LocalOK, LocalFits, ReviewStep, DiscoverReview, RecordDecision,
           MarkConfirmation, ResolveReview, CancelBlocked, At
  <1>1. CASE DiscoverReview(w)
    <2> DEFINE a == LastOf(EventsOf({"requires_action"}, 0, loc[w].snap))
    <2>1. LocalOK'
      BY <1>0, <1>1, PlainType DEF DiscoverReview, PlainPcs, Pcs
    <2>2. a \in Nat
      BY ListingType
    <2>3. [task[t] EXCEPT !.request = "pending", !.asked = a,
                          !.decision = "none", !.attempted = FALSE] \in TaskRow
      BY <1>0, <2>2 DEF TaskRow, RequestStates, Decisions
    <2>4. task' \in [Tasks -> TaskRow]
      BY <1>0, <1>1, <2>3, RowType DEF DiscoverReview, TypeOK
    <2> QED BY <1>1, <2>1, <2>4 DEF TypeOK, DiscoverReview
  <1>2. CASE RecordDecision(w)
    <2>1. LocalOK'
      BY <1>0, <1>2, OutcomeType DEF RecordDecision, PlainPcs, Pcs, A2aStates
    <2>2. PICK d \in {"allow", "deny"} :
             task' = [task EXCEPT ![t] = [@ EXCEPT !.request = "resolving", !.decision = d]]
      BY <1>2 DEF RecordDecision
    <2>3. [task[t] EXCEPT !.request = "resolving", !.decision = d] \in TaskRow
      BY <1>0 DEF TaskRow, RequestStates, Decisions
    <2>4. task' \in [Tasks -> TaskRow]
      BY <1>0, <2>2, <2>3, RowType
    <2> QED BY <1>2, <2>1, <2>4 DEF TypeOK, RecordDecision
  <1>3. CASE MarkConfirmation(w)
    <2> DEFINE r == [loc[w] EXCEPT !.pc = "confirm", !.says = task[t].decision,
                                   !.ev = task[t].asked]
               q == [loc[w] EXCEPT !.pc = "settle"]
    <2>1. q \in Local /\ LocalFits(q)
      BY <1>0 DEF Local, LocalFits, Pcs
    <2>2. task[t].decision \in {"allow", "deny"} => r \in Local /\ LocalFits(r)
      <3>1. task[t].asked \in Nat
        BY <1>0 DEF TaskRow
      <3> QED BY <1>0, <3>1 DEF Local, LocalFits, Pcs, Decisions
    <2>3. \/ loc' = [loc EXCEPT ![w] = q]
          \/ task[t].decision \in {"allow", "deny"} /\ loc' = [loc EXCEPT ![w] = r]
      BY <1>3 DEF MarkConfirmation
    <2>4. LocalOK'
      BY <2>1, <2>2, <2>3, LocalType
    <2>5. [task[t] EXCEPT !.attempted = TRUE] \in TaskRow
      BY <1>0 DEF TaskRow
    <2>6. task' = task \/ task' = [task EXCEPT ![t] = [@ EXCEPT !.attempted = TRUE]]
      BY <1>3 DEF MarkConfirmation
    <2>7. task' \in [Tasks -> TaskRow]
      BY <1>0, <2>5, <2>6, RowType DEF TypeOK
    <2> QED BY <1>3, <2>4, <2>7 DEF TypeOK, MarkConfirmation
  <1>4. CASE ResolveReview(w)
    <2>1. LocalOK'
      BY <1>0, <1>4, PlainType DEF ResolveReview, PlainPcs, Pcs
    <2>2. [task[t] EXCEPT !.request = "resolved"] \in TaskRow
      BY <1>0 DEF TaskRow, RequestStates
    <2>3. task' = task \/ task' = [task EXCEPT ![t] = [@ EXCEPT !.request = "resolved"]]
      BY <1>4 DEF ResolveReview
    <2>4. task' \in [Tasks -> TaskRow]
      BY <1>0, <2>2, <2>3, RowType DEF TypeOK
    <2> QED BY <1>4, <2>1, <2>4 DEF TypeOK, ResolveReview
  <1>5. CASE CancelBlocked(w)
    <2>1. LocalOK'
      BY <1>0, <1>5, PlainType DEF CancelBlocked, PlainPcs, Pcs
    <2>2. [task[t] EXCEPT !.request = "resolving", !.decision = "deny"] \in TaskRow
      BY <1>0 DEF TaskRow, RequestStates, Decisions
    <2>3. \/ task' = task
          \/ task' = [task EXCEPT ![t] = [@ EXCEPT !.request = "resolving", !.decision = "deny"]]
      BY <1>5 DEF CancelBlocked
    <2>4. task' \in [Tasks -> TaskRow]
      BY <1>0, <2>2, <2>3, RowType DEF TypeOK
    <2> QED BY <1>5, <2>1, <2>4 DEF TypeOK, CancelBlocked
  <1> QED BY <1>1, <1>2, <1>3, <1>4, <1>5 DEF ReviewStep

\* Steps of a worker that write the other columns of its task's row.
RowStep(w) ==
    \/ BindInput(w) \/ SetRunning(w) \/ StorePolicyHold(w) \/ SetWaiting(w)
    \/ HoldConfirmation(w) \/ SettleHold(w) \/ MarkInterrupt(w) \/ HoldTask(w)
    \/ FinishTask(w)

\* They keep the types.
LEMMA TypeRow ==
    ASSUME TypeOK, NEW w \in Workers, RowStep(w)
    PROVE  TypeOK'
  <1> DEFINE t == loc[w].task
  <1>0. /\ loc[w] \in Local /\ LocalFits(loc[w])
        /\ loc[w].pc \notin {"idle", "reconcile", "release"}
        /\ t \in Tasks /\ task[t] \in TaskRow
    BY DEF TypeOK, LocalOK, LocalFits, RowStep, BindInput, SetRunning, StorePolicyHold,
           SetWaiting, HoldConfirmation, SettleHold, MarkInterrupt, HoldTask, FinishTask, At
  <1>1. \A h \in HeldReasons : [task[t] EXCEPT !.held_reason = h] \in TaskRow
    BY <1>0 DEF TaskRow
  <1>2. CASE BindInput(w)
    <2>1. PICK p \in {"release", "active", "cancel", "confirmations"} :
             loc' = [loc EXCEPT ![w] = [@ EXCEPT !.cancel = task[t].cancel_requested, !.pc = p]]
      BY <1>2 DEF BindInput, At
    <2> DEFINE r == [loc[w] EXCEPT !.cancel = task[t].cancel_requested, !.pc = p]
    <2>2. task[t].cancel_requested \in BOOLEAN
      BY <1>0 DEF TaskRow
    <2>3. r \in Local /\ LocalFits(r)
      BY <1>0, <2>2 DEF Local, LocalFits, Pcs
    <2>4. LocalOK'
      BY <2>1, <2>3, LocalType
    <2>5. loc[w].ev \in Nat
      BY <1>0 DEF Local
    <2>6. [task[t] EXCEPT !.input_event = loc[w].ev, !.internal_state = "waiting",
              !.a2a_state = "WORKING", !.held_reason = "none"] \in TaskRow
      BY <1>0, <2>5 DEF TaskRow, InternalStates, A2aStates, HeldReasons
    <2>7. task' \in [Tasks -> TaskRow]
      BY <1>0, <1>2, <2>6, RowType DEF BindInput
    <2> QED BY <1>2, <2>4, <2>7 DEF TypeOK, BindInput
  <1>3. CASE SetRunning(w)
    <2>1. LocalOK'
      BY <1>0, <1>3, PlainType DEF SetRunning, PlainPcs, Pcs
    <2>2. [task[t] EXCEPT !.internal_state = "waiting", !.a2a_state = "WORKING"] \in TaskRow
      BY <1>0 DEF TaskRow, InternalStates, A2aStates
    <2>3. task' \in [Tasks -> TaskRow]
      BY <1>0, <1>3, <2>2, RowType DEF SetRunning
    <2> QED BY <1>3, <2>1, <2>3 DEF TypeOK, SetRunning
  <1>4. CASE StorePolicyHold(w)
    <2>1. loc[w].out \in A2aStates \cup HeldReasons
      BY <1>0 DEF Local
    <2>2. LocalOK'
      BY <1>0, <1>4, <2>1, OutcomeType, PlainType DEF StorePolicyHold, PlainPcs, Pcs, A2aStates
    <2>3. PICK h \in HeldReasons : task' = [task EXCEPT ![t] = [@ EXCEPT !.held_reason = h]]
      BY <1>4 DEF StorePolicyHold, HeldReasons
    <2>4. task' \in [Tasks -> TaskRow]
      BY <1>0, <1>1, <2>3, RowType
    <2> QED BY <1>4, <2>2, <2>4 DEF TypeOK, StorePolicyHold
  <1>5. CASE SetWaiting(w)
    <2>1. LocalOK'
      BY <1>0, <1>5, PlainType DEF SetWaiting, PlainPcs, Pcs
    <2>2. PICK i \in InternalStates, a \in A2aStates :
             task' = [task EXCEPT ![t] = [@ EXCEPT !.internal_state = i, !.a2a_state = a]]
      BY <1>5 DEF SetWaiting, InternalStates, A2aStates
    <2>3. [task[t] EXCEPT !.internal_state = i, !.a2a_state = a] \in TaskRow
      BY <1>0 DEF TaskRow
    <2>4. task' \in [Tasks -> TaskRow]
      BY <1>0, <2>2, <2>3, RowType
    <2> QED BY <1>5, <2>1, <2>4 DEF TypeOK, SetWaiting
  <1>6. CASE HoldConfirmation(w)
    <2>1. LocalOK'
      BY <1>0, <1>6, PlainType DEF HoldConfirmation, PlainPcs, Pcs
    <2>2. task' = [task EXCEPT ![t] = [@ EXCEPT !.held_reason = "ambiguous-confirmation"]]
      BY <1>6 DEF HoldConfirmation
    <2>3. task' \in [Tasks -> TaskRow]
      BY <1>0, <1>1, <2>2, RowType DEF HeldReasons
    <2> QED BY <1>6, <2>1, <2>3 DEF TypeOK, HoldConfirmation
  <1>7. CASE SettleHold(w)
    <2>1. LocalOK'
      BY <1>0, <1>7, PlainType DEF SettleHold, PlainPcs, Pcs
    <2>2. task' = task \/ task' = [task EXCEPT ![t] = [@ EXCEPT !.held_reason = "none"]]
      BY <1>7 DEF SettleHold
    <2>3. task' \in [Tasks -> TaskRow]
      BY <1>0, <1>1, <2>2, RowType DEF HeldReasons, TypeOK
    <2> QED BY <1>7, <2>1, <2>3 DEF TypeOK, SettleHold
  <1>8. CASE MarkInterrupt(w)
    <2>1. LocalOK'
      BY <1>0, <1>8, PlainType DEF MarkInterrupt, PlainPcs, Pcs
    <2>2. [task[t] EXCEPT !.cancel_attempted = TRUE, !.internal_state = "interrupting"] \in TaskRow
      BY <1>0 DEF TaskRow, InternalStates
    <2>3. task' \in [Tasks -> TaskRow]
      BY <1>0, <1>8, <2>2, RowType DEF MarkInterrupt
    <2> QED BY <1>8, <2>1, <2>3 DEF TypeOK, MarkInterrupt
  <1>9. CASE HoldTask(w)
    <2>1. LocalOK'
      BY <1>0, <1>9, PlainType DEF HoldTask, PlainPcs, Pcs
    <2>2. loc[w].out \in HeldReasons
      BY <1>0, <1>9 DEF HoldTask, At, LocalFits
    <2>3. task' = [task EXCEPT ![t] = [@ EXCEPT !.held_reason = loc[w].out]]
      BY <1>9 DEF HoldTask
    <2>4. task' \in [Tasks -> TaskRow]
      BY <1>0, <1>1, <2>2, <2>3, RowType
    <2> QED BY <1>9, <2>1, <2>4 DEF TypeOK, HoldTask
  <1>10. CASE FinishTask(w)
    <2>1. LocalOK'
      BY <1>0, <1>10, PlainType DEF FinishTask, PlainPcs, Pcs
    <2>2. loc[w].out \in A2aStates
      BY <1>0, <1>10 DEF FinishTask, At, LocalFits
    <2>3. [task[t] EXCEPT !.internal_state = "terminal", !.a2a_state = loc[w].out,
                          !.held_reason = "none"] \in TaskRow
      BY <1>0, <2>2 DEF TaskRow, InternalStates, HeldReasons
    <2>4. task' \in [Tasks -> TaskRow]
      BY <1>0, <1>10, <2>3, RowType DEF FinishTask
    <2> QED BY <1>10, <2>1, <2>4 DEF TypeOK, FinishTask
  <1> QED BY <1>2, <1>3, <1>4, <1>5, <1>6, <1>7, <1>8, <1>9, <1>10 DEF RowStep

\* A step of the system is a step of one of the groups above.
LEMMA NextGroups ==
    ASSUME Next
    PROVE  \/ \E t \in Tasks : Admit(t) \/ CancelTask(t) \/ AdminFail(t) \/ AdminRetry(t)
           \/ \E w \in Workers :
                \/ ClaimScheduler(w) \/ ReleaseScheduler(w) \/ LoseClaim(w) \/ Raise(w) \/ Crash(w)
                \/ ReadStep(w) \/ CallStep(w) \/ ContextStep(w) \/ ReviewStep(w) \/ RowStep(w)
           \/ Provider \/ LeaseExpires
  BY DEF Next, Step, ReadStep, CallStep, ContextStep, ReviewStep, RowStep

\* Every step keeps the types.
LEMMA TypeNext == TypeOK /\ [Next]_vars => TypeOK'
  <1> SUFFICES ASSUME TypeOK, [Next]_vars PROVE TypeOK'
    OBVIOUS
  <1>1. CASE Next
    BY <1>1, NextGroups, TypeClient, TypeProvider, TypeLease, TypeRead, TypeCall, TypeContext,
       TypeReview, TypeRow
  <1>2. CASE UNCHANGED vars
    BY <1>2 DEF vars, TypeOK, LocalOK
  <1> QED BY <1>1, <1>2

\* Type correctness: in every reachable state each row, event and local value of
\* the scheduler is in its domain.
THEOREM TypeCorrect == Spec => []TypeOK
  BY TypeInit, TypeNext, PTL DEF Spec

----
\* What the worker that holds the lease may rely on

\* The points at which a run works on the context's active task.
ActivePcs == Pcs \ {"idle", "reconcile", "activate", "finish", "clear", "release"}

\* The lease holder's task in hand is the active one.  A finishing worker may
\* also hold a queued task of a failed context, and clears the pointer only
\* after the task row is terminal.
OwnerOK(w) ==
    Owns(w) =>
        /\ loc[w].pc \in ActivePcs => ctx.active_task = loc[w].task
        /\ loc[w].pc \in {"finish", "clear"} => ctx.active_task \in {loc[w].task, None}
        /\ loc[w].pc = "clear" => task[loc[w].task].internal_state = "terminal"

OwnerInv == RunningIsActive /\ \A w \in Workers : OwnerOK(w)

\* Steps of a run on its active task, up to the point where it finishes it.
MoveStep(w) ==
    \/ FindSession(w) \/ InitialInput(w) \/ RecoverSession(w) \/ ListActive(w)
    \/ ReadStatus(w) \/ EvaluateReview(w) \/ Recheck(w)
    \/ ReconcileConfirmations(w) \/ CancelSettled(w) \/ CancelOpen(w)
    \/ CallStep(w) \/ ReviewStep(w)
    \/ AttachSession(w) \/ FailContext(w)
    \/ BindInput(w) \/ SetRunning(w) \/ StorePolicyHold(w) \/ SetWaiting(w)
    \/ HoldConfirmation(w) \/ SettleHold(w) \/ MarkInterrupt(w) \/ HoldTask(w)

\* Their common shape: the lease, the pointer and the queue stay; only the lease
\* holder writes internal_state, of its own task, and to a running state.
Moves(w) ==
    /\ loc[w].pc \in ActivePcs
    /\ loc'[w].pc \in ActivePcs \cup {"release", "finish"}
    /\ loc'[w].task = loc[w].task
    /\ \A v \in Workers \ {w} : loc'[v] = loc[v]
    /\ ctx'.claim = ctx.claim
    /\ ctx'.lease_live = ctx.lease_live
    /\ ctx'.active_task = ctx.active_task
    /\ ctx'.next_sequence = ctx.next_sequence
    /\ \A u \in Tasks :
         /\ task'[u].sequence = task[u].sequence
         /\ task'[u].dispatch_attempts = task[u].dispatch_attempts
         /\ \/ task'[u].internal_state = task[u].internal_state
            \/ Owns(w) /\ u = loc[w].task /\ task'[u].internal_state \in Running

\* A move of the program counter alone.
LEMMA GotoMoves ==
    ASSUME TypeOK, NEW w \in Workers, NEW p, Goto(w, p)
    PROVE  /\ loc'[w].pc = p /\ loc'[w].task = loc[w].task
           /\ \A v \in Workers \ {w} : loc'[v] = loc[v]
  BY DEF TypeOK, LocalOK, Local, Goto

\* A move that also keeps an outcome.
LEMMA OutcomeMoves ==
    ASSUME TypeOK, NEW w \in Workers, NEW p, NEW o,
           GotoWith(w, p, o)
    PROVE  /\ loc'[w].pc = p /\ loc'[w].task = loc[w].task
           /\ \A v \in Workers \ {w} : loc'[v] = loc[v]
  BY DEF TypeOK, LocalOK, Local, GotoWith

\* Only loc changes at a step of ReadStep.
LEMMA MoveRead ==
    ASSUME TypeOK, NEW w \in Workers,
           \/ FindSession(w) \/ InitialInput(w) \/ RecoverSession(w) \/ ListActive(w)
           \/ ReadStatus(w) \/ EvaluateReview(w) \/ Recheck(w)
           \/ ReconcileConfirmations(w) \/ CancelSettled(w) \/ CancelOpen(w)
    PROVE  Moves(w)
  <1>0. loc \in [Workers -> Local] /\ UNCHANGED <<ctx, task>>
    BY DEF TypeOK, LocalOK, FindSession, InitialInput, RecoverSession, ListActive, ReadStatus,
           EvaluateReview, Recheck, ReconcileConfirmations, CancelSettled, CancelOpen
  <1> SUFFICES /\ loc[w].pc \in ActivePcs
               /\ loc'[w].pc \in ActivePcs \cup {"release", "finish"}
               /\ loc'[w].task = loc[w].task
               /\ \A v \in Workers \ {w} : loc'[v] = loc[v]
    BY <1>0 DEF Moves
  <1>1. CASE FindSession(w) \/ Recheck(w) \/ ReconcileConfirmations(w)
    BY <1>1, GotoMoves DEF FindSession, Recheck, ReconcileConfirmations, At, ActivePcs, Pcs
  <1>2. CASE RecoverSession(w) \/ CancelSettled(w) \/ CancelOpen(w)
    BY <1>2, GotoMoves, OutcomeMoves
       DEF RecoverSession, CancelSettled, CancelOpen, Hold, At, ActivePcs, Pcs
  <1>3. CASE InitialInput(w)
    <2>1. loc[w].pc \in ActivePcs
      BY <1>3 DEF InitialInput, At, ActivePcs, Pcs
    <2>2. \/ Hold(w, "initial-input-not-visible")
          \/ \E e : loc' = [loc EXCEPT ![w] = [@ EXCEPT !.pc = "bind_initial", !.ev = e]]
      BY <1>3 DEF InitialInput
    <2>3. CASE Hold(w, "initial-input-not-visible")
      BY <2>1, <2>3, OutcomeMoves DEF Hold, ActivePcs, Pcs
    <2>4. ASSUME NEW e, loc' = [loc EXCEPT ![w] = [@ EXCEPT !.pc = "bind_initial", !.ev = e]]
          PROVE  /\ loc'[w].pc = "bind_initial" /\ loc'[w].task = loc[w].task
                 /\ \A v \in Workers \ {w} : loc'[v] = loc[v]
      BY <1>0, <2>4 DEF Local
    <2> QED BY <2>1, <2>2, <2>3, <2>4 DEF ActivePcs, Pcs
  <1>4. CASE ListActive(w)
    <2>1. loc[w].pc \in ActivePcs
      BY <1>4 DEF ListActive, At, ActivePcs, Pcs
    <2>2. \/ Hold(w, "ambiguous-dispatch")
          \/ \E e \in Nat, p \in {"bind_found", "cancel", "confirmations"} :
                loc' = [loc EXCEPT ![w] = [@ EXCEPT !.snap = Len(hist), !.ev = e, !.pc = p]]
      <3>1. FirstOf(EventsOf({"message"}, task[loc[w].task].predecessor, Len(hist))) \in Nat
        BY ListingType
      <3> QED BY <1>4, <3>1 DEF ListActive
    <2>3. CASE Hold(w, "ambiguous-dispatch")
      BY <2>1, <2>3, OutcomeMoves DEF Hold, ActivePcs, Pcs
    <2>4. ASSUME NEW e \in Nat, NEW p \in {"bind_found", "cancel", "confirmations"},
                 loc' = [loc EXCEPT ![w] = [@ EXCEPT !.snap = Len(hist), !.ev = e, !.pc = p]]
          PROVE  /\ loc'[w].pc = p /\ loc'[w].task = loc[w].task
                 /\ \A v \in Workers \ {w} : loc'[v] = loc[v]
      BY <1>0, <2>4 DEF Local
    <2> QED BY <2>1, <2>2, <2>3, <2>4 DEF ActivePcs, Pcs
  <1>5. CASE EvaluateReview(w)
    <2>1. loc[w].pc \in ActivePcs
      BY <1>5 DEF EvaluateReview, At, ActivePcs, Pcs
    <2>2. \/ Goto(w, "release")
          \/ \E p \in {"recheck", "wait", "policy"}, o \in A2aStates \cup HeldReasons :
                GotoWith(w, p, o)
      BY <1>5 DEF EvaluateReview, A2aStates, HeldReasons
    <2> QED BY <2>1, <2>2, GotoMoves, OutcomeMoves DEF ActivePcs, Pcs
  <1>6. CASE ReadStatus(w)
    <2>1. loc[w].pc \in ActivePcs
      BY <1>6 DEF ReadStatus, At, ActivePcs, Pcs
    <2> DEFINE status == LatestStatus(task[loc[w].task].input_event, Len(hist))
    <2>2. status \in Statuses \cup {"none"}
      <3>1. \A i \in EventsOf(Statuses, task[loc[w].task].input_event, Len(hist)) :
               hist[i].kind \in Statuses
        BY DEF EventsOf
      <3> QED BY <3>1 DEF LatestStatus, LastOf
    <2>3. \/ Goto(w, "release") \/ Goto(w, "running")
          \/ \E p \in {"review", "discover"} :
                loc' = [loc EXCEPT ![w] = [@ EXCEPT !.pc = p, !.snap = Len(hist)]]
          \/ GotoWith(w, "fail_context", "FAILED") \/ GotoWith(w, "finish", "COMPLETED")
      BY <1>6, <2>2 DEF ReadStatus, Statuses
    <2>4. ASSUME NEW p \in {"review", "discover"},
                 loc' = [loc EXCEPT ![w] = [@ EXCEPT !.pc = p, !.snap = Len(hist)]]
          PROVE  /\ loc'[w].pc = p /\ loc'[w].task = loc[w].task
                 /\ \A v \in Workers \ {w} : loc'[v] = loc[v]
      BY <1>0, <2>4 DEF Local
    <2> QED BY <2>1, <2>3, <2>4, GotoMoves, OutcomeMoves DEF ActivePcs, Pcs
  <1> QED BY <1>1, <1>2, <1>3, <1>4, <1>5, <1>6

\* A provider call changes no row.
LEMMA MoveCall ==
    ASSUME TypeOK, NEW w \in Workers, CallStep(w)
    PROVE  Moves(w)
  <1>0. loc \in [Workers -> Local] /\ UNCHANGED <<ctx, task>>
    BY DEF TypeOK, LocalOK, CallStep, CreateSession, SendMessage, ConfirmTool, Interrupt
  <1> SUFFICES /\ loc[w].pc \in ActivePcs
               /\ loc'[w].pc \in ActivePcs \cup {"release", "finish"}
               /\ loc'[w].task = loc[w].task
               /\ \A v \in Workers \ {w} : loc'[v] = loc[v]
    BY <1>0 DEF Moves
  <1>1. CASE CreateSession(w) \/ ConfirmTool(w) \/ Interrupt(w)
    BY <1>1, GotoMoves, OutcomeMoves
       DEF CreateSession, ConfirmTool, Interrupt, Hold, At, ActivePcs, Pcs
  <1>2. CASE SendMessage(w)
    <2>1. loc[w].pc \in ActivePcs
      BY <1>2 DEF SendMessage, At, ActivePcs, Pcs
    <2>2. \/ loc' = [loc EXCEPT ![w] = [@ EXCEPT !.pc = "bind_sent", !.ev = Len(hist) + 1]]
          \/ \E r \in HeldReasons : GotoWith(w, "hold", r)
          \/ GotoWith(w, "finish", "FAILED")
      BY <1>2 DEF SendMessage, Hold, HeldReasons
    <2>3. CASE loc' = [loc EXCEPT ![w] = [@ EXCEPT !.pc = "bind_sent", !.ev = Len(hist) + 1]]
      BY <1>0, <2>1, <2>3 DEF Local, ActivePcs, Pcs
    <2> QED BY <2>1, <2>2, <2>3, OutcomeMoves DEF ActivePcs, Pcs
  <1> QED BY <1>1, <1>2 DEF CallStep

\* Review steps write the worker's own row, not its internal state.
LEMMA MoveReview ==
    ASSUME TypeOK, NEW w \in Workers, ReviewStep(w)
    PROVE  Moves(w)
  <1> DEFINE t == loc[w].task
  <1>0. /\ loc \in [Workers -> Local]
        /\ UNCHANGED ctx
        /\ loc[w].pc \in ActivePcs
    BY DEF TypeOK, LocalOK, ReviewStep, DiscoverReview, RecordDecision, MarkConfirmation,
           ResolveReview, CancelBlocked, At, ActivePcs, Pcs
  <1>t. t \in Tasks /\ task[t] \in TaskRow
    BY <1>0 DEF TypeOK, LocalOK, LocalFits, ActivePcs
  <1>1. /\ loc'[w].pc \in ActivePcs
        /\ loc'[w].task = t
        /\ \A v \in Workers \ {w} : loc'[v] = loc[v]
    <2>1. CASE DiscoverReview(w) \/ ResolveReview(w) \/ CancelBlocked(w) \/ RecordDecision(w)
      BY <2>1, GotoMoves, OutcomeMoves
         DEF DiscoverReview, ResolveReview, CancelBlocked, RecordDecision, ActivePcs, Pcs
    <2>2. CASE MarkConfirmation(w)
      <3>1. \/ loc' = [loc EXCEPT ![w] = [@ EXCEPT !.pc = "confirm", !.says = task[t].decision,
                                                       !.ev = task[t].asked]]
            \/ loc' = [loc EXCEPT ![w] = [@ EXCEPT !.pc = "settle"]]
        BY <2>2 DEF MarkConfirmation
      <3>2. /\ loc'[w].pc \in {"confirm", "settle"} /\ loc'[w].task = t
            /\ \A v \in Workers \ {w} : loc'[v] = loc[v]
        BY <1>0, <3>1 DEF Local
      <3> QED BY <3>2 DEF ActivePcs, Pcs
    <2> QED BY <2>1, <2>2 DEF ReviewStep
  <1>2. \A u \in Tasks :
           /\ task'[u].sequence = task[u].sequence
           /\ task'[u].dispatch_attempts = task[u].dispatch_attempts
           /\ task'[u].internal_state = task[u].internal_state
    <2>0. task \in [Tasks -> TaskRow]
      BY DEF TypeOK
    <2>1. CASE DiscoverReview(w)
      BY <1>t, <2>0, <2>1 DEF DiscoverReview, TaskRow
    <2>2. CASE RecordDecision(w)
      BY <1>t, <2>0, <2>2 DEF RecordDecision, TaskRow
    <2>3. CASE MarkConfirmation(w)
      BY <1>t, <2>0, <2>3 DEF MarkConfirmation, TaskRow
    <2>4. CASE ResolveReview(w)
      BY <1>t, <2>0, <2>4 DEF ResolveReview, TaskRow
    <2>5. CASE CancelBlocked(w)
      BY <1>t, <2>0, <2>5 DEF CancelBlocked, TaskRow
    <2> QED BY <2>1, <2>2, <2>3, <2>4, <2>5 DEF ReviewStep
  <1> QED BY <1>0, <1>1, <1>2 DEF Moves

\* The steps that write a row or the context on the way.
LEMMA MoveWrite ==
    ASSUME TypeOK, NEW w \in Workers,
           \/ AttachSession(w) \/ FailContext(w)
           \/ BindInput(w) \/ SetRunning(w) \/ StorePolicyHold(w) \/ SetWaiting(w)
           \/ HoldConfirmation(w) \/ SettleHold(w) \/ MarkInterrupt(w) \/ HoldTask(w)
    PROVE  Moves(w)
  <1> DEFINE t == loc[w].task
  <1>0. /\ loc \in [Workers -> Local]
        /\ task \in [Tasks -> TaskRow]
        /\ ctx \in ContextRow
        /\ loc[w].pc \in ActivePcs
    BY DEF TypeOK, LocalOK, AttachSession, FailContext, BindInput, SetRunning, StorePolicyHold,
           SetWaiting, HoldConfirmation, SettleHold, MarkInterrupt, HoldTask, At, ActivePcs, Pcs
  <1>t. t \in Tasks /\ task[t] \in TaskRow
    BY <1>0 DEF TypeOK, LocalOK, LocalFits, ActivePcs
  <1>1. /\ loc'[w].pc \in ActivePcs \cup {"release", "finish"}
        /\ loc'[w].task = t
        /\ \A v \in Workers \ {w} : loc'[v] = loc[v]
    <2>1. CASE \/ AttachSession(w) \/ FailContext(w) \/ SetRunning(w) \/ SetWaiting(w)
               \/ HoldConfirmation(w) \/ MarkInterrupt(w) \/ HoldTask(w)
      BY <2>1, GotoMoves
         DEF AttachSession, FailContext, SetRunning, SetWaiting, HoldConfirmation,
             MarkInterrupt, HoldTask, ActivePcs, Pcs
    <2>3. CASE SettleHold(w)
      BY <2>3, GotoMoves DEF SettleHold, ActivePcs, Pcs
    <2>4. CASE StorePolicyHold(w)
      BY <2>4, GotoMoves, OutcomeMoves DEF StorePolicyHold, ActivePcs, Pcs
    <2>2. CASE BindInput(w)
      <3>1. PICK p \in {"release", "active", "cancel", "confirmations"} :
               loc' = [loc EXCEPT ![w] = [@ EXCEPT !.cancel = task[t].cancel_requested, !.pc = p]]
        BY <2>2 DEF BindInput, At
      <3>2. /\ loc'[w].pc = p /\ loc'[w].task = t
            /\ \A v \in Workers \ {w} : loc'[v] = loc[v]
        BY <1>0, <3>1 DEF Local
      <3> QED BY <3>2 DEF ActivePcs, Pcs
    <2> QED BY <2>1, <2>2, <2>3, <2>4
  <1>2. /\ ctx'.claim = ctx.claim
        /\ ctx'.lease_live = ctx.lease_live
        /\ ctx'.active_task = ctx.active_task
        /\ ctx'.next_sequence = ctx.next_sequence
    <2>1. CASE AttachSession(w) \/ FailContext(w)
      BY <1>0, <2>1 DEF AttachSession, FailContext, ContextRow
    <2>2. CASE ~(AttachSession(w) \/ FailContext(w))
      BY <2>2 DEF BindInput, SetRunning, StorePolicyHold,
             SetWaiting, HoldConfirmation, SettleHold, MarkInterrupt, HoldTask
    <2> QED BY <2>1, <2>2
  <1>3. \A u \in Tasks :
           /\ task'[u].sequence = task[u].sequence
           /\ task'[u].dispatch_attempts = task[u].dispatch_attempts
           /\ \/ task'[u].internal_state = task[u].internal_state
              \/ Owns(w) /\ u = t /\ task'[u].internal_state \in Running
    <2>1. CASE AttachSession(w) \/ FailContext(w)
      BY <2>1 DEF AttachSession, FailContext
    <2>2. CASE BindInput(w)
      BY <1>0, <1>t, <2>2 DEF BindInput, TaskRow, Running
    <2>3. CASE SetRunning(w)
      BY <1>0, <1>t, <2>3 DEF SetRunning, TaskRow, Running
    <2>4. CASE StorePolicyHold(w)
      BY <1>0, <1>t, <2>4 DEF StorePolicyHold, TaskRow
    <2>5. CASE SetWaiting(w)
      BY <1>0, <1>t, <2>5 DEF SetWaiting, TaskRow, Running
    <2>6. CASE HoldConfirmation(w)
      BY <1>0, <1>t, <2>6 DEF HoldConfirmation, TaskRow
    <2>7. CASE SettleHold(w)
      BY <1>0, <1>t, <2>7 DEF SettleHold, TaskRow
    <2>8. CASE MarkInterrupt(w)
      BY <1>0, <1>t, <2>8 DEF MarkInterrupt, TaskRow, Running
    <2>9. CASE HoldTask(w)
      BY <1>0, <1>t, <2>9 DEF HoldTask, TaskRow
    <2> QED BY <2>1, <2>2, <2>3, <2>4, <2>5, <2>6, <2>7, <2>8, <2>9
  <1> QED BY <1>0, <1>1, <1>2, <1>3 DEF Moves

\* Every step on the way has that shape.
LEMMA MoveShape ==
    ASSUME TypeOK, NEW w \in Workers, MoveStep(w)
    PROVE  Moves(w)
  BY MoveRead, MoveCall, MoveReview, MoveWrite DEF MoveStep

\* The steps of the system once more, with the steps on the way in one group.
LEMMA NextMoves ==
    ASSUME Next
    PROVE  \/ \E t \in Tasks : Admit(t) \/ CancelTask(t) \/ AdminFail(t) \/ AdminRetry(t)
           \/ \E w \in Workers :
                \/ ClaimScheduler(w) \/ ReleaseScheduler(w) \/ LoseClaim(w) \/ Raise(w) \/ Crash(w)
                \/ ReconcileActive(w) \/ ReconcileQueued(w) \/ ReconcileNothing(w)
                \/ ActivateTask(w) \/ FinishTask(w) \/ ClearActive(w)
                \/ MoveStep(w)
           \/ Provider \/ LeaseExpires
  BY NextGroups DEF MoveStep, ReadStep, CallStep, ContextStep, ReviewStep, RowStep

----
\* RunningIsActive

\* A step on the way keeps the owner's invariant.
LEMMA OwnerMove ==
    ASSUME TypeOK, OwnerInv, NEW w \in Workers, Moves(w)
    PROVE  OwnerInv'
  <1>t. loc[w].task \in Tasks
    BY DEF Moves, TypeOK, LocalOK, LocalFits, ActivePcs
  <1>1. RunningIsActive'
    <2> SUFFICES ASSUME NEW u \in Tasks, task'[u].internal_state \in Running
                 PROVE  ctx'.active_task = u
      BY DEF RunningIsActive
    <2> QED BY DEF Moves, OwnerInv, OwnerOK, RunningIsActive
  <1>2. ASSUME NEW v \in Workers, Owns(v)' PROVE OwnerOK(v)'
    <2>0. Owns(v)
      BY <1>2 DEF Owns, Moves
    <2>1. CASE v = w
      BY <2>0, <2>1 DEF Moves, OwnerInv, OwnerOK, ActivePcs
    <2>2. CASE v # w
      <3>1. ~Owns(w)
        BY <2>0, <2>2 DEF Owns
      <3>2. loc'[v] = loc[v]
        BY <2>2 DEF Moves
      <3>3. loc[v].pc = "clear" => loc[v].task \in Tasks
        BY DEF TypeOK, LocalOK, LocalFits
      <3> QED BY <2>0, <3>1, <3>2, <3>3 DEF Moves, OwnerInv, OwnerOK
    <2> QED BY <2>1, <2>2
  <1> QED BY <1>1, <1>2 DEF OwnerInv, OwnerOK

\* The invariant looks at the lease, the pointer, internal states and the lease
\* holder's own values.
LEMMA OwnerFrame ==
    ASSUME TypeOK, OwnerInv,
           ctx'.active_task = ctx.active_task,
           \A u \in Tasks : \/ task'[u].internal_state = task[u].internal_state
                            \/ task[u].internal_state # "terminal"
                               /\ task'[u].internal_state \notin Running,
           \A v \in Workers : \/ ~Owns(v)'
                              \/ Owns(v) /\ loc'[v] = loc[v]
                              \/ loc'[v].pc \in {"idle", "reconcile", "activate", "release"}
    PROVE  OwnerInv'
  <1>1. RunningIsActive'
    BY DEF OwnerInv, RunningIsActive
  <1>2. ASSUME NEW v \in Workers PROVE OwnerOK(v)'
    <2>1. CASE Owns(v) /\ loc'[v] = loc[v]
      <3>1. loc[v].pc = "clear" => loc[v].task \in Tasks
        BY DEF TypeOK, LocalOK, LocalFits
      <3> QED BY <2>1, <3>1 DEF OwnerInv, OwnerOK
    <2>2. CASE loc'[v].pc \in {"idle", "reconcile", "activate", "release"} \/ ~Owns(v)'
      BY <2>2 DEF OwnerOK, ActivePcs
    <2> QED BY <2>1, <2>2
  <1> QED BY <1>1, <1>2 DEF OwnerInv

\* The service and the operator keep the owner's invariant.
LEMMA OwnerClient ==
    ASSUME TypeOK, OwnerInv, NEW t \in Tasks,
           Admit(t) \/ CancelTask(t) \/ AdminFail(t) \/ AdminRetry(t)
    PROVE  OwnerInv'
  <1>0. task \in [Tasks -> TaskRow] /\ ctx \in ContextRow
    BY DEF TypeOK
  <1>1. CASE Admit(t)
    <2>1. /\ ctx'.active_task = ctx.active_task
          /\ \A v \in Workers : Owns(v)' = Owns(v)
      BY <1>0, <1>1 DEF Admit, ContextRow, Owns
    <2>2. \A u \in Tasks : \/ task'[u].internal_state = task[u].internal_state
                           \/ task[u].internal_state # "terminal"
                              /\ task'[u].internal_state \notin Running
      BY <1>0, <1>1 DEF Admit, TaskRow, Running
    <2> QED BY <1>1, <2>1, <2>2, OwnerFrame DEF Admit
  <1>2. CASE CancelTask(t)
    <2>1. \A u \in Tasks : \/ task'[u].internal_state = task[u].internal_state
                           \/ task[u].internal_state # "terminal"
                              /\ task'[u].internal_state \notin Running
      BY <1>0, <1>2 DEF CancelTask, Queued, TaskRow, Running
    <2> QED BY <1>2, <2>1, OwnerFrame DEF CancelTask, Owns
  <1>3. CASE AdminFail(t) \/ AdminRetry(t)
    <2>1. ctx.active_task = t /\ task'[t].internal_state \notin Running
      <3>1. CASE AdminFail(t)
        BY <1>0, <3>1 DEF AdminFail, Held, TaskRow, Running
      <3>2. CASE AdminRetry(t)
        BY <1>0, <3>2 DEF AdminRetry, Held, TaskRow, Running
      <3> QED BY <1>3, <3>1, <3>2
    <2>2. \A u \in Tasks \ {t} : task'[u] = task[u]
      BY <1>0, <1>3 DEF AdminFail, AdminRetry
    <2>3. ctx'.claim = None
      BY <1>0, <1>3 DEF AdminFail, AdminRetry, ContextRow
    <2>4. \A v \in Workers : ~Owns(v)'
      BY <2>3, NoneAssumption DEF Owns
    <2>5. RunningIsActive'
      BY <2>1, <2>2 DEF OwnerInv, RunningIsActive
    <2> QED BY <2>4, <2>5 DEF OwnerInv, OwnerOK
  <1> QED BY <1>1, <1>2, <1>3

\* So do the lease steps, the faults, the provider and the passing of time.
LEMMA OwnerLease ==
    ASSUME TypeOK, OwnerInv,
           \/ \E w \in Workers :
                 \/ ClaimScheduler(w) \/ ReleaseScheduler(w) \/ LoseClaim(w) \/ Raise(w) \/ Crash(w)
                 \/ ReconcileNothing(w)
           \/ Provider \/ LeaseExpires
    PROVE  OwnerInv'
  <1>0. loc \in [Workers -> Local] /\ ctx \in ContextRow
    BY DEF TypeOK, LocalOK
  <1>1. ASSUME NEW w \in Workers,
               \/ ClaimScheduler(w) \/ ReleaseScheduler(w) \/ LoseClaim(w) \/ Raise(w) \/ Crash(w)
               \/ ReconcileNothing(w)
        PROVE  OwnerInv'
    <2>1. /\ task' = task
          /\ ctx'.active_task = ctx.active_task
      BY <1>0, <1>1 DEF ClaimScheduler, ReleaseScheduler, LoseClaim, Raise, Crash,
                        ReconcileNothing, ContextRow
    <2>2. /\ loc'[w].pc \in {"idle", "reconcile", "release"}
          /\ \A v \in Workers \ {w} : loc'[v] = loc[v]
      <3>1. CASE ReleaseScheduler(w) \/ Crash(w)
        BY <1>0, <3>1 DEF ReleaseScheduler, Crash, IdleLocal
      <3>2. CASE ~(ReleaseScheduler(w) \/ Crash(w))
        BY <1>1, <3>2, GotoMoves DEF ClaimScheduler, LoseClaim, Raise, ReconcileNothing
      <3> QED BY <3>1, <3>2
    <2>3. \A v \in Workers \ {w} : Owns(v)' => Owns(v)
      BY <1>0, <1>1 DEF ClaimScheduler, ReleaseScheduler, LoseClaim, Raise, Crash,
                        ReconcileNothing, ContextRow, Owns
    <2> QED BY <2>1, <2>2, <2>3, OwnerFrame
  <1>2. CASE Provider
    BY <1>2, OwnerFrame DEF Provider, ProviderListsInitial, ProviderRuns, ProviderRests,
                            ProviderYields, ProviderStops, Owns
  <1>3. CASE LeaseExpires
    <2>1. /\ UNCHANGED <<task, loc>>
          /\ ctx'.active_task = ctx.active_task
          /\ \A v \in Workers : ~Owns(v)'
      BY <1>0, <1>3 DEF LeaseExpires, ContextRow, Owns
    <2> QED BY <2>1, OwnerFrame
  <1> QED BY <1>1, <1>2, <1>3

\* The steps that pick, activate and finish a task.
LEMMA OwnerPick ==
    ASSUME TypeOK, OwnerInv, NEW w \in Workers,
           \/ ReconcileActive(w) \/ ReconcileQueued(w)
           \/ ActivateTask(w) \/ FinishTask(w) \/ ClearActive(w)
    PROVE  OwnerInv'
  <1> DEFINE t == loc[w].task
  <1>0. /\ loc \in [Workers -> Local] /\ ctx \in ContextRow /\ task \in [Tasks -> TaskRow]
        /\ LocalFits(loc[w])
    BY DEF TypeOK, LocalOK
  <1>c. ctx'.claim = ctx.claim /\ ctx'.lease_live = ctx.lease_live
    BY <1>0 DEF ReconcileActive, ReconcileQueued, ActivateTask, FinishTask, ClearActive, ContextRow
  <1>l. \A v \in Workers \ {w} : loc'[v] = loc[v]
    <2>1. CASE ReconcileActive(w) \/ ReconcileQueued(w)
      BY <1>0, <2>1 DEF ReconcileActive, ReconcileQueued
    <2>2. CASE ActivateTask(w) \/ FinishTask(w) \/ ClearActive(w)
      BY <2>2, GotoMoves DEF ActivateTask, FinishTask, ClearActive
    <2> QED BY <2>1, <2>2
  <1>1. CASE ReconcileActive(w)
    <2>1. UNCHANGED <<ctx, task>> /\ loc'[w].pc = "active" /\ loc'[w].task = ctx.active_task
      BY <1>0, <1>1 DEF ReconcileActive, Local
    <2>2. OwnerOK(w)'
      BY <2>1 DEF OwnerOK
    <2>3. \A v \in Workers \ {w} : OwnerOK(v)'
      BY <1>l, <2>1 DEF OwnerInv, OwnerOK, Owns
    <2> QED BY <2>1, <2>2, <2>3 DEF OwnerInv, RunningIsActive
  <1>2. CASE ReconcileQueued(w)
    <2>a. PICK u \in Tasks : loc' = [loc EXCEPT ![w] =
                IF ctx.lifecycle_state = "failed"
                THEN [loc[w] EXCEPT !.pc = "finish", !.task = u, !.out = "FAILED"]
                ELSE [loc[w] EXCEPT !.pc = "activate", !.task = u,
                               !.snap = IF ctx.cma_session THEN Len(hist) ELSE 0]]
      BY <1>2 DEF ReconcileQueued
    <2>b. loc'[w].pc \in {"finish", "activate"}
      <3>1. CASE ctx.lifecycle_state = "failed"
        BY <1>0, <2>a, <3>1 DEF Local
      <3>2. CASE ctx.lifecycle_state # "failed"
        BY <1>0, <2>a, <3>2 DEF Local
      <3> QED BY <3>1, <3>2
    <2>1. UNCHANGED <<ctx, task>> /\ loc'[w].pc \in {"finish", "activate"} /\ ctx.active_task = None
      BY <1>2, <2>b DEF ReconcileQueued
    <2>2. OwnerOK(w)'
      BY <2>1 DEF OwnerOK, ActivePcs
    <2>3. \A v \in Workers \ {w} : OwnerOK(v)'
      BY <1>l, <2>1 DEF OwnerInv, OwnerOK, Owns
    <2> QED BY <2>1, <2>2, <2>3 DEF OwnerInv, RunningIsActive
  <1>o. ASSUME Owns(w), NEW v \in Workers \ {w} PROVE OwnerOK(v)'
    BY <1>o, <1>c DEF OwnerOK, Owns
  <1>3. CASE ActivateTask(w)
    <2>0. t \in Tasks /\ Owns(w)
      BY <1>0, <1>3 DEF ActivateTask, At, LocalFits
    <2>1. CASE ctx.active_task = None /\ Queued(t)
      <3>1. ctx'.active_task = t
        BY <1>0, <1>3, <2>1 DEF ActivateTask, ContextRow
      <3>2. \A u \in Tasks \ {t} : task'[u] = task[u]
        BY <1>0, <1>3, <2>0, <2>1 DEF ActivateTask
      <3>3. RunningIsActive'
        BY <2>0, <2>1, <3>1, <3>2, NoneAssumption DEF OwnerInv, RunningIsActive
      <3>4. loc'[w].task = t /\ loc'[w].pc \in {"send", "find"}
        BY <1>3, <2>1, GotoMoves DEF ActivateTask
      <3>5. OwnerOK(w)'
        BY <3>1, <3>4 DEF OwnerOK
      <3> QED BY <1>o, <2>0, <3>3, <3>5 DEF OwnerInv
    <2>2. CASE ~(ctx.active_task = None /\ Queued(t))
      <3>1. UNCHANGED <<ctx, task>> /\ loc'[w].pc = "release"
        BY <1>3, <2>2, GotoMoves DEF ActivateTask
      <3> QED BY <1>o, <2>0, <3>1 DEF OwnerInv, OwnerOK, RunningIsActive, ActivePcs
    <2> QED BY <2>1, <2>2
  <1>4. CASE FinishTask(w)
    <2>0. t \in Tasks /\ Owns(w) /\ ctx.active_task \in {t, None}
      BY <1>0, <1>4 DEF FinishTask, At, LocalFits, OwnerInv, OwnerOK
    <2>1. task'[t].internal_state = "terminal" /\ \A u \in Tasks \ {t} : task'[u] = task[u]
      BY <1>0, <1>4, <2>0 DEF FinishTask, TaskRow
    <2>2. loc'[w].pc = "clear" /\ loc'[w].task = t /\ UNCHANGED ctx
      BY <1>4, GotoMoves DEF FinishTask
    <2>3. RunningIsActive'
      BY <2>1, <2>2 DEF OwnerInv, RunningIsActive, Running
    <2>4. OwnerOK(w)'
      BY <2>0, <2>1, <2>2 DEF OwnerOK, ActivePcs
    <2> QED BY <1>o, <2>0, <2>3, <2>4 DEF OwnerInv
  <1>5. CASE ClearActive(w)
    <2>0. /\ t \in Tasks /\ Owns(w) /\ ctx.active_task \in {t, None}
          /\ task[t].internal_state = "terminal"
      BY <1>0, <1>5 DEF ClearActive, At, LocalFits, OwnerInv, OwnerOK
    <2>1. \A u \in Tasks : task[u].internal_state \notin Running
      BY <2>0, NoneAssumption DEF OwnerInv, RunningIsActive, Running
    <2>2. loc'[w].pc = "release" /\ UNCHANGED task
      BY <1>5, GotoMoves DEF ClearActive
    <2>3. RunningIsActive' /\ OwnerOK(w)'
      BY <2>1, <2>2 DEF RunningIsActive, OwnerOK, ActivePcs
    <2> QED BY <1>o, <2>0, <2>3 DEF OwnerInv
  <1> QED BY <1>1, <1>2, <1>3, <1>4, <1>5

\* Every step keeps the owner's invariant.
LEMMA OwnerNext == TypeOK /\ OwnerInv /\ [Next]_vars => OwnerInv'
  <1> SUFFICES ASSUME TypeOK, OwnerInv, [Next]_vars PROVE OwnerInv'
    OBVIOUS
  <1>1. CASE Next
    BY <1>1, NextMoves, OwnerClient, OwnerLease, OwnerPick, MoveShape, OwnerMove
  <1>2. CASE UNCHANGED vars
    BY <1>2 DEF vars, OwnerInv, OwnerOK, RunningIsActive, Owns
  <1> QED BY <1>1, <1>2

\* The owner's invariant holds in every reachable state.
LEMMA OwnerHolds == Spec => []OwnerInv
  <1>1. Init => OwnerInv
    BY NoneAssumption
       DEF Init, OwnerInv, OwnerOK, RunningIsActive, Owns, NoTask, Running
  <1> QED BY <1>1, OwnerNext, TypeCorrect, PTL DEF Spec

\* Whatever crashes, lost leases, cancels and operator commands interleave, a
\* task that is dispatching, waiting, asking or interrupting is the context's
\* active one: no two tasks of a context ever run.
THEOREM OneTaskRuns == Spec => []RunningIsActive
  BY OwnerHolds, PTL DEF OwnerInv

----
\* SettledStays

\* A terminal task that the context does not point to stays terminal.
Settles(t) ==
    task[t].internal_state = "terminal" /\ ctx.active_task # t
        => task'[t].internal_state = "terminal"

\* No step reopens a settled task.
LEMMA SettledNext ==
    ASSUME TypeOK, OwnerInv, [Next]_vars, NEW t \in Tasks
    PROVE  Settles(t)
  <1>0. /\ task \in [Tasks -> TaskRow] /\ ctx \in ContextRow
        /\ \A w \in Workers : LocalFits(loc[w])
    BY DEF TypeOK, LocalOK
  <1>1. ASSUME NEW u \in Tasks, Admit(u) PROVE Settles(t)
    BY <1>0, <1>1 DEF Settles, Admit, TaskRow
  <1>2. ASSUME NEW u \in Tasks, CancelTask(u) PROVE Settles(t)
    BY <1>0, <1>2 DEF Settles, CancelTask, Queued, TaskRow, Running
  <1>3. ASSUME NEW u \in Tasks, AdminFail(u) \/ AdminRetry(u) PROVE Settles(t)
    BY <1>0, <1>3 DEF Settles, AdminFail, AdminRetry, Held
  <1>4. ASSUME NEW w \in Workers, MoveStep(w) PROVE Settles(t)
    <2>1. Moves(w)
      BY <1>4, MoveShape
    <2> QED BY <2>1 DEF Settles, Moves, OwnerInv, OwnerOK
  <1>5. ASSUME NEW w \in Workers, ActivateTask(w) PROVE Settles(t)
    BY <1>0, <1>5 DEF Settles, ActivateTask, Queued, At, LocalFits
  <1>6. ASSUME NEW w \in Workers, FinishTask(w) PROVE Settles(t)
    BY <1>0, <1>6 DEF Settles, FinishTask, At, LocalFits, TaskRow
  <1>7. ASSUME NEW w \in Workers,
               \/ ClaimScheduler(w) \/ ReleaseScheduler(w) \/ LoseClaim(w) \/ Raise(w) \/ Crash(w)
               \/ ReconcileActive(w) \/ ReconcileQueued(w) \/ ReconcileNothing(w)
               \/ ClearActive(w)
        PROVE  Settles(t)
    BY <1>7 DEF Settles, ClaimScheduler, ReleaseScheduler, LoseClaim, Raise, Crash,
                ReconcileActive, ReconcileQueued, ReconcileNothing, ClearActive
  <1>8. CASE Provider \/ LeaseExpires
    BY <1>8 DEF Settles, Provider, ProviderListsInitial, ProviderRuns, ProviderRests,
                ProviderYields, ProviderStops, LeaseExpires
  <1>9. CASE UNCHANGED vars
    BY <1>9 DEF vars, Settles
  <1> QED BY <1>1, <1>2, <1>3, <1>4, <1>5, <1>6, <1>7, <1>8, <1>9, NextMoves

\* A task that is terminal and released by the context is never reopened: not by
\* a worker that lost its lease, a late provider answer or an operator command.
THEOREM SettledForGood == Spec => SettledStays
  <1>1. TypeOK /\ OwnerInv /\ [Next]_vars =>
            [\A t \in Tasks :
               task[t].internal_state = "terminal" /\ ctx.active_task # t
                   => task'[t].internal_state = "terminal"]_vars
    BY SettledNext DEF Settles
  <1> QED BY <1>1, TypeCorrect, OwnerHolds, PTL DEF Spec, SettledStays

----
\* EarliestActive

Admitted(t) == task[t].internal_state # "absent"

\* Sequence numbers are given once and in order; what is active or in hand was
\* admitted; and the task a lease holder is about to activate is still a lowest
\* one of the queue, because a later admission only adds a higher number.
Numbered ==
    /\ \A t \in Tasks : Admitted(t) => task[t].sequence < ctx.next_sequence
    /\ \A t, u \in Tasks : Admitted(t) /\ Admitted(u) /\ t # u => task[t].sequence # task[u].sequence

InHand ==
    /\ ctx.active_task # None => Admitted(ctx.active_task)
    /\ \A w \in Workers : loc[w].task \in Tasks => Admitted(loc[w].task)

LowestNext ==
    \A w \in Workers :
        Owns(w) /\ loc[w].pc = "activate" =>
            \A u \in Tasks : Queued(u) => task[loc[w].task].sequence <= task[u].sequence

QueueInv == Numbered /\ InHand /\ LowestNext /\ EarliestActive

\* A step that admits nothing, requeues nothing, picks nothing but the active
\* task and activates nothing.
LEMMA QueueFrame ==
    ASSUME TypeOK, QueueInv,
           ctx'.next_sequence = ctx.next_sequence,
           \A u \in Tasks : /\ task'[u].sequence = task[u].sequence
                            /\ Admitted(u)' <=> Admitted(u)
                            /\ Queued(u)' => Queued(u),
           ctx'.active_task \in {ctx.active_task, None},
           \A v \in Workers : loc'[v].task \in {loc[v].task, ctx.active_task, None},
           \A v \in Workers : Owns(v)' /\ loc'[v].pc = "activate" => Owns(v) /\ loc'[v] = loc[v]
    PROVE  QueueInv'
  <1>0. ctx \in ContextRow /\ \A v \in Workers : LocalFits(loc[v])
    BY DEF TypeOK, LocalOK
  <1>a. ctx.active_task # None => ctx.active_task \in Tasks
    BY <1>0 DEF ContextRow
  <1>1. Numbered'
    BY DEF QueueInv, Numbered
  <1>2. InHand'
    BY <1>a, NoneAssumption DEF QueueInv, InHand
  <1>3. LowestNext'
    <2> SUFFICES ASSUME NEW v \in Workers, Owns(v)', loc'[v].pc = "activate",
                        NEW u \in Tasks, Queued(u)'
                 PROVE  task'[loc'[v].task].sequence <= task'[u].sequence
      BY DEF LowestNext
    <2>1. loc[v].task \in Tasks /\ loc'[v] = loc[v] /\ Owns(v)
      BY <1>0 DEF LocalFits
    <2> QED BY <2>1 DEF QueueInv, LowestNext
  <1>4. EarliestActive'
    BY <1>a DEF QueueInv, EarliestActive
  <1> QED BY <1>1, <1>2, <1>3, <1>4 DEF QueueInv

\* The steps on the way fit the frame.
LEMMA QueueMove ==
    ASSUME TypeOK, QueueInv, NEW w \in Workers, Moves(w)
    PROVE  QueueInv'
  <1>0. loc[w].task \in Tasks
    BY DEF Moves, TypeOK, LocalOK, LocalFits, ActivePcs
  <1>1. \A u \in Tasks : /\ Admitted(u)' <=> Admitted(u)
                         /\ Queued(u)' => Queued(u)
    BY <1>0 DEF Moves, QueueInv, InHand, Admitted, Queued, Running
  <1>2. \A v \in Workers : loc'[v].task = loc[v].task
    BY DEF Moves
  <1>3. \A v \in Workers : Owns(v)' /\ loc'[v].pc = "activate" => Owns(v) /\ loc'[v] = loc[v]
    BY DEF Moves, Owns, ActivePcs
  <1> QED BY <1>1, <1>2, <1>3, QueueFrame DEF Moves

\* The service and the operator keep the queue's invariant.
LEMMA QueueClient ==
    ASSUME TypeOK, QueueInv, NEW t \in Tasks,
           Admit(t) \/ CancelTask(t) \/ AdminFail(t) \/ AdminRetry(t)
    PROVE  QueueInv'
  <1>0. /\ task \in [Tasks -> TaskRow] /\ ctx \in ContextRow
        /\ \A v \in Workers : LocalFits(loc[v])
    BY DEF TypeOK, LocalOK
  <1>n. /\ ctx.next_sequence \in Nat /\ \A u \in Tasks : task[u].sequence \in Nat
        /\ ctx.active_task # None => ctx.active_task \in Tasks
    BY <1>0 DEF ContextRow, TaskRow
  <1>1. CASE Admit(t)
    <2>1. /\ ~Admitted(t) /\ ~Queued(t)
          /\ Admitted(t)' /\ task'[t].sequence = ctx.next_sequence
          /\ \A u \in Tasks \ {t} : task'[u] = task[u]
      BY <1>0, <1>1 DEF Admit, Admitted, Queued, TaskRow
    <2>2. /\ ctx'.next_sequence = ctx.next_sequence + 1
          /\ ctx'.active_task = ctx.active_task
          /\ \A v \in Workers : Owns(v)' = Owns(v)
      BY <1>0, <1>1 DEF Admit, ContextRow, Owns
    <2>3. UNCHANGED loc
      BY <1>1 DEF Admit
    <2>4. Numbered'
      BY <1>n, <2>1, <2>2 DEF QueueInv, Numbered, Admitted
    <2>5. InHand'
      BY <1>n, <2>1, <2>2, <2>3 DEF QueueInv, InHand, Admitted
    <2>6. LowestNext'
      <3> SUFFICES ASSUME NEW v \in Workers, Owns(v), loc[v].pc = "activate",
                          NEW u \in Tasks, Queued(u)'
                   PROVE  task'[loc[v].task].sequence <= task'[u].sequence
        BY <2>2, <2>3 DEF LowestNext
      <3>1. loc[v].task \in Tasks
        BY <1>0 DEF LocalFits
      <3>2. Admitted(loc[v].task) /\ loc[v].task # t
        BY <2>1, <3>1 DEF QueueInv, InHand
      <3>3. CASE u = t
        BY <1>n, <2>1, <3>1, <3>2, <3>3 DEF QueueInv, Numbered
      <3>4. CASE u # t
        BY <2>1, <3>1, <3>2, <3>4 DEF QueueInv, LowestNext, Queued
      <3> QED BY <3>3, <3>4
    <2>7. EarliestActive'
      <3> SUFFICES ASSUME ctx.active_task # None, NEW u \in Tasks, Queued(u)'
                   PROVE  task'[ctx.active_task].sequence < task'[u].sequence
        BY <2>2 DEF EarliestActive
      <3>1. ctx.active_task \in Tasks /\ Admitted(ctx.active_task) /\ ctx.active_task # t
        BY <1>n, <2>1 DEF QueueInv, InHand
      <3>2. CASE u = t
        BY <1>n, <2>1, <3>1, <3>2 DEF QueueInv, Numbered
      <3>3. CASE u # t
        BY <2>1, <3>1, <3>3 DEF QueueInv, EarliestActive, Queued
      <3> QED BY <3>2, <3>3
    <2> QED BY <2>4, <2>5, <2>6, <2>7 DEF QueueInv
  <1>2. CASE CancelTask(t)
    <2>1. \A u \in Tasks : /\ task'[u].sequence = task[u].sequence
                           /\ Admitted(u)' <=> Admitted(u)
                           /\ Queued(u)' => Queued(u)
      <3>1. CASE Queued(t) /\ task' = [task EXCEPT ![t] = [@ EXCEPT
                     !.internal_state = "terminal", !.a2a_state = "CANCELED"]]
        BY <1>0, <3>1 DEF Queued, Admitted, TaskRow
      <3>2. CASE task' = [task EXCEPT ![t] = [@ EXCEPT !.cancel_requested = TRUE]]
        BY <1>0, <3>2 DEF Queued, Admitted, TaskRow
      <3> QED BY <1>2, <3>1, <3>2 DEF CancelTask
    <2> QED BY <1>2, <2>1, QueueFrame DEF CancelTask, Owns
  <1>c. ASSUME AdminFail(t) \/ AdminRetry(t)
        PROVE  /\ ctx.active_task = t /\ ctx'.active_task = None
               /\ ctx'.next_sequence = ctx.next_sequence
               /\ UNCHANGED loc
               /\ \A v \in Workers : ~Owns(v)'
    BY <1>0, <1>c, NoneAssumption DEF AdminFail, AdminRetry, Held, ContextRow, Owns
  <1>3. CASE AdminFail(t)
    <2>1. \A u \in Tasks : /\ task'[u].sequence = task[u].sequence
                           /\ Admitted(u)' <=> Admitted(u)
                           /\ Queued(u)' => Queued(u)
      <3>1. Admitted(t)
        BY <1>3, <1>c, NoneAssumption DEF QueueInv, InHand
      <3> QED BY <1>0, <1>3, <3>1 DEF AdminFail, Queued, Admitted, TaskRow
    <2> QED BY <1>3, <1>c, <2>1, QueueFrame
  <1>4. CASE AdminRetry(t)
    <2>1. \A u \in Tasks : /\ task'[u].sequence = task[u].sequence
                           /\ Admitted(u)' <=> Admitted(u)
      <3>1. Admitted(t)
        BY <1>4, <1>c, NoneAssumption DEF QueueInv, InHand
      <3> QED BY <1>0, <1>4, <3>1 DEF AdminRetry, Admitted, TaskRow
    <2>2. Numbered' /\ InHand'
      BY <1>4, <1>c, <2>1 DEF QueueInv, Numbered, InHand
    <2>3. LowestNext' /\ EarliestActive'
      BY <1>4, <1>c DEF LowestNext, EarliestActive
    <2> QED BY <2>2, <2>3 DEF QueueInv
  <1> QED BY <1>1, <1>2, <1>3, <1>4

\* So do the lease steps, the provider and the steps that finish a task or look
\* at the active one.
LEMMA QueueOther ==
    ASSUME TypeOK, QueueInv,
           \/ \E w \in Workers :
                 \/ ClaimScheduler(w) \/ ReleaseScheduler(w) \/ LoseClaim(w) \/ Raise(w) \/ Crash(w)
                 \/ ReconcileNothing(w) \/ ReconcileActive(w) \/ FinishTask(w) \/ ClearActive(w)
           \/ Provider \/ LeaseExpires
    PROVE  QueueInv'
  <1>0. /\ loc \in [Workers -> Local] /\ ctx \in ContextRow /\ task \in [Tasks -> TaskRow]
        /\ \A v \in Workers : LocalFits(loc[v])
    BY DEF TypeOK, LocalOK
  <1>1. ASSUME NEW w \in Workers,
               \/ ClaimScheduler(w) \/ ReleaseScheduler(w) \/ LoseClaim(w) \/ Raise(w) \/ Crash(w)
               \/ ReconcileNothing(w) \/ ReconcileActive(w) \/ FinishTask(w) \/ ClearActive(w)
        PROVE  QueueInv'
    <2>1. /\ ctx'.next_sequence = ctx.next_sequence
          /\ ctx'.active_task \in {ctx.active_task, None}
      BY <1>0, <1>1 DEF ClaimScheduler, ReleaseScheduler, LoseClaim, Raise, Crash,
             ReconcileNothing, ReconcileActive, FinishTask, ClearActive, ContextRow
    <2>2. \A u \in Tasks : /\ task'[u].sequence = task[u].sequence
                           /\ Admitted(u)' <=> Admitted(u)
                           /\ Queued(u)' => Queued(u)
      <3>1. CASE FinishTask(w)
        <4>1. loc[w].task \in Tasks /\ Admitted(loc[w].task)
          BY <1>0, <3>1 DEF FinishTask, At, LocalFits, QueueInv, InHand
        <4> QED BY <1>0, <3>1, <4>1 DEF FinishTask, Queued, Admitted, TaskRow
      <3>2. CASE ~FinishTask(w)
        <4>1. task' = task
          BY <1>1, <3>2 DEF ClaimScheduler, ReleaseScheduler, LoseClaim, Raise, Crash,
                 ReconcileNothing, ReconcileActive, ClearActive
        <4> QED BY <4>1 DEF Admitted, Queued
      <3> QED BY <3>1, <3>2
    <2>3. /\ loc'[w].task \in {loc[w].task, ctx.active_task, None}
          /\ loc'[w].pc # "activate"
          /\ \A v \in Workers \ {w} : loc'[v] = loc[v]
      <3>1. CASE ReleaseScheduler(w) \/ Crash(w)
        BY <1>0, <3>1 DEF ReleaseScheduler, Crash, IdleLocal
      <3>2. CASE ReconcileActive(w)
        BY <1>0, <3>2 DEF ReconcileActive, Local
      <3>3. CASE ~(ReleaseScheduler(w) \/ Crash(w) \/ ReconcileActive(w))
        <4>1. Goto(w, "reconcile") \/ Goto(w, "release") \/ Goto(w, "clear")
          BY <1>1, <3>3 DEF ClaimScheduler, LoseClaim, Raise, ReconcileNothing, FinishTask,
                 ClearActive
        <4> QED BY <4>1, GotoMoves
      <3> QED BY <3>1, <3>2, <3>3
    <2>4. \A v \in Workers \ {w} : Owns(v)' => Owns(v)
      BY <1>0, <1>1 DEF ClaimScheduler, ReleaseScheduler, LoseClaim, Raise, Crash,
             ReconcileNothing, ReconcileActive, FinishTask, ClearActive, ContextRow, Owns
    <2> QED BY <2>1, <2>2, <2>3, <2>4, QueueFrame
  <1>2. CASE Provider
    <2>1. UNCHANGED <<ctx, task, loc>>
      BY <1>2 DEF Provider, ProviderListsInitial, ProviderRuns, ProviderRests,
                  ProviderYields, ProviderStops
    <2> QED BY <2>1, QueueFrame DEF Owns, Admitted, Queued
  <1>3. CASE LeaseExpires
    <2>1. /\ UNCHANGED <<task, loc>>
          /\ ctx'.next_sequence = ctx.next_sequence
          /\ ctx'.active_task = ctx.active_task
          /\ \A v \in Workers : ~Owns(v)'
      BY <1>0, <1>3 DEF LeaseExpires, ContextRow, Owns
    <2> QED BY <2>1, QueueFrame DEF Admitted, Queued
  <1> QED BY <1>1, <1>2, <1>3

\* The lowest queued task is picked and, still the lowest, activated.
LEMMA QueuePick ==
    ASSUME TypeOK, QueueInv, NEW w \in Workers, ReconcileQueued(w) \/ ActivateTask(w)
    PROVE  QueueInv'
  <1> DEFINE t == loc[w].task
  <1>0. /\ loc \in [Workers -> Local] /\ ctx \in ContextRow /\ task \in [Tasks -> TaskRow]
        /\ \A v \in Workers : LocalFits(loc[v])
        /\ \A u \in Tasks : task[u].sequence \in Nat
    BY DEF TypeOK, LocalOK, TaskRow
  <1>1. CASE ReconcileQueued(w)
    <2>1. PICK u \in Tasks : NextQueued(u) /\ loc' = [loc EXCEPT ![w] =
                IF ctx.lifecycle_state = "failed"
                THEN [loc[w] EXCEPT !.pc = "finish", !.task = u, !.out = "FAILED"]
                ELSE [loc[w] EXCEPT !.pc = "activate", !.task = u,
                               !.snap = IF ctx.cma_session THEN Len(hist) ELSE 0]]
      BY <1>1 DEF ReconcileQueued
    <2>2. loc'[w].task = u /\ \A v \in Workers \ {w} : loc'[v] = loc[v]
      <3>1. CASE ctx.lifecycle_state = "failed"
        BY <1>0, <2>1, <3>1 DEF Local
      <3>2. CASE ctx.lifecycle_state # "failed"
        BY <1>0, <2>1, <3>2 DEF Local
      <3> QED BY <3>1, <3>2
    <2>3. UNCHANGED <<ctx, task>>
      BY <1>1 DEF ReconcileQueued
    <2>4. Numbered' /\ EarliestActive'
      BY <2>3 DEF QueueInv, Numbered, EarliestActive, Admitted, Queued
    <2>5. InHand'
      BY <2>1, <2>2, <2>3 DEF QueueInv, InHand, Admitted, NextQueued, Queued
    <2>6. LowestNext'
      BY <2>1, <2>2, <2>3 DEF QueueInv, LowestNext, NextQueued, Queued, Owns
    <2> QED BY <2>4, <2>5, <2>6 DEF QueueInv
  <1>2. CASE ActivateTask(w)
    <2>0. t \in Tasks /\ Owns(w) /\ loc[w].pc = "activate"
      BY <1>0, <1>2 DEF ActivateTask, At, LocalFits
    <2>l. /\ loc'[w].task = t /\ loc'[w].pc # "activate"
          /\ \A v \in Workers \ {w} : loc'[v] = loc[v]
      BY <1>2, GotoMoves DEF ActivateTask
    <2>c. /\ ctx'.claim = ctx.claim /\ ctx'.lease_live = ctx.lease_live
          /\ ctx'.next_sequence = ctx.next_sequence
      BY <1>0, <1>2 DEF ActivateTask, ContextRow
    <2>1. CASE ctx.active_task = None /\ Queued(t)
      <3>1. ctx'.active_task = t
        BY <1>0, <1>2, <2>1 DEF ActivateTask, ContextRow
      <3>2. \A u \in Tasks : /\ task'[u].sequence = task[u].sequence
                             /\ Admitted(u)' <=> Admitted(u)
                             /\ Queued(u)' => Queued(u) /\ u # t
        <4>1. task' = [task EXCEPT ![t] = [@ EXCEPT
                 !.internal_state = "dispatching", !.predecessor = loc[w].snap,
                 !.dispatch_attempts = task[t].dispatch_attempts + 1]]
          BY <1>2, <2>1 DEF ActivateTask
        <4> QED BY <1>0, <2>0, <2>1, <4>1 DEF Admitted, Queued, TaskRow
      <3>3. Numbered'
        BY <2>c, <3>2 DEF QueueInv, Numbered
      <3>4. InHand'
        BY <2>0, <2>1, <2>l, <3>1, <3>2 DEF QueueInv, InHand, Admitted, Queued
      <3>5. LowestNext'
        BY <2>0, <2>c, <2>l DEF LowestNext, Owns
      <3>6. EarliestActive'
        <4> SUFFICES ASSUME NEW u \in Tasks, Queued(u)'
                     PROVE  task'[t].sequence < task'[u].sequence
          BY <3>1 DEF EarliestActive
        <4>1. task[t].sequence <= task[u].sequence
          BY <2>0, <3>2 DEF QueueInv, LowestNext
        <4>2. task[t].sequence # task[u].sequence
          BY <2>0, <2>1, <3>2 DEF QueueInv, Numbered, Admitted, Queued
        <4> QED BY <1>0, <2>0, <3>2, <4>1, <4>2
      <3> QED BY <3>3, <3>4, <3>5, <3>6 DEF QueueInv
    <2>2. CASE ~(ctx.active_task = None /\ Queued(t))
      <3>1. UNCHANGED <<ctx, task>>
        BY <1>2, <2>2 DEF ActivateTask
      <3> QED BY <2>l, <3>1, QueueFrame DEF Owns, Admitted, Queued
    <2> QED BY <2>1, <2>2
  <1> QED BY <1>1, <1>2

\* The queue's invariant holds in every reachable state.
LEMMA QueueHolds == Spec => []QueueInv
  <1>1. Init => QueueInv
    BY NoneAssumption
       DEF Init, QueueInv, Numbered, InHand, LowestNext, EarliestActive, Admitted, Queued,
           NoTask, IdleLocal
  <1>2. TypeOK /\ QueueInv /\ [Next]_vars => QueueInv'
    <2> SUFFICES ASSUME TypeOK, QueueInv, [Next]_vars PROVE QueueInv'
      OBVIOUS
    <2>1. CASE Next
      BY <2>1, NextMoves, QueueClient, QueueOther, QueuePick, MoveShape, QueueMove
    <2>2. CASE UNCHANGED vars
      BY <2>2, QueueFrame DEF vars, Owns, Admitted, Queued
    <2> QED BY <2>1, <2>2
  <1> QED BY <1>1, <1>2, TypeCorrect, PTL DEF Spec

\* "The earliest nonterminal Task is active": no queued task is older than the
\* active one, however admissions, cancels, retries and takeovers interleave.
THEOREM EarliestRuns == Spec => []EarliestActive
  BY QueueHolds, PTL DEF QueueInv

----
\* QueueSpec

\* Every number below the next one was given to a task.
Gapless ==
    /\ ctx.next_sequence \in Nat \ {0}
    /\ \A t \in Tasks : Admitted(t) => task[t].sequence \in Nat \ {0}
    /\ \A n \in 1..(ctx.next_sequence - 1) : \E t \in Tasks : Admitted(t) /\ task[t].sequence = n

\* A step that admits no task leaves the order of admission, and does to the queue and
\* the pointer what ContextQueue allows.
OrderKept ==
    /\ ctx'.next_sequence = ctx.next_sequence
    /\ \A u \in Tasks : task'[u].sequence = task[u].sequence /\ (Admitted(u)' <=> Admitted(u))

Stays ==
    /\ ctx'.active_task = ctx.active_task
    /\ \A u \in Tasks : Queued(u)' <=> Queued(u)

Leaves(t) ==
    /\ ctx'.active_task = ctx.active_task
    /\ Queued(t)
    /\ \A u \in Tasks : Queued(u)' <=> Queued(u) /\ u # t

Begins(t) ==
    /\ ctx.active_task = None /\ ctx'.active_task = t
    /\ Queued(t)
    /\ \A u \in Tasks : Queued(u) => task[t].sequence <= task[u].sequence
    /\ \A u \in Tasks : Queued(u)' <=> Queued(u) /\ u # t

Ends ==
    /\ ctx.active_task # None /\ ctx'.active_task = None
    /\ \/ \A u \in Tasks : Queued(u)' <=> Queued(u)
       \/ \A u \in Tasks : Queued(u)' <=> Queued(u) \/ u = ctx.active_task

Allowed == OrderKept /\ (Stays \/ (\E t \in Tasks : Leaves(t) \/ Begins(t)) \/ Ends)

\* The active task does not wait in the queue.
LEMMA ActiveNotQueued ==
    ASSUME TypeOK, QueueInv, ctx.active_task # None
    PROVE  ctx.active_task \in Tasks /\ ~Queued(ctx.active_task) /\ Admitted(ctx.active_task)
  <1>1. ctx.active_task \in Tasks /\ task[ctx.active_task].sequence \in Nat
    BY DEF TypeOK, ContextRow, TaskRow
  <1> QED BY <1>1 DEF QueueInv, EarliestActive, InHand

\* The service and the operator.
LEMMA AllowedClient ==
    ASSUME TypeOK, QueueInv, NEW t \in Tasks, CancelTask(t) \/ AdminFail(t) \/ AdminRetry(t)
    PROVE  Allowed
  <1>0. task \in [Tasks -> TaskRow] /\ ctx \in ContextRow
    BY DEF TypeOK
  <1>1. CASE CancelTask(t)
    <2>1. CASE Queued(t) /\ task' = [task EXCEPT ![t] = [@ EXCEPT
                   !.internal_state = "terminal", !.a2a_state = "CANCELED"]]
      <3>1. OrderKept /\ Leaves(t)
        BY <1>0, <1>1, <2>1
           DEF CancelTask, OrderKept, Leaves, Admitted, Queued, TaskRow
      <3> QED BY <3>1 DEF Allowed
    <2>2. CASE task' = [task EXCEPT ![t].cancel_requested = TRUE]
      <3>1. OrderKept /\ Stays
        BY <1>0, <1>1, <2>2 DEF CancelTask, OrderKept, Stays, Admitted, Queued, TaskRow
      <3> QED BY <3>1 DEF Allowed
    <2> QED BY <1>1, <2>1, <2>2 DEF CancelTask
  <1>2. CASE AdminFail(t) \/ AdminRetry(t)
    <2>1. ctx.active_task = t /\ ctx.active_task # None
      BY <1>2, NoneAssumption DEF AdminFail, AdminRetry, Held
    <2>2. ~Queued(t) /\ Admitted(t)
      BY <2>1, ActiveNotQueued
    <2>3. ctx'.active_task = None /\ ctx'.next_sequence = ctx.next_sequence
      BY <1>0, <1>2 DEF AdminFail, AdminRetry, ContextRow
    <2>4. CASE AdminFail(t)
      <3>1. OrderKept /\ \A u \in Tasks : Queued(u)' <=> Queued(u)
        BY <1>0, <2>2, <2>3, <2>4 DEF AdminFail, OrderKept, Admitted, Queued, TaskRow
      <3> QED BY <2>1, <2>3, <3>1 DEF Allowed, Ends
    <2>5. CASE AdminRetry(t)
      <3>1. OrderKept /\ \A u \in Tasks : Queued(u)' <=> Queued(u) \/ u = t
        BY <1>0, <2>2, <2>3, <2>5 DEF AdminRetry, OrderKept, Admitted, Queued, TaskRow
      <3> QED BY <2>1, <2>3, <3>1 DEF Allowed, Ends
    <2> QED BY <1>2, <2>4, <2>5
  <1> QED BY <1>1, <1>2

\* A step on the way writes the internal state of the active task only.
LEMMA AllowedMove ==
    ASSUME TypeOK, OwnerInv, QueueInv, NEW w \in Workers, Moves(w)
    PROVE  Allowed
  <1>1. loc[w].task \in Tasks
    BY DEF Moves, TypeOK, LocalOK, LocalFits, ActivePcs
  <1>2. Admitted(loc[w].task)
    BY <1>1 DEF QueueInv, InHand
  <1>3. Owns(w) => ~Queued(loc[w].task)
    <2> SUFFICES ASSUME Owns(w) PROVE ~Queued(loc[w].task)
      OBVIOUS
    <2>1. ctx.active_task = loc[w].task
      BY DEF Moves, OwnerInv, OwnerOK
    <2> QED BY <1>1, <2>1, ActiveNotQueued, NoneAssumption
  <1>4. OrderKept /\ Stays
    BY <1>2, <1>3 DEF Moves, OrderKept, Stays, Admitted, Queued, Running
  <1> QED BY <1>4 DEF Allowed

\* The steps that begin a turn, finish a task and clear the pointer.
LEMMA AllowedTurn ==
    ASSUME TypeOK, QueueInv, NEW w \in Workers,
           ActivateTask(w) \/ FinishTask(w) \/ ClearActive(w)
    PROVE  Allowed
  <1> DEFINE t == loc[w].task
  <1>0. /\ task \in [Tasks -> TaskRow] /\ ctx \in ContextRow
        /\ loc[w].pc \in {"activate", "finish"} => t \in Tasks /\ Admitted(t)
    BY DEF TypeOK, LocalOK, LocalFits, QueueInv, InHand
  <1>1. CASE ActivateTask(w)
    <2>0. t \in Tasks /\ Owns(w) /\ loc[w].pc = "activate"
      BY <1>0, <1>1 DEF ActivateTask, At
    <2>1. CASE ctx.active_task = None /\ Queued(t)
      <3>1. task' = [task EXCEPT ![t] = [@ EXCEPT
               !.internal_state = "dispatching", !.predecessor = loc[w].snap,
               !.dispatch_attempts = task[t].dispatch_attempts + 1]]
        BY <1>1, <2>1 DEF ActivateTask
      <3>2. ctx'.active_task = t /\ ctx'.next_sequence = ctx.next_sequence
        BY <1>0, <1>1, <2>1 DEF ActivateTask, ContextRow
      <3>3. OrderKept /\ \A u \in Tasks : Queued(u)' <=> Queued(u) /\ u # t
        BY <1>0, <2>0, <2>1, <3>1, <3>2 DEF OrderKept, Admitted, Queued, TaskRow
      <3>4. \A u \in Tasks : Queued(u) => task[t].sequence <= task[u].sequence
        BY <2>0 DEF QueueInv, LowestNext
      <3> QED BY <2>0, <2>1, <3>2, <3>3, <3>4 DEF Allowed, Begins
    <2>2. CASE ~(ctx.active_task = None /\ Queued(t))
      <3>1. UNCHANGED <<ctx, task>>
        BY <1>1, <2>2 DEF ActivateTask
      <3> QED BY <3>1 DEF Allowed, OrderKept, Stays, Admitted, Queued
    <2> QED BY <2>1, <2>2
  <1>2. CASE FinishTask(w)
    <2>1. t \in Tasks /\ Admitted(t) /\ ctx' = ctx
      BY <1>0, <1>2 DEF FinishTask, At
    <2>2. OrderKept /\ \A u \in Tasks : Queued(u)' <=> Queued(u) /\ u # t
      BY <1>0, <1>2, <2>1 DEF FinishTask, OrderKept, Admitted, Queued, TaskRow
    <2>3. CASE Queued(t)
      BY <2>1, <2>2, <2>3 DEF Allowed, Leaves
    <2>4. CASE ~Queued(t)
      BY <2>1, <2>2, <2>4 DEF Allowed, Stays
    <2> QED BY <2>3, <2>4
  <1>3. CASE ClearActive(w)
    <2>1. task' = task /\ ctx'.active_task = None /\ ctx'.next_sequence = ctx.next_sequence
      BY <1>0, <1>3 DEF ClearActive, ContextRow
    <2> QED BY <2>1 DEF Allowed, OrderKept, Stays, Ends, Admitted, Queued
  <1> QED BY <1>1, <1>2, <1>3

\* Every step but an admission does to the queue what ContextQueue allows.
LEMMA AllowedNext ==
    ASSUME TypeOK, OwnerInv, QueueInv, [Next]_vars, \A t \in Tasks : ~Admit(t)
    PROVE  Allowed
  <1>0. ctx \in ContextRow
    BY DEF TypeOK
  <1>1. ASSUME task' = task, ctx'.active_task = ctx.active_task,
               ctx'.next_sequence = ctx.next_sequence
        PROVE  Allowed
    BY <1>1 DEF Allowed, OrderKept, Stays, Admitted, Queued
  <1>2. ASSUME NEW w \in Workers,
               \/ ClaimScheduler(w) \/ ReleaseScheduler(w) \/ LoseClaim(w) \/ Raise(w) \/ Crash(w)
               \/ ReconcileActive(w) \/ ReconcileQueued(w) \/ ReconcileNothing(w)
        PROVE  Allowed
    BY <1>0, <1>1, <1>2
       DEF ClaimScheduler, ReleaseScheduler, LoseClaim, Raise, Crash, ReconcileActive,
           ReconcileQueued, ReconcileNothing, ContextRow
  <1>3. CASE Provider \/ LeaseExpires
    BY <1>0, <1>1, <1>3
       DEF Provider, ProviderListsInitial, ProviderRuns, ProviderRests, ProviderYields,
           ProviderStops, LeaseExpires, ContextRow
  <1>4. CASE UNCHANGED vars
    BY <1>1, <1>4 DEF vars
  <1> QED BY <1>2, <1>3, <1>4, NextMoves, AllowedClient, AllowedTurn, MoveShape, AllowedMove

\* The order of admission has no gap.
LEMMA GaplessHolds == Spec => []Gapless
  <1>1. Init => Gapless
    BY DEF Init, Gapless, Admitted, NoTask
  <1>2. ASSUME TypeOK, OwnerInv, QueueInv, Gapless, [Next]_vars
        PROVE  Gapless'
    <2>1. CASE \A t \in Tasks : ~Admit(t)
      <3>1. OrderKept
        BY <1>2, <2>1, AllowedNext DEF Allowed
      <3> QED BY <1>2, <3>1 DEF Gapless, OrderKept
    <2>2. ASSUME NEW t \in Tasks, Admit(t)
          PROVE  Gapless'
      <3>1. /\ ~Admitted(t) /\ Admitted(t)' /\ task'[t].sequence = ctx.next_sequence
            /\ \A u \in Tasks \ {t} : task'[u] = task[u]
            /\ ctx'.next_sequence = ctx.next_sequence + 1
        BY <1>2, <2>2 DEF TypeOK, Admit, Admitted, TaskRow, ContextRow
      <3>2. \A u \in Tasks \ {t} : Admitted(u)' <=> Admitted(u)
        BY <3>1 DEF Admitted
      <3>3. ASSUME NEW n \in 1..(ctx'.next_sequence - 1)
            PROVE  \E u \in Tasks : Admitted(u)' /\ task'[u].sequence = n
        <4>1. CASE n = ctx.next_sequence
          BY <3>1, <4>1
        <4>2. CASE n # ctx.next_sequence
          <5>1. n \in 1..(ctx.next_sequence - 1)
            BY <1>2, <3>1, <4>2 DEF Gapless
          <5>2. PICK u \in Tasks : Admitted(u) /\ task[u].sequence = n
            BY <1>2, <5>1 DEF Gapless
          <5> QED BY <3>1, <3>2, <5>2
        <4> QED BY <4>1, <4>2
      <3>4. \A u \in Tasks : Admitted(u)' => task'[u].sequence \in Nat \ {0}
        BY <1>2, <3>1, <3>2 DEF Gapless
      <3> QED BY <1>2, <3>1, <3>3, <3>4 DEF Gapless
    <2> QED BY <2>1, <2>2
  <1> QED BY <1>1, <1>2, TypeCorrect, OwnerHolds, QueueHolds, PTL DEF Spec

\* Which task was admitted under a number.
LEMMA OrderFacts ==
    ASSUME QueueInv, Gapless
    PROVE  /\ \A n \in 1..(ctx.next_sequence - 1) :
                 AdmittedAt(n) \in Tasks /\ Admitted(AdmittedAt(n)) /\ task[AdmittedAt(n)].sequence = n
           /\ \A t \in Tasks : Admitted(t) =>
                 task[t].sequence \in 1..(ctx.next_sequence - 1) /\ AdmittedAt(task[t].sequence) = t
  <1>1. \A n \in 1..(ctx.next_sequence - 1) :
           AdmittedAt(n) \in Tasks /\ Admitted(AdmittedAt(n)) /\ task[AdmittedAt(n)].sequence = n
    BY DEF Gapless, AdmittedAt, Admitted
  <1>2. \A t \in Tasks : Admitted(t) => task[t].sequence \in 1..(ctx.next_sequence - 1)
    BY DEF Gapless, QueueInv, Numbered
  <1> QED BY <1>1, <1>2 DEF QueueInv, Numbered

\* The same after a step.
LEMMA OrderFactsNext ==
    ASSUME QueueInv', Gapless'
    PROVE  \A n \in 1..(ctx'.next_sequence - 1) :
              /\ AdmittedAt(n)' \in Tasks /\ Admitted(AdmittedAt(n))'
              /\ task'[AdmittedAt(n)'].sequence = n
  BY DEF Gapless, AdmittedAt, Admitted

\* A task's place in the order stays its own.
LEMMA PlaceStays ==
    ASSUME QueueInv, Gapless, QueueInv', Gapless',
           ctx'.next_sequence \in {ctx.next_sequence, ctx.next_sequence + 1},
           \A u \in Tasks : Admitted(u) => Admitted(u)' /\ task'[u].sequence = task[u].sequence
    PROVE  \A n \in 1..(ctx.next_sequence - 1) : AdmittedAt(n)' = AdmittedAt(n)
  <1> SUFFICES ASSUME NEW n \in 1..(ctx.next_sequence - 1)
               PROVE  AdmittedAt(n)' = AdmittedAt(n)
    OBVIOUS
  <1>1. AdmittedAt(n) \in Tasks /\ Admitted(AdmittedAt(n)) /\ task[AdmittedAt(n)].sequence = n
    BY OrderFacts
  <1>2. n \in 1..(ctx'.next_sequence - 1)
    BY DEF Gapless
  <1>3. /\ AdmittedAt(n)' \in Tasks /\ Admitted(AdmittedAt(n))'
        /\ task'[AdmittedAt(n)'].sequence = n
    BY <1>2, OrderFactsNext
  <1>4. \A u \in Tasks : Admitted(u)' /\ task'[u].sequence = n => AdmittedAt(n)' = u
    BY <1>3 DEF QueueInv, Numbered
  <1> QED BY <1>1, <1>4

Order == [n \in 1..(ctx.next_sequence - 1) |-> AdmittedAt(n)]

\* An admission appends the new task to the order.
LEMMA JoinStep ==
    ASSUME TypeOK, QueueInv, Gapless, QueueInv', Gapless', NEW t \in Tasks, Admit(t)
    PROVE  Queue!Join(t)
  <1>0. task \in [Tasks -> TaskRow] /\ ctx \in ContextRow /\ ctx.next_sequence \in Nat \ {0}
    BY DEF TypeOK, Gapless
  <1>1. /\ ~Admitted(t) /\ ~Queued(t) /\ Admitted(t)' /\ task'[t].sequence = ctx.next_sequence
        /\ \A u \in Tasks \ {t} : task'[u] = task[u]
        /\ ctx'.next_sequence = ctx.next_sequence + 1 /\ ctx'.active_task = ctx.active_task
    BY <1>0 DEF Admit, Admitted, Queued, TaskRow, ContextRow
  <1>2. \A n \in 1..(ctx.next_sequence - 1) : AdmittedAt(n)' = AdmittedAt(n)
    BY <1>1, PlaceStays DEF Admitted
  <1>k. PICK k \in Nat \ {0} : k = ctx.next_sequence
    BY <1>0
  <1>3. AdmittedAt(k)' = t
    <2>1. k \in 1..(ctx'.next_sequence - 1)
      BY <1>1, <1>k
    <2> QED BY <1>1, <1>k, <2>1, OrderFactsNext DEF QueueInv, Numbered
  <1>4. Order' = Append(Order, t)
    <2>1. Order \in [1..(k - 1) -> Tasks]
      BY <1>k, OrderFacts DEF Order
    <2>2. Order \in Seq(Tasks) /\ Len(Order) = k - 1
      <3>1. Order \in Seq(Tasks)
        BY <2>1, SeqDef
      <3> QED BY <2>1, <3>1, LenProperties
    <2>3. /\ Append(Order, t) \in Seq(Tasks) /\ Len(Append(Order, t)) = k
          /\ Append(Order, t)[k] = t
          /\ \A n \in 1..(k - 1) : Append(Order, t)[n] = Order[n]
      BY <2>2, AppendProperties
    <2>4. Append(Order, t) = [n \in 1..k |-> Append(Order, t)[n]]
      <3>1. Append(Order, t) \in [1..k -> Tasks]
        BY <2>3, LenProperties
      <3> QED BY <3>1
    <2>5. Order' = [n \in 1..k |-> AdmittedAt(n)']
      BY <1>1, <1>k DEF Order
    <2>6. \A n \in 1..(k - 1) : AdmittedAt(n)' = Order[n]
      BY <1>2, <1>k DEF Order
    <2>7. \A n \in 1..k : AdmittedAt(n)' = Append(Order, t)[n]
      BY <1>3, <2>3, <2>6
    <2> QED BY <2>4, <2>5, <2>7
  <1>5. \A n \in DOMAIN Order : Order[n] # t
    BY <1>1, OrderFacts DEF Order
  <1>6. {u \in Tasks : Queued(u)}' \in {{u \in Tasks : Queued(u)}, {u \in Tasks : Queued(u)} \cup {t}}
    <2>1. \A u \in Tasks \ {t} : Queued(u)' <=> Queued(u)
      BY <1>1 DEF Queued
    <2>2. CASE Queued(t)'
      <3>1. {u \in Tasks : Queued(u)}' = {u \in Tasks : Queued(u)} \cup {t}
        BY <2>1, <2>2
      <3> QED BY <3>1
    <2>3. CASE ~Queued(t)'
      <3>1. {u \in Tasks : Queued(u)}' = {u \in Tasks : Queued(u)}
        BY <1>1, <2>1, <2>3
      <3> QED BY <3>1
    <2> QED BY <2>2, <2>3
  <1> QED BY <1>1, <1>4, <1>5, <1>6 DEF Order, Queue!Join, Queue!Known

\* Every other step is a step of the queue or leaves it alone.
LEMMA QueueStep ==
    ASSUME TypeOK, QueueInv, Gapless, QueueInv', Gapless', Allowed
    PROVE  [Queue!Next]_(Queue!queueVars)
  <1> DEFINE W == {u \in Tasks : Queued(u)}
  <1>1. Order' = Order
    BY PlaceStays DEF Allowed, OrderKept, Order
  <1>2. CASE Stays
    <2>1. W' = W /\ ctx'.active_task = ctx.active_task
      BY <1>2 DEF Stays
    <2> QED BY <1>1, <2>1 DEF Order, Queue!queueVars
  <1>3. ASSUME NEW t \in Tasks, Leaves(t)
        PROVE  Queue!Leave(t)
    <2>1. W' = W \ {t} /\ t \in W /\ ctx'.active_task = ctx.active_task
      BY <1>3 DEF Leaves
    <2> QED BY <1>1, <2>1 DEF Order, Queue!Leave
  <1>4. ASSUME NEW t \in Tasks, Begins(t)
        PROVE  Queue!Begin(t)
    <2>1. /\ W' = W \ {t} /\ t \in W
          /\ ctx.active_task = None /\ ctx'.active_task = t
      BY <1>4 DEF Begins
    <2>2. ASSUME NEW u \in W \ {t}
          PROVE  \E m, n \in DOMAIN Order : m < n /\ Order[m] = t /\ Order[n] = u
      <3>1. Admitted(t) /\ Admitted(u) /\ task[t].sequence <= task[u].sequence
        BY <1>4, <2>2 DEF Begins, Queued, Admitted
      <3>2. /\ task[t].sequence \in DOMAIN Order /\ Order[task[t].sequence] = t
            /\ task[u].sequence \in DOMAIN Order /\ Order[task[u].sequence] = u
        BY <2>2, <3>1, OrderFacts DEF Order
      <3>3. task[t].sequence # task[u].sequence
        BY <2>2, <3>2
      <3>4. task[t].sequence \in Nat /\ task[u].sequence \in Nat
        BY <2>2 DEF TypeOK, TaskRow
      <3>5. task[t].sequence < task[u].sequence
        BY <3>1, <3>3, <3>4
      <3> QED BY <3>2, <3>5
    <2> QED BY <1>1, <2>1, <2>2 DEF Order, Queue!Begin, Queue!Ahead
  <1>5. CASE Ends
    <2>1. ctx.active_task # None /\ ctx'.active_task = None /\ ctx.active_task \in Tasks
      BY <1>5, ActiveNotQueued DEF Ends
    <2>2. W' = W \/ W' = W \cup {ctx.active_task}
      <3>1. CASE \A u \in Tasks : Queued(u)' <=> Queued(u)
        BY <3>1
      <3>2. CASE \A u \in Tasks : Queued(u)' <=> Queued(u) \/ u = ctx.active_task
        BY <2>1, <3>2
      <3> QED BY <1>5, <3>1, <3>2 DEF Ends
    <2>3. Queue!End
      BY <1>1, <2>1, <2>2 DEF Order, Queue!End
    <2> QED BY <2>3 DEF Queue!Next
  <1> QED BY <1>2, <1>3, <1>4, <1>5 DEF Allowed, Queue!Next

\* The context is a queue: a message is admitted once and keeps its place, one task at a
\* time has the turn, the first that waits begins it, and none comes back but by an
\* operator's retry.  Crashes, takeovers of the lease and late workers are hidden in it.
THEOREM ContextIsQueue == Spec => QueueSpec
  <1>1. TypeOK /\ Init => Queue!Init
    BY DEF Init, NoTask, Queued, Queue!Init
  <1>2. ASSUME TypeOK, OwnerInv, QueueInv, Gapless, QueueInv', Gapless', [Next]_vars
        PROVE  [Queue!Next]_(Queue!queueVars)
    <2>1. ASSUME NEW t \in Tasks, Admit(t)
          PROVE  Queue!Next
      BY <1>2, <2>1, JoinStep DEF Queue!Next
    <2>2. CASE \A t \in Tasks : ~Admit(t)
      BY <1>2, <2>2, AllowedNext, QueueStep
    <2> QED BY <2>1, <2>2
  <1> QED BY <1>1, <1>2, TypeCorrect, OwnerHolds, QueueHolds, GaplessHolds, PTL
          DEF Spec, QueueSpec, Queue!Spec

----
\* OneSession

\* Some task was dispatched.
Started == \E t \in Tasks : task[t].dispatch_attempts > 0

\* The points that a run reaches only with the session id on file.
SessionPcs == ActivePcs \ {"find", "create", "attach", "active", "recover", "fail_context", "hold"}

\* At most one worker can be about to look for or create a session, and none
\* exists then: a first dispatch never comes back, because a context without a
\* session that lost its first task is failed.
OneCreator ==
    /\ \A w \in Workers : loc[w].pc = "create" => cma.sessions = 0
    /\ \A v, w \in Workers :
          loc[v].pc \in {"find", "create"} /\ loc[w].pc \in {"find", "create"} => v = w
    /\ (\E w \in Workers : loc[w].pc \in {"find", "create"}) => Started
    /\ cma.sessions > 0 => Started

FirstOnce ==
    Started /\ ~ctx.cma_session /\ ctx.active_task = None => ctx.lifecycle_state = "failed"

OwnerSession(w) ==
    Owns(w) =>
        /\ loc[w].pc = "activate" => ctx.lifecycle_state # "failed"
        /\ loc[w].pc \in {"finish", "clear"} /\ ~ctx.cma_session => ctx.lifecycle_state = "failed"
        /\ loc[w].pc \in SessionPcs => ctx.cma_session

SessionInv == OneSession /\ OneCreator /\ FirstOnce /\ \A w \in Workers : OwnerSession(w)

\* What a step on the way does to the session: a search may lead to a creation,
\* a creation adds one session, and only the lease holder stores the session or
\* fails the context.
SessionMoves(w) ==
    /\ \/ cma'.sessions = cma.sessions
       \/ loc[w].pc = "create" /\ cma'.sessions = cma.sessions + 1 /\ loc'[w].pc # "create"
    /\ loc'[w].pc # "find"
    /\ loc'[w].pc = "create" => loc[w].pc = "find" /\ cma.sessions = 0
    /\ ctx.cma_session => ctx'.cma_session
    /\ \/ ctx'.lifecycle_state = ctx.lifecycle_state
       \/ Owns(w) /\ (ctx'.cma_session \/ ctx'.lifecycle_state = "failed")
    /\ loc'[w].pc \in SessionPcs => loc[w].pc \in SessionPcs \/ ctx'.cma_session
    /\ loc'[w].pc = "finish" => loc[w].pc \in SessionPcs \/ ctx'.lifecycle_state = "failed"

\* The steps before the session is on file.
LEMMA SessionEarly ==
    ASSUME TypeOK, NEW w \in Workers,
           \/ FindSession(w) \/ CreateSession(w) \/ AttachSession(w)
           \/ RecoverSession(w) \/ ListActive(w) \/ FailContext(w) \/ HoldTask(w)
    PROVE  SessionMoves(w)
  <1>0. /\ cma.sessions \in Nat /\ ctx \in ContextRow /\ loc \in [Workers -> Local]
        /\ cma \in [sessions: Nat, unlisted: Tasks \cup {None}]
    BY DEF TypeOK, LocalOK
  <1> USE DEF SessionPcs, ActivePcs
  <1>1. CASE FindSession(w)
    <2>1. loc'[w].pc = IF cma.sessions > 0 THEN "attach" ELSE "create"
      BY <1>1, GotoMoves DEF FindSession
    <2> QED BY <1>0, <1>1, <2>1 DEF FindSession, At, SessionMoves
  <1>2. CASE CreateSession(w)
    <2>1. loc'[w].pc \in {"attach", "hold", "fail_context"}
      BY <1>2, GotoMoves, OutcomeMoves DEF CreateSession, Hold
    <2>2. cma'.sessions = cma.sessions \/ cma'.sessions = cma.sessions + 1
      BY <1>0, <1>2 DEF CreateSession
    <2> QED BY <1>2, <2>1, <2>2 DEF CreateSession, At, SessionMoves
  <1>3. CASE AttachSession(w)
    <2>1. ctx'.cma_session = TRUE /\ Owns(w) /\ UNCHANGED cma
      BY <1>0, <1>3 DEF AttachSession, ContextRow
    <2>2. loc'[w].pc \in {"initial", "active"}
      BY <1>3, GotoMoves DEF AttachSession
    <2> QED BY <2>1, <2>2 DEF SessionMoves
  <1>4. CASE RecoverSession(w)
    <2>1. loc'[w].pc \in {"recover", "hold"}
      BY <1>4, GotoMoves, OutcomeMoves DEF RecoverSession, Hold
    <2> QED BY <1>4, <2>1 DEF RecoverSession, SessionMoves
  <1>5. CASE ListActive(w)
    <2>1. ctx.cma_session /\ UNCHANGED <<ctx, cma>>
      BY <1>5 DEF ListActive
    <2>2. loc'[w].pc \in {"hold", "bind_found", "cancel", "confirmations"}
      <3>1. \/ Hold(w, "ambiguous-dispatch")
            \/ \E e \in Nat, p \in {"bind_found", "cancel", "confirmations"} :
                  loc' = [loc EXCEPT ![w] = [@ EXCEPT !.snap = Len(hist), !.ev = e, !.pc = p]]
        <4>1. FirstOf(EventsOf({"message"}, task[loc[w].task].predecessor, Len(hist))) \in Nat
          BY ListingType
        <4> QED BY <1>5, <4>1 DEF ListActive
      <3>2. CASE Hold(w, "ambiguous-dispatch")
        BY <3>2, OutcomeMoves DEF Hold
      <3>3. ASSUME NEW e \in Nat, NEW p \in {"bind_found", "cancel", "confirmations"},
                   loc' = [loc EXCEPT ![w] = [@ EXCEPT !.snap = Len(hist), !.ev = e, !.pc = p]]
            PROVE  loc'[w].pc = p
        BY <1>0, <3>3 DEF Local
      <3> QED BY <3>1, <3>2, <3>3
    <2> QED BY <2>1, <2>2 DEF SessionMoves
  <1>6. CASE FailContext(w)
    <2>1. /\ ctx'.lifecycle_state = "failed" /\ ctx'.cma_session = ctx.cma_session
          /\ Owns(w) /\ UNCHANGED cma
      BY <1>0, <1>6 DEF FailContext, ContextRow
    <2>2. loc'[w].pc = "finish"
      BY <1>6, GotoMoves DEF FailContext
    <2> QED BY <2>1, <2>2 DEF SessionMoves
  <1>7. CASE HoldTask(w)
    <2>1. loc'[w].pc = "release" /\ UNCHANGED <<ctx, cma>>
      BY <1>7, GotoMoves DEF HoldTask
    <2> QED BY <2>1 DEF SessionMoves
  <1> QED BY <1>1, <1>2, <1>3, <1>4, <1>5, <1>6, <1>7

\* The steps after it: they start at a session point and never go back.
LEMMA SessionLate ==
    ASSUME TypeOK, NEW w \in Workers, MoveStep(w),
           ~(\/ FindSession(w) \/ CreateSession(w) \/ AttachSession(w)
             \/ RecoverSession(w) \/ ListActive(w) \/ FailContext(w) \/ HoldTask(w))
    PROVE  SessionMoves(w)
  <1>0. loc \in [Workers -> Local]
    BY DEF TypeOK, LocalOK
  <1>1. loc[w].pc \in SessionPcs /\ UNCHANGED <<ctx, cma>>
    BY DEF MoveStep, CallStep, ReviewStep, InitialInput, ReadStatus, EvaluateReview, Recheck,
           ReconcileConfirmations, CancelSettled, CancelOpen, SendMessage, ConfirmTool, Interrupt,
           DiscoverReview, RecordDecision, MarkConfirmation, ResolveReview, CancelBlocked,
           BindInput, SetRunning, StorePolicyHold, SetWaiting, HoldConfirmation, SettleHold,
           MarkInterrupt, At, SessionPcs, ActivePcs, Pcs
  <1>2. loc'[w].pc \notin {"find", "create"}
    <2>1. CASE \/ InitialInput(w) \/ SendMessage(w) \/ Interrupt(w) \/ ConfirmTool(w)
               \/ CancelSettled(w) \/ CancelOpen(w)
      <3>1. \/ \E p \in {"release", "mark", "resolve", "confirm_lost"} : Goto(w, p)
            \/ \E p \in {"hold", "finish", "fail_context"}, o \in HeldReasons \cup A2aStates :
                  GotoWith(w, p, o)
            \/ \E e : loc' = [loc EXCEPT ![w] = [@ EXCEPT !.pc = "bind_initial", !.ev = e]]
            \/ \E e : loc' = [loc EXCEPT ![w] = [@ EXCEPT !.pc = "bind_sent", !.ev = e]]
        BY <2>1 DEF InitialInput, SendMessage, Interrupt, ConfirmTool, CancelSettled, CancelOpen,
                    Hold, HeldReasons, A2aStates
      <3>2. ASSUME NEW e, NEW p \in {"bind_initial", "bind_sent"},
                   loc' = [loc EXCEPT ![w] = [@ EXCEPT !.pc = p, !.ev = e]]
            PROVE  loc'[w].pc = p
        BY <1>0, <3>2 DEF Local
      <3> QED BY <3>1, <3>2, GotoMoves, OutcomeMoves
    <2>2. CASE \/ Recheck(w) \/ ReconcileConfirmations(w) \/ DiscoverReview(w) \/ ResolveReview(w)
               \/ CancelBlocked(w) \/ SetRunning(w) \/ SetWaiting(w) \/ HoldConfirmation(w)
               \/ MarkInterrupt(w)
      <3>1. \E p \in Pcs \ {"find", "create"} : Goto(w, p)
        BY <2>2 DEF Recheck, ReconcileConfirmations, DiscoverReview, ResolveReview, CancelBlocked,
                    SetRunning, SetWaiting, HoldConfirmation, MarkInterrupt, Pcs
      <3> QED BY <3>1, GotoMoves
    <2>3. CASE SettleHold(w)
      BY <2>3, GotoMoves DEF SettleHold
    <2>4. CASE StorePolicyHold(w) \/ RecordDecision(w)
      BY <2>4, GotoMoves, OutcomeMoves DEF StorePolicyHold, RecordDecision
    <2>5. CASE EvaluateReview(w)
      <3>1. \/ Goto(w, "release")
            \/ \E p \in {"recheck", "wait", "policy"}, o \in A2aStates \cup HeldReasons :
                  GotoWith(w, p, o)
        BY <2>5 DEF EvaluateReview, A2aStates, HeldReasons
      <3> QED BY <3>1, GotoMoves, OutcomeMoves
    <2>6. CASE MarkConfirmation(w)
      <3>1. \/ loc' = [loc EXCEPT ![w] = [@ EXCEPT
                           !.pc = "confirm", !.says = task[loc[w].task].decision,
                           !.ev = task[loc[w].task].asked]]
            \/ loc' = [loc EXCEPT ![w] = [@ EXCEPT !.pc = "settle"]]
        BY <2>6 DEF MarkConfirmation
      <3>2. loc'[w].pc \in {"confirm", "settle"}
        BY <1>0, <3>1 DEF Local
      <3> QED BY <3>2
    <2>7. CASE BindInput(w)
      <3>1. PICK p \in {"release", "active", "cancel", "confirmations"} :
               loc' = [loc EXCEPT ![w] = [@ EXCEPT
                           !.cancel = task[loc[w].task].cancel_requested, !.pc = p]]
        BY <2>7 DEF BindInput, At
      <3>2. loc'[w].pc = p
        BY <1>0, <3>1 DEF Local
      <3> QED BY <3>2
    <2>8. CASE ReadStatus(w)
      <3>1. loc'[w].pc \in {"release", "running", "review", "discover", "fail_context", "finish"}
        <4> DEFINE status == LatestStatus(task[loc[w].task].input_event, Len(hist))
        <4>1. status \in Statuses \cup {"none"}
          <5>1. \A i \in EventsOf(Statuses, task[loc[w].task].input_event, Len(hist)) :
                   hist[i].kind \in Statuses
            BY DEF EventsOf
          <5> QED BY <5>1 DEF LatestStatus, LastOf
        <4>2. \/ Goto(w, "release") \/ Goto(w, "running")
              \/ \E p \in {"review", "discover"} :
                    loc' = [loc EXCEPT ![w] = [@ EXCEPT !.pc = p, !.snap = Len(hist)]]
              \/ GotoWith(w, "fail_context", "FAILED") \/ GotoWith(w, "finish", "COMPLETED")
          BY <2>8, <4>1 DEF ReadStatus, Statuses
        <4>3. ASSUME NEW p \in {"review", "discover"},
                     loc' = [loc EXCEPT ![w] = [@ EXCEPT !.pc = p, !.snap = Len(hist)]]
              PROVE  loc'[w].pc = p
          BY <1>0, <4>3 DEF Local
        <4> QED BY <4>2, <4>3, GotoMoves, OutcomeMoves
      <3> QED BY <3>1
    <2> QED BY <2>1, <2>2, <2>3, <2>4, <2>5, <2>6, <2>7, <2>8 DEF MoveStep, CallStep, ReviewStep
  <1> QED BY <1>1, <1>2 DEF SessionMoves

\* The same for all of them.
LEMMA SessionShape ==
    ASSUME TypeOK, NEW w \in Workers, MoveStep(w)
    PROVE  SessionMoves(w)
  BY SessionEarly, SessionLate

\* The steps on the way keep the session's invariant.
LEMMA SessionMove ==
    ASSUME TypeOK, SessionInv, NEW w \in Workers, Moves(w), SessionMoves(w)
    PROVE  SessionInv'
  <1>0. cma.sessions \in Nat
    BY DEF TypeOK
  <1>1. Started' <=> Started
    BY DEF Started, Moves
  <1>2. OneSession'
    BY <1>0 DEF SessionInv, OneSession, OneCreator, SessionMoves
  <1>3. OneCreator'
    <2>1. ASSUME NEW v \in Workers, loc'[v].pc \in {"find", "create"}
          PROVE  loc[v].pc \in {"find", "create"}
      BY <2>1 DEF Moves, SessionMoves
    <2>2. ASSUME NEW v \in Workers, loc'[v].pc = "create" PROVE cma'.sessions = 0
      <3>1. CASE v = w
        BY <2>2, <3>1 DEF SessionMoves
      <3>2. CASE v # w
        <4>1. loc[v].pc = "create"
          BY <2>2, <3>2 DEF Moves
        <4>2. loc[w].pc # "create"
          BY <3>2, <4>1 DEF SessionInv, OneCreator
        <4> QED BY <4>1, <4>2 DEF SessionInv, OneCreator, SessionMoves
      <3> QED BY <3>1, <3>2
    <2>3. \A v, u \in Workers :
             loc'[v].pc \in {"find", "create"} /\ loc'[u].pc \in {"find", "create"} => v = u
      BY <2>1 DEF SessionInv, OneCreator
    <2>4. (\E v \in Workers : loc'[v].pc \in {"find", "create"}) => Started
      BY <2>1 DEF SessionInv, OneCreator
    <2>5. cma'.sessions > 0 => Started
      BY DEF SessionInv, OneCreator, SessionMoves
    <2> QED BY <1>1, <2>2, <2>3, <2>4, <2>5 DEF OneCreator
  <1>4. FirstOnce'
    BY <1>1 DEF SessionInv, FirstOnce, Moves, SessionMoves
  <1>5. ASSUME NEW v \in Workers PROVE OwnerSession(v)'
    <2> SUFFICES ASSUME Owns(v)' PROVE OwnerSession(v)'
      BY DEF OwnerSession
    <2>0. Owns(v)
      BY DEF Owns, Moves
    <2>1. CASE v = w
      BY <2>0, <2>1 DEF SessionInv, OwnerSession, Moves, SessionMoves, ActivePcs, SessionPcs
    <2>2. CASE v # w
      <3>1. ~Owns(w) /\ loc'[v] = loc[v]
        BY <2>0, <2>2 DEF Owns, Moves
      <3> QED BY <2>0, <3>1 DEF SessionInv, OwnerSession, SessionMoves
    <2> QED BY <2>1, <2>2
  <1> QED BY <1>2, <1>3, <1>4, <1>5 DEF SessionInv

\* A step that leaves the session, the lifecycle, the pointer and the attempts
\* alone, and moves workers only to points that need no session.
LEMMA SessionFrame ==
    ASSUME TypeOK, SessionInv,
           cma'.sessions = cma.sessions,
           ctx'.cma_session = ctx.cma_session,
           ctx'.lifecycle_state = ctx.lifecycle_state,
           ctx'.active_task = ctx.active_task,
           \A u \in Tasks : task'[u].dispatch_attempts = task[u].dispatch_attempts,
           \A v \in Workers :
              \/ loc'[v].pc = loc[v].pc /\ (Owns(v)' => Owns(v))
              \/ loc'[v].pc \in {"idle", "reconcile", "active", "release"}
              \/ loc[v].pc = "finish" /\ loc'[v].pc = "clear" /\ (Owns(v)' => Owns(v))
    PROVE  SessionInv'
  <1>1. Started' <=> Started
    BY DEF Started
  <1>2. OneCreator'
    <2>1. \A v \in Workers : loc'[v].pc \in {"find", "create"} => loc'[v].pc = loc[v].pc
      OBVIOUS
    <2> QED BY <1>1, <2>1 DEF SessionInv, OneCreator
  <1>3. FirstOnce' /\ OneSession'
    BY <1>1 DEF SessionInv, FirstOnce, OneSession
  <1>4. \A v \in Workers : OwnerSession(v)'
    BY DEF SessionInv, OwnerSession, SessionPcs, ActivePcs
  <1> QED BY <1>2, <1>3, <1>4 DEF SessionInv

\* The service and the operator: failing the first task of a context that has no
\* session fails the context.
LEMMA SessionClient ==
    ASSUME TypeOK, SessionInv, NEW t \in Tasks,
           Admit(t) \/ CancelTask(t) \/ AdminFail(t) \/ AdminRetry(t)
    PROVE  SessionInv'
  <1>0. task \in [Tasks -> TaskRow] /\ ctx \in ContextRow
    BY DEF TypeOK
  <1>1. CASE Admit(t)
    <2>1. /\ ctx'.cma_session = ctx.cma_session /\ ctx'.lifecycle_state = ctx.lifecycle_state
          /\ ctx'.active_task = ctx.active_task
          /\ \A v \in Workers : Owns(v)' = Owns(v)
      BY <1>0, <1>1 DEF Admit, ContextRow, Owns
    <2>2. \A u \in Tasks : task'[u].dispatch_attempts = task[u].dispatch_attempts
      BY <1>0, <1>1 DEF Admit, TaskRow
    <2> QED BY <1>1, <2>1, <2>2, SessionFrame DEF Admit
  <1>2. CASE CancelTask(t)
    <2>1. \A u \in Tasks : task'[u].dispatch_attempts = task[u].dispatch_attempts
      <3>1. CASE task' = [task EXCEPT ![t] = [@ EXCEPT
                     !.internal_state = "terminal", !.a2a_state = "CANCELED"]]
        BY <1>0, <3>1 DEF TaskRow
      <3>2. CASE task' = [task EXCEPT ![t] = [@ EXCEPT !.cancel_requested = TRUE]]
        BY <1>0, <3>2 DEF TaskRow
      <3> QED BY <1>2, <3>1, <3>2 DEF CancelTask
    <2> QED BY <1>2, <2>1, SessionFrame DEF CancelTask, Owns
  <1>3. CASE AdminFail(t) \/ AdminRetry(t)
    <2>1. \A u \in Tasks : task'[u].dispatch_attempts = task[u].dispatch_attempts
      <3>1. CASE AdminFail(t)
        BY <1>0, <3>1 DEF AdminFail, TaskRow
      <3>2. CASE AdminRetry(t)
        BY <1>0, <3>2 DEF AdminRetry, TaskRow
      <3> QED BY <1>3, <3>1, <3>2
    <2>2. Started' <=> Started
      BY <2>1 DEF Started
    <2>3. /\ ctx'.cma_session = ctx.cma_session
          /\ ctx'.cma_session \/ ctx'.lifecycle_state = "failed"
          /\ ctx'.claim = None
      BY <1>0, <1>3 DEF AdminFail, AdminRetry, ContextRow
    <2>4. \A v \in Workers : ~Owns(v)'
      BY <2>3, NoneAssumption DEF Owns
    <2>5. UNCHANGED <<cma, loc>>
      BY <1>3 DEF AdminFail, AdminRetry
    <2>6. OneSession' /\ OneCreator'
      BY <2>2, <2>5 DEF SessionInv, OneSession, OneCreator
    <2>7. FirstOnce' /\ \A v \in Workers : OwnerSession(v)'
      BY <2>3, <2>4 DEF FirstOnce, OwnerSession
    <2> QED BY <2>6, <2>7 DEF SessionInv
  <1> QED BY <1>1, <1>2, <1>3

\* Lease steps, faults, the provider and the steps that fit the frame.
LEMMA SessionOther ==
    ASSUME TypeOK, SessionInv,
           \/ \E w \in Workers :
                 \/ ClaimScheduler(w) \/ ReleaseScheduler(w) \/ LoseClaim(w) \/ Raise(w) \/ Crash(w)
                 \/ ReconcileNothing(w) \/ ReconcileActive(w) \/ FinishTask(w)
           \/ Provider \/ LeaseExpires
    PROVE  SessionInv'
  <1>0. /\ loc \in [Workers -> Local] /\ ctx \in ContextRow /\ task \in [Tasks -> TaskRow]
        /\ cma \in [sessions: Nat, unlisted: Tasks \cup {None}]
        /\ \A v \in Workers : LocalFits(loc[v])
    BY DEF TypeOK, LocalOK
  <1>1. ASSUME NEW w \in Workers,
               \/ ClaimScheduler(w) \/ ReleaseScheduler(w) \/ LoseClaim(w) \/ Raise(w) \/ Crash(w)
               \/ ReconcileNothing(w) \/ ReconcileActive(w) \/ FinishTask(w)
        PROVE  SessionInv'
    <2>1. /\ ctx'.cma_session = ctx.cma_session /\ ctx'.lifecycle_state = ctx.lifecycle_state
          /\ ctx'.active_task = ctx.active_task
          /\ UNCHANGED cma
      BY <1>0, <1>1 DEF ClaimScheduler, ReleaseScheduler, LoseClaim, Raise, Crash,
             ReconcileNothing, ReconcileActive, FinishTask, ContextRow
    <2>2. \A u \in Tasks : task'[u].dispatch_attempts = task[u].dispatch_attempts
      <3>1. CASE FinishTask(w)
        <4>1. loc[w].task \in Tasks
          BY <1>0, <3>1 DEF FinishTask, At, LocalFits
        <4> QED BY <1>0, <3>1, <4>1 DEF FinishTask, TaskRow
      <3>2. CASE ~FinishTask(w)
        BY <1>1, <3>2 DEF ClaimScheduler, ReleaseScheduler, LoseClaim, Raise, Crash,
               ReconcileNothing, ReconcileActive
      <3> QED BY <3>1, <3>2
    <2>3. /\ \A v \in Workers \ {w} : loc'[v] = loc[v]
          /\ \/ loc'[w].pc \in {"idle", "reconcile", "active", "release"}
             \/ loc[w].pc = "finish" /\ loc'[w].pc = "clear" /\ UNCHANGED ctx
      <3>1. CASE ReleaseScheduler(w) \/ Crash(w)
        BY <1>0, <3>1 DEF ReleaseScheduler, Crash, IdleLocal
      <3>2. CASE ReconcileActive(w)
        BY <1>0, <3>2 DEF ReconcileActive, Local
      <3>3. CASE FinishTask(w)
        BY <3>3, GotoMoves DEF FinishTask, At
      <3>4. CASE ~(ReleaseScheduler(w) \/ Crash(w) \/ ReconcileActive(w) \/ FinishTask(w))
        <4>1. Goto(w, "reconcile") \/ Goto(w, "release")
          BY <1>1, <3>4 DEF ClaimScheduler, LoseClaim, Raise, ReconcileNothing
        <4> QED BY <4>1, GotoMoves
      <3> QED BY <3>1, <3>2, <3>3, <3>4
    <2>4. \A v \in Workers \ {w} : Owns(v)' => Owns(v)
      BY <1>0, <1>1 DEF ClaimScheduler, ReleaseScheduler, LoseClaim, Raise, Crash,
             ReconcileNothing, ReconcileActive, FinishTask, ContextRow, Owns
    <2>5. \A v \in Workers :
              \/ loc'[v].pc = loc[v].pc /\ (Owns(v)' => Owns(v))
              \/ loc'[v].pc \in {"idle", "reconcile", "active", "release"}
              \/ loc[v].pc = "finish" /\ loc'[v].pc = "clear" /\ (Owns(v)' => Owns(v))
      BY <2>3, <2>4 DEF Owns
    <2> QED BY <2>1, <2>2, <2>5, SessionFrame
  <1>2. CASE Provider
    <2>1. UNCHANGED <<ctx, task, loc>> /\ cma'.sessions = cma.sessions
      BY <1>0, <1>2 DEF Provider, ProviderListsInitial, ProviderRuns, ProviderRests,
                  ProviderYields, ProviderStops
    <2> QED BY <2>1, SessionFrame DEF Owns
  <1>3. CASE LeaseExpires
    <2>1. /\ UNCHANGED <<task, loc, cma>>
          /\ ctx'.cma_session = ctx.cma_session /\ ctx'.lifecycle_state = ctx.lifecycle_state
          /\ ctx'.active_task = ctx.active_task
          /\ \A v \in Workers : ~Owns(v)'
      BY <1>0, <1>3 DEF LeaseExpires, ContextRow, Owns
    <2> QED BY <2>1, SessionFrame
  <1> QED BY <1>1, <1>2, <1>3

\* Only the first dispatch of a context looks for a session, and no one else can
\* be looking for one then.
LEMMA SessionPick ==
    ASSUME TypeOK, SessionInv, NEW w \in Workers,
           ReconcileQueued(w) \/ ActivateTask(w) \/ ClearActive(w)
    PROVE  SessionInv'
  <1> DEFINE t == loc[w].task
  <1>0. /\ loc \in [Workers -> Local] /\ ctx \in ContextRow /\ task \in [Tasks -> TaskRow]
        /\ LocalFits(loc[w])
        /\ cma.sessions \in Nat
        /\ \A u \in Tasks : task[u].dispatch_attempts \in Nat
    BY DEF TypeOK, LocalOK, TaskRow
  <1>c. /\ ctx'.claim = ctx.claim /\ ctx'.lease_live = ctx.lease_live
        /\ ctx'.cma_session = ctx.cma_session /\ ctx'.lifecycle_state = ctx.lifecycle_state
        /\ UNCHANGED cma
    BY <1>0 DEF ReconcileQueued, ActivateTask, ClearActive, ContextRow
  <1>1. CASE ReconcileQueued(w)
    <2>1. PICK u \in Tasks : loc' = [loc EXCEPT ![w] =
                IF ctx.lifecycle_state = "failed"
                THEN [loc[w] EXCEPT !.pc = "finish", !.task = u, !.out = "FAILED"]
                ELSE [loc[w] EXCEPT !.pc = "activate", !.task = u,
                               !.snap = IF ctx.cma_session THEN Len(hist) ELSE 0]]
      BY <1>1 DEF ReconcileQueued
    <2>2. /\ \A v \in Workers \ {w} : loc'[v] = loc[v]
          /\ ctx.lifecycle_state = "failed" => loc'[w].pc = "finish"
          /\ ctx.lifecycle_state # "failed" => loc'[w].pc = "activate"
      <3>1. CASE ctx.lifecycle_state = "failed"
        BY <1>0, <2>1, <3>1 DEF Local
      <3>2. CASE ctx.lifecycle_state # "failed"
        BY <1>0, <2>1, <3>2 DEF Local
      <3> QED BY <3>1, <3>2
    <2>3. UNCHANGED <<ctx, task>>
      BY <1>1 DEF ReconcileQueued
    <2>4. OneSession' /\ OneCreator' /\ FirstOnce'
      BY <1>c, <2>2, <2>3 DEF SessionInv, OneSession, OneCreator, FirstOnce, Started
    <2>5. \A v \in Workers : OwnerSession(v)'
      BY <2>2, <2>3 DEF SessionInv, OwnerSession, Owns, SessionPcs, ActivePcs
    <2> QED BY <2>4, <2>5 DEF SessionInv
  <1>2. CASE ActivateTask(w)
    <2>0. t \in Tasks /\ Owns(w) /\ loc[w].pc = "activate"
      BY <1>0, <1>2 DEF ActivateTask, At, LocalFits
    <2>l. \A v \in Workers \ {w} : loc'[v] = loc[v] /\ ~Owns(v)'
      BY <1>2, <1>c, <2>0, GotoMoves DEF ActivateTask, Owns
    <2>1. CASE ctx.active_task = None /\ Queued(t)
      <3>1. ctx'.active_task = t
        BY <1>0, <1>2, <2>1 DEF ActivateTask, ContextRow
      <3>2. Started'
        <4>1. task' = [task EXCEPT ![t] = [@ EXCEPT
                 !.internal_state = "dispatching", !.predecessor = loc[w].snap,
                 !.dispatch_attempts = task[t].dispatch_attempts + 1]]
          BY <1>2, <2>1 DEF ActivateTask
        <4>2. task'[t].dispatch_attempts = task[t].dispatch_attempts + 1
          BY <1>0, <2>0, <4>1 DEF TaskRow
        <4> QED BY <1>0, <2>0, <4>2 DEF Started
      <3>3. CASE ctx.cma_session
        <4>1. loc'[w].pc = "send"
          BY <1>2, <2>1, <3>3, GotoMoves DEF ActivateTask
        <4>2. OneSession' /\ OneCreator' /\ FirstOnce'
          BY <1>c, <2>l, <3>2, <3>3, <4>1 DEF SessionInv, OneSession, OneCreator, FirstOnce
        <4>3. \A v \in Workers : OwnerSession(v)'
          BY <1>c, <2>l, <3>3, <4>1 DEF OwnerSession
        <4> QED BY <4>2, <4>3 DEF SessionInv
      <3>4. CASE ~ctx.cma_session
        <4>1. loc'[w].pc = "find"
          BY <1>2, <2>1, <3>4, GotoMoves DEF ActivateTask
        <4>2. ~Started
          BY <2>0, <2>1, <3>4 DEF SessionInv, OwnerSession, FirstOnce
        <4>3. cma.sessions = 0 /\ \A v \in Workers : loc[v].pc \notin {"find", "create"}
          BY <1>0, <4>2 DEF SessionInv, OneCreator
        <4>4. OneSession' /\ OneCreator' /\ FirstOnce'
          BY <1>c, <2>0, <2>l, <3>1, <3>2, <4>1, <4>3, NoneAssumption
             DEF SessionInv, OneSession, OneCreator, FirstOnce
        <4>5. \A v \in Workers : OwnerSession(v)'
          BY <2>l, <4>1 DEF OwnerSession, SessionPcs
        <4> QED BY <4>4, <4>5 DEF SessionInv
      <3> QED BY <3>3, <3>4
    <2>2. CASE ~(ctx.active_task = None /\ Queued(t))
      <3>1. UNCHANGED <<ctx, task>> /\ loc'[w].pc = "release"
        BY <1>2, <2>2, GotoMoves DEF ActivateTask
      <3> QED BY <1>c, <2>l, <3>1, SessionFrame
    <2> QED BY <2>1, <2>2
  <1>3. CASE ClearActive(w)
    <2>0. Owns(w) /\ loc[w].pc = "clear" /\ UNCHANGED task
      BY <1>3 DEF ClearActive, At
    <2>1. loc'[w].pc = "release" /\ \A v \in Workers \ {w} : loc'[v] = loc[v] /\ ~Owns(v)'
      BY <1>3, <1>c, <2>0, GotoMoves DEF ClearActive, Owns
    <2>2. FirstOnce'
      BY <1>c, <2>0 DEF SessionInv, OwnerSession, FirstOnce
    <2>3. OneSession' /\ OneCreator'
      BY <1>c, <2>0, <2>1 DEF SessionInv, OneSession, OneCreator, Started
    <2>4. \A v \in Workers : OwnerSession(v)'
      BY <2>1 DEF OwnerSession, SessionPcs, ActivePcs
    <2> QED BY <2>2, <2>3, <2>4 DEF SessionInv
  <1> QED BY <1>1, <1>2, <1>3

\* The session's invariant holds in every reachable state.
LEMMA SessionHolds == Spec => []SessionInv
  <1>1. Init => SessionInv
    BY NoneAssumption
       DEF Init, SessionInv, OneSession, OneCreator, FirstOnce, OwnerSession, Started, Owns,
           NoTask, IdleLocal
  <1>2. TypeOK /\ SessionInv /\ [Next]_vars => SessionInv'
    <2> SUFFICES ASSUME TypeOK, SessionInv, [Next]_vars PROVE SessionInv'
      OBVIOUS
    <2>1. CASE Next
      BY <2>1, NextMoves, SessionClient, SessionOther, SessionPick, MoveShape, SessionShape,
         SessionMove
    <2>2. CASE UNCHANGED vars
      BY <2>2, SessionFrame DEF vars, Owns
    <2> QED BY <2>1, <2>2
  <1> QED BY <1>1, <1>2, TypeCorrect, PTL DEF Spec

\* A context never gets a second CMA session: not after lost answers to a create,
\* crashes between a create and its attach, workers that outlive their lease, or
\* an operator who fails the task that was to create it.
THEOREM SessionOnce == Spec => []OneSession
  BY SessionHolds, PTL DEF SessionInv

----
\* What the steps on the way leave alone

\* The points at which a run is about to make or to record a call that must not be
\* repeated, and the ones that lead there.
CallPcs == {"find", "create", "attach", "initial", "send", "bind_sent", "bind_initial",
            "bind_found", "mark", "interrupt"}

\* The steps that lead to them.
CallingStep(w) ==
    \/ FindSession(w) \/ CreateSession(w) \/ AttachSession(w) \/ InitialInput(w)
    \/ SendMessage(w) \/ ListActive(w) \/ CancelOpen(w) \/ MarkInterrupt(w)

\* No other step on the way leads to one of them.
LEMMA PlainTarget ==
    ASSUME TypeOK, NEW w \in Workers, MoveStep(w), ~CallingStep(w)
    PROVE  loc'[w].pc \notin CallPcs
  <1>0. loc \in [Workers -> Local]
    BY DEF TypeOK, LocalOK
  <1> USE DEF CallPcs
  <1>1. CASE RecoverSession(w) \/ CancelSettled(w)
    BY <1>1, GotoMoves, OutcomeMoves DEF RecoverSession, CancelSettled, Hold
  <1>2. CASE Interrupt(w) \/ ConfirmTool(w)
    BY <1>2, GotoMoves, OutcomeMoves DEF Interrupt, ConfirmTool, Hold
  <1>3. CASE \/ Recheck(w) \/ ReconcileConfirmations(w) \/ DiscoverReview(w) \/ ResolveReview(w)
             \/ CancelBlocked(w) \/ SetRunning(w) \/ SetWaiting(w) \/ HoldConfirmation(w)
             \/ FailContext(w) \/ HoldTask(w)
    <2>1. \E p \in Pcs \ CallPcs : Goto(w, p)
      BY <1>3 DEF Recheck, ReconcileConfirmations, DiscoverReview, ResolveReview, CancelBlocked,
                  SetRunning, SetWaiting, HoldConfirmation, FailContext, HoldTask, Pcs
    <2> QED BY <2>1, GotoMoves
  <1>4. CASE SettleHold(w)
    BY <1>4, GotoMoves DEF SettleHold
  <1>5. CASE StorePolicyHold(w) \/ RecordDecision(w)
    BY <1>5, GotoMoves, OutcomeMoves DEF StorePolicyHold, RecordDecision
  <1>6. CASE EvaluateReview(w)
    <2>1. \/ Goto(w, "release")
          \/ \E p \in {"recheck", "wait", "policy"}, o \in A2aStates \cup HeldReasons :
                GotoWith(w, p, o)
      BY <1>6 DEF EvaluateReview, A2aStates, HeldReasons
    <2> QED BY <2>1, GotoMoves, OutcomeMoves
  <1>7. CASE MarkConfirmation(w)
    <2>1. \/ loc' = [loc EXCEPT ![w] = [@ EXCEPT
                         !.pc = "confirm", !.says = task[loc[w].task].decision,
                           !.ev = task[loc[w].task].asked]]
          \/ loc' = [loc EXCEPT ![w] = [@ EXCEPT !.pc = "settle"]]
      BY <1>7 DEF MarkConfirmation
    <2>2. loc'[w].pc \in {"confirm", "settle"}
      BY <1>0, <2>1 DEF Local
    <2> QED BY <2>2
  <1>8. CASE BindInput(w)
    <2>1. PICK p \in {"release", "active", "cancel", "confirmations"} :
             loc' = [loc EXCEPT ![w] = [@ EXCEPT
                         !.cancel = task[loc[w].task].cancel_requested, !.pc = p]]
      BY <1>8 DEF BindInput, At
    <2>2. loc'[w].pc = p
      BY <1>0, <2>1 DEF Local
    <2> QED BY <2>2
  <1>9. CASE ReadStatus(w)
    <2> DEFINE status == LatestStatus(task[loc[w].task].input_event, Len(hist))
    <2>1. status \in Statuses \cup {"none"}
      <3>1. \A i \in EventsOf(Statuses, task[loc[w].task].input_event, Len(hist)) :
               hist[i].kind \in Statuses
        BY DEF EventsOf
      <3> QED BY <3>1 DEF LatestStatus, LastOf
    <2>2. \/ Goto(w, "release") \/ Goto(w, "running")
          \/ \E p \in {"review", "discover"} :
                loc' = [loc EXCEPT ![w] = [@ EXCEPT !.pc = p, !.snap = Len(hist)]]
          \/ GotoWith(w, "fail_context", "FAILED") \/ GotoWith(w, "finish", "COMPLETED")
      BY <1>9, <2>1 DEF ReadStatus, Statuses
    <2>3. ASSUME NEW p \in {"review", "discover"},
                 loc' = [loc EXCEPT ![w] = [@ EXCEPT !.pc = p, !.snap = Len(hist)]]
          PROVE  loc'[w].pc = p
      BY <1>0, <2>3 DEF Local
    <2> QED BY <2>2, <2>3, GotoMoves, OutcomeMoves
  <1> QED BY <1>1, <1>2, <1>3, <1>4, <1>5, <1>6, <1>7, <1>8, <1>9
          DEF MoveStep, CallStep, ReviewStep, CallingStep

\* The steps that open a review, rule on it or mark its confirmation.
RulingStep(w) ==
    \/ DiscoverReview(w) \/ RecordDecision(w) \/ MarkConfirmation(w) \/ CancelBlocked(w)

\* The review of the task stays as it is, or is resolved.
ReviewKept(u) ==
    /\ task'[u].asked = task[u].asked
    /\ task'[u].decision = task[u].decision
    /\ task'[u].attempted = task[u].attempted
    /\ task'[u].request = "pending" => task[u].request = "pending"

\* Of the rows, these steps leave predecessor and attempts alone; only a committed mark
\* sets cancel_attempted, and only _bind_input() sets the input event.
RowKept(w, u) ==
    /\ task'[u].dispatch_attempts = task[u].dispatch_attempts
    /\ task'[u].predecessor = task[u].predecessor
    /\ task'[u].cancel_attempted = task[u].cancel_attempted \/ MarkInterrupt(w)
    /\ task'[u].input_event = task[u].input_event \/ BindInput(w)
    /\ ReviewKept(u) \/ RulingStep(w)

LEMMA RowsMove ==
    ASSUME TypeOK, NEW w \in Workers, MoveStep(w)
    PROVE  \A u \in Tasks : RowKept(w, u)
  <1> DEFINE t == loc[w].task
  <1>0. /\ task \in [Tasks -> TaskRow]
        /\ t \in Tasks /\ task[t] \in TaskRow
    BY MoveShape DEF TypeOK, LocalOK, LocalFits, Moves, ActivePcs
  <1>1. CASE UNCHANGED task
    BY <1>1 DEF RowKept, ReviewKept
  <1>2. CASE BindInput(w)
    BY <1>0, <1>2 DEF BindInput, TaskRow, RowKept, ReviewKept, RulingStep
  <1>3. CASE SetRunning(w)
    BY <1>0, <1>3 DEF SetRunning, TaskRow, RowKept, ReviewKept, RulingStep
  <1>4. CASE StorePolicyHold(w)
    BY <1>0, <1>4 DEF StorePolicyHold, TaskRow, RowKept, ReviewKept, RulingStep
  <1>5. CASE SetWaiting(w)
    BY <1>0, <1>5 DEF SetWaiting, TaskRow, RowKept, ReviewKept, RulingStep
  <1>6. CASE HoldConfirmation(w)
    BY <1>0, <1>6 DEF HoldConfirmation, TaskRow, RowKept, ReviewKept, RulingStep
  <1>7. CASE SettleHold(w)
    BY <1>0, <1>7 DEF SettleHold, TaskRow, RowKept, ReviewKept, RulingStep
  <1>8. CASE MarkInterrupt(w)
    BY <1>0, <1>8 DEF MarkInterrupt, TaskRow, RowKept, ReviewKept, RulingStep
  <1>9. CASE HoldTask(w)
    BY <1>0, <1>9 DEF HoldTask, TaskRow, RowKept, ReviewKept, RulingStep
  <1>10. CASE DiscoverReview(w)
    BY <1>0, <1>10 DEF DiscoverReview, TaskRow, RowKept, ReviewKept, RulingStep
  <1>11. CASE RecordDecision(w)
    <2>1. RulingStep(w)
      BY <1>11 DEF RulingStep
    <2> QED BY <1>0, <1>11, <2>1 DEF RecordDecision, TaskRow, RowKept
  <1>12. CASE MarkConfirmation(w)
    BY <1>0, <1>12 DEF MarkConfirmation, TaskRow, RowKept, ReviewKept, RulingStep
  <1>13. CASE ResolveReview(w)
    BY <1>0, <1>13 DEF ResolveReview, TaskRow, RowKept, ReviewKept, RulingStep
  <1>14. CASE CancelBlocked(w)
    BY <1>0, <1>14 DEF CancelBlocked, TaskRow, RowKept, ReviewKept, RulingStep
  <1>15. \/ UNCHANGED task
         \/ BindInput(w) \/ SetRunning(w) \/ StorePolicyHold(w) \/ SetWaiting(w)
         \/ HoldConfirmation(w) \/ SettleHold(w) \/ MarkInterrupt(w) \/ HoldTask(w)
         \/ ReviewStep(w)
    BY DEF MoveStep, CallStep, FindSession, InitialInput, RecoverSession, ListActive, ReadStatus,
           EvaluateReview, Recheck, ReconcileConfirmations, CancelSettled, CancelOpen,
           CreateSession, SendMessage, ConfirmTool, Interrupt, AttachSession, FailContext
  <1> QED BY <1>1, <1>2, <1>3, <1>4, <1>5, <1>6, <1>7, <1>8, <1>9, <1>10, <1>11, <1>12, <1>13,
             <1>14, <1>15 DEF ReviewStep

\* Apart from a first message the provider adds statuses.
LEMMA ProviderAppends ==
    ASSUME Provider, ~ProviderListsInitial
    PROVE  \E k \in EventKinds \ {"message", "interrupt", "allow", "deny"} : Append1(k, None)
  BY BoundsAssumption DEF Provider, ProviderRuns, ProviderRests, ProviderYields, ProviderStops,
         EventKinds, Statuses

\* Only a call changes what the provider holds.
LEMMA QuietMove ==
    ASSUME NEW w \in Workers, MoveStep(w), ~CallStep(w)
    PROVE  UNCHANGED <<hist, cma>>
  BY DEF MoveStep, ReviewStep, FindSession, InitialInput, RecoverSession, ListActive, ReadStatus,
         EvaluateReview, Recheck, ReconcileConfirmations, CancelSettled, CancelOpen,
         DiscoverReview, RecordDecision, MarkConfirmation, ResolveReview, CancelBlocked,
         AttachSession, FailContext, BindInput, SetRunning, StorePolicyHold, SetWaiting,
         HoldConfirmation, SettleHold, MarkInterrupt, HoldTask

----
\* CallsMarked

\* Workers whose activation is committed and whose message is still to be sent.
Dispatching(t) ==
    {w \in Workers : loc[w].pc \in {"find", "create", "send"} /\ loc[w].task = t}

Interrupting == {w \in Workers : loc[w].pc = "interrupt"}

Marked == {t \in Tasks : task[t].cancel_attempted}

Interrupts == EventsOf({"interrupt"}, 0, Len(hist))

\* A first message that the provider holds and does not list yet.
Unlisted(t) == IF cma.unlisted = t THEN 1 ELSE 0

\* Every message that is accepted, unlisted or still to be sent has an attempt of its own.
AttemptInv(t) ==
    /\ IsFiniteSet(Dispatching(t))
    /\ Cardinality(Sent(t)) + Unlisted(t) + Cardinality(Dispatching(t)) <= task[t].dispatch_attempts

\* Every interrupt that is sent or still to be sent has a marked task of its own, and
\* the lease holder about to mark a task is the first to do so.
InterruptInv ==
    /\ IsFiniteSet(Interrupting) /\ IsFiniteSet(Marked)
    /\ Cardinality(Interrupts) + Cardinality(Interrupting) <= Cardinality(Marked)
    /\ \A w \in Workers :
          Owns(w) /\ loc[w].pc = "mark" => ~task[loc[w].task].cancel_attempted

MarkInv == (\A t \in Tasks : AttemptInv(t)) /\ InterruptInv

\* What an appended event adds to the listings.
LEMMA AppendListed ==
    ASSUME TypeOK, NEW k \in EventKinds, NEW u \in Tasks \cup {None}, Grows(k, u)
    PROVE  /\ \A t \in Tasks : Sent(t)' = IF k = "message" /\ u = t
                                          THEN Sent(t) \cup {Len(hist) + 1} ELSE Sent(t)
           /\ Interrupts' = IF k = "interrupt" THEN Interrupts \cup {Len(hist) + 1} ELSE Interrupts
           /\ Len(hist) + 1 \notin Interrupts
           /\ \A t \in Tasks : Len(hist) + 1 \notin Sent(t)
  <1>1. PICK n \in Nat : n = Len(hist)
    BY DEF TypeOK
  <1>2. /\ Len(hist') = n + 1
        /\ \A i \in 1..n : hist'[i] = hist[i]
        /\ hist'[n + 1].kind = k /\ hist'[n + 1].task = u
    <2>1. PICK a \in Nat : Answer(k, u, a)
      BY DEF Grows
    <2> QED BY <1>1, <2>1 DEF TypeOK, Answer, Event
  <1>3. 1..(n + 1) = 1..n \cup {n + 1} /\ n + 1 \notin 1..n
    BY <1>1
  <1>4. ASSUME NEW t \in Tasks
        PROVE  Sent(t)' = IF k = "message" /\ u = t THEN Sent(t) \cup {n + 1} ELSE Sent(t)
    BY <1>1, <1>2, <1>3 DEF Sent
  <1>5. Interrupts = {i \in 1..n : hist[i].kind = "interrupt"}
    BY <1>1 DEF Interrupts, EventsOf
  <1>6. Interrupts' = {i \in 1..(n + 1) : hist'[i].kind = "interrupt"}
    BY <1>1, <1>2 DEF Interrupts, EventsOf
  <1>7. Interrupts' = IF k = "interrupt" THEN Interrupts \cup {n + 1} ELSE Interrupts
    BY <1>2, <1>3, <1>5, <1>6
  <1>8. n + 1 \notin Interrupts /\ \A t \in Tasks : n + 1 \notin Sent(t)
    BY <1>1, <1>3, <1>5 DEF Sent
  <1> QED BY <1>1, <1>4, <1>7, <1>8

\* The listings are finite.
LEMMA ListedFinite ==
    ASSUME TypeOK
    PROVE  /\ IsFiniteSet(Interrupts) /\ Cardinality(Interrupts) \in Nat
           /\ \A t \in Tasks : IsFiniteSet(Sent(t)) /\ Cardinality(Sent(t)) \in Nat
  <1>1. IsFiniteSet(1..Len(hist))
    BY FS_Interval DEF TypeOK
  <1>2. Interrupts \subseteq 1..Len(hist) /\ \A t \in Tasks : Sent(t) \subseteq 1..Len(hist)
    BY DEF Interrupts, EventsOf, Sent
  <1> QED BY <1>1, <1>2, FS_Subset, FS_CardinalityType

\* One element more, one element less.
LEMMA CountAdd ==
    ASSUME NEW S, IsFiniteSet(S), NEW x, x \notin S
    PROVE  IsFiniteSet(S \cup {x}) /\ Cardinality(S \cup {x}) = Cardinality(S) + 1
  BY FS_AddElement

LEMMA CountLess ==
    ASSUME NEW S, IsFiniteSet(S), NEW x \in S, NEW T, T \subseteq S \ {x}
    PROVE  /\ IsFiniteSet(T) /\ Cardinality(T) \in Nat /\ Cardinality(S) \in Nat
           /\ Cardinality(T) + 1 <= Cardinality(S)
  <1>1. IsFiniteSet(S \ {x}) /\ Cardinality(S \ {x}) = Cardinality(S) - 1
    BY FS_RemoveElement
  <1>2. IsFiniteSet(T) /\ Cardinality(T) <= Cardinality(S \ {x})
    BY <1>1, FS_Subset
  <1> QED BY <1>1, <1>2, FS_CardinalityType

LEMMA CountSubset ==
    ASSUME NEW S, IsFiniteSet(S), NEW T, T \subseteq S
    PROVE  /\ IsFiniteSet(T) /\ Cardinality(T) \in Nat /\ Cardinality(S) \in Nat
           /\ Cardinality(T) <= Cardinality(S)
  BY FS_Subset, FS_CardinalityType

\* Nobody gets to a call, and no row and no event that counts is written.
LEMMA MarkFrame ==
    ASSUME TypeOK, MarkInv,
           \A u \in Tasks : /\ task'[u].dispatch_attempts = task[u].dispatch_attempts
                            /\ task'[u].cancel_attempted = task[u].cancel_attempted,
           cma'.unlisted = cma.unlisted,
           \/ UNCHANGED hist
           \/ \E k \in EventKinds \ {"message", "interrupt"}, u \in Tasks \cup {None} : Grows(k, u),
           \A v \in Workers :
              /\ loc'[v].pc \in {"find", "create", "send"} =>
                     loc[v].pc \in {"find", "create", "send"} /\ loc'[v].task = loc[v].task
              /\ loc'[v].pc = "interrupt" => loc[v].pc = "interrupt"
              /\ Owns(v)' /\ loc'[v].pc = "mark" => ~task[loc'[v].task].cancel_attempted,
           \A v \in Workers : loc'[v].pc = "mark" => loc'[v].task \in Tasks
    PROVE  MarkInv'
  <1>1. /\ \A t \in Tasks : Sent(t)' = Sent(t)
        /\ Interrupts' = Interrupts
    <2>1. CASE UNCHANGED hist
      BY <2>1 DEF Sent, Interrupts, EventsOf
    <2>2. ASSUME NEW k \in EventKinds \ {"message", "interrupt"}, NEW u \in Tasks \cup {None},
                 Grows(k, u)
          PROVE  (\A t \in Tasks : Sent(t)' = Sent(t)) /\ Interrupts' = Interrupts
      BY <2>2, AppendListed
    <2> QED BY <2>1, <2>2
  <1>2. ASSUME NEW t \in Tasks PROVE AttemptInv(t)'
    <2>0. AttemptInv(t)
      BY DEF MarkInv
    <2>1. Dispatching(t)' \subseteq Dispatching(t)
      BY DEF Dispatching
    <2>2. /\ IsFiniteSet(Dispatching(t)')
          /\ Cardinality(Dispatching(t)') \in Nat /\ Cardinality(Dispatching(t)) \in Nat
          /\ Cardinality(Dispatching(t)') <= Cardinality(Dispatching(t))
      BY <2>0, <2>1, CountSubset DEF AttemptInv
    <2>3. Unlisted(t)' = Unlisted(t) /\ Unlisted(t) \in Nat
      BY DEF Unlisted
    <2>4. task[t].dispatch_attempts \in Nat /\ Cardinality(Sent(t)) \in Nat
      BY ListedFinite DEF TypeOK, TaskRow
    <2> QED BY <1>1, <2>0, <2>2, <2>3, <2>4 DEF AttemptInv
  <1>3. InterruptInv'
    <2>0. InterruptInv
      BY DEF MarkInv
    <2>1. Interrupting' \subseteq Interrupting /\ Marked' = Marked
      BY DEF Interrupting, Marked
    <2>2. /\ IsFiniteSet(Interrupting')
          /\ Cardinality(Interrupting') \in Nat /\ Cardinality(Interrupting) \in Nat
          /\ Cardinality(Interrupting') <= Cardinality(Interrupting)
      BY <2>0, <2>1, CountSubset DEF InterruptInv
    <2>3. Cardinality(Interrupts) \in Nat /\ Cardinality(Marked) \in Nat
      BY <2>0, ListedFinite, FS_CardinalityType DEF InterruptInv
    <2>4. Cardinality(Interrupts') + Cardinality(Interrupting') <= Cardinality(Marked')
      BY <1>1, <2>0, <2>1, <2>2, <2>3 DEF InterruptInv
    <2> QED BY <2>0, <2>1, <2>2, <2>4 DEF InterruptInv
  <1> QED BY <1>2, <1>3 DEF MarkInv

\* Outside a run nobody gets the lease.
LEMMA LeaseKept ==
    ASSUME TypeOK,
           \/ \E t \in Tasks : Admit(t) \/ CancelTask(t) \/ AdminFail(t) \/ AdminRetry(t)
           \/ LeaseExpires
    PROVE  \A v \in Workers : Owns(v)' => Owns(v)
  <1>0. ctx \in ContextRow
    BY DEF TypeOK
  <1>1. CASE \E t \in Tasks : Admit(t)
    BY <1>0, <1>1 DEF Admit, ContextRow, Owns
  <1>2. CASE \E t \in Tasks : CancelTask(t)
    BY <1>2 DEF CancelTask, Owns
  <1>3. CASE \E t \in Tasks : AdminFail(t) \/ AdminRetry(t)
    BY <1>0, <1>3 DEF AdminFail, AdminRetry, ContextRow, Owns
  <1>4. CASE LeaseExpires
    BY <1>0, <1>4 DEF LeaseExpires, ContextRow, Owns
  <1> QED BY <1>1, <1>2, <1>3, <1>4

\* The service, the operator and the lease: no worker gets to a call.
LEMMA MarkOutside ==
    ASSUME TypeOK, MarkInv,
           \/ \E t \in Tasks : Admit(t) \/ CancelTask(t) \/ AdminFail(t) \/ AdminRetry(t)
           \/ LeaseExpires
    PROVE  MarkInv'
  <1>0. /\ task \in [Tasks -> TaskRow] /\ ctx \in ContextRow
        /\ \A v \in Workers : loc[v].pc = "mark" => loc[v].task \in Tasks
    BY DEF TypeOK, LocalOK, LocalFits
  <1>1. UNCHANGED <<hist, cma, loc>>
    BY DEF Admit, CancelTask, AdminFail, AdminRetry, LeaseExpires
  <1>2. \A u \in Tasks : /\ task'[u].dispatch_attempts = task[u].dispatch_attempts
                         /\ task'[u].cancel_attempted = task[u].cancel_attempted
    <2>1. ASSUME NEW t \in Tasks, Admit(t)
          PROVE  \A u \in Tasks : /\ task'[u].dispatch_attempts = task[u].dispatch_attempts
                                  /\ task'[u].cancel_attempted = task[u].cancel_attempted
      BY <1>0, <2>1 DEF Admit, TaskRow
    <2>2. ASSUME NEW t \in Tasks, CancelTask(t)
          PROVE  \A u \in Tasks : /\ task'[u].dispatch_attempts = task[u].dispatch_attempts
                                  /\ task'[u].cancel_attempted = task[u].cancel_attempted
      <3>1. CASE task' = [task EXCEPT ![t] = [@ EXCEPT
                     !.internal_state = "terminal", !.a2a_state = "CANCELED"]]
        BY <1>0, <3>1 DEF TaskRow
      <3>2. CASE task' = [task EXCEPT ![t] = [@ EXCEPT !.cancel_requested = TRUE]]
        BY <1>0, <3>2 DEF TaskRow
      <3> QED BY <2>2, <3>1, <3>2 DEF CancelTask
    <2>3. ASSUME NEW t \in Tasks, AdminFail(t)
          PROVE  \A u \in Tasks : /\ task'[u].dispatch_attempts = task[u].dispatch_attempts
                                  /\ task'[u].cancel_attempted = task[u].cancel_attempted
      BY <1>0, <2>3 DEF AdminFail, TaskRow
    <2>4. ASSUME NEW t \in Tasks, AdminRetry(t)
          PROVE  \A u \in Tasks : /\ task'[u].dispatch_attempts = task[u].dispatch_attempts
                                  /\ task'[u].cancel_attempted = task[u].cancel_attempted
      BY <1>0, <2>4 DEF AdminRetry, TaskRow
    <2>5. CASE LeaseExpires
      BY <2>5 DEF LeaseExpires
    <2> QED BY <2>1, <2>2, <2>3, <2>4, <2>5
  <1>3. \A v \in Workers : Owns(v)' => Owns(v)
    BY LeaseKept
  <1>4. \A v \in Workers : Owns(v)' /\ loc'[v].pc = "mark" => ~task[loc'[v].task].cancel_attempted
    BY <1>1, <1>3 DEF MarkInv, InterruptInv
  <1> QED BY <1>0, <1>1, <1>2, <1>4, MarkFrame

\* The start and the end of a run leave the provider alone and lead to no call.
LEMMA RunEnds ==
    ASSUME TypeOK, NEW w \in Workers,
           \/ ClaimScheduler(w) \/ ReleaseScheduler(w) \/ LoseClaim(w) \/ Raise(w) \/ Crash(w)
           \/ ReconcileActive(w) \/ ReconcileQueued(w) \/ ReconcileNothing(w)
           \/ FinishTask(w) \/ ClearActive(w)
    PROVE  /\ UNCHANGED <<hist, cma>>
           /\ \A v \in Workers \ {w} : loc'[v] = loc[v]
           /\ loc'[w].pc \in {"idle", "reconcile", "active", "activate", "finish", "clear", "release"}
           /\ \A v \in Workers \ {w} : Owns(v)' => Owns(v)
  <1>0. loc \in [Workers -> Local] /\ ctx \in ContextRow
    BY DEF TypeOK, LocalOK
  <1>1. UNCHANGED <<hist, cma>>
    BY DEF ClaimScheduler, ReleaseScheduler, LoseClaim, Raise, Crash, ReconcileActive,
           ReconcileQueued, ReconcileNothing, FinishTask, ClearActive
  <1>2. /\ \A v \in Workers \ {w} : loc'[v] = loc[v]
        /\ loc'[w].pc \in {"idle", "reconcile", "active", "activate", "finish", "clear", "release"}
    <2>1. CASE ReleaseScheduler(w) \/ Crash(w)
      BY <1>0, <2>1 DEF ReleaseScheduler, Crash, IdleLocal
    <2>2. CASE ReconcileActive(w)
      BY <1>0, <2>2 DEF ReconcileActive, Local
    <2>3. CASE ReconcileQueued(w)
      <3>1. PICK u \in Tasks : loc' = [loc EXCEPT ![w] =
                  IF ctx.lifecycle_state = "failed"
                  THEN [loc[w] EXCEPT !.pc = "finish", !.task = u, !.out = "FAILED"]
                  ELSE [loc[w] EXCEPT !.pc = "activate", !.task = u,
                                 !.snap = IF ctx.cma_session THEN Len(hist) ELSE 0]]
        BY <2>3 DEF ReconcileQueued
      <3>2. CASE ctx.lifecycle_state = "failed"
        BY <1>0, <3>1, <3>2 DEF Local
      <3>3. CASE ctx.lifecycle_state # "failed"
        BY <1>0, <3>1, <3>3 DEF Local
      <3> QED BY <3>2, <3>3
    <2>4. CASE ~(ReleaseScheduler(w) \/ Crash(w) \/ ReconcileActive(w) \/ ReconcileQueued(w))
      <3>1. \E p \in {"reconcile", "release", "clear"} : Goto(w, p)
        BY <2>4 DEF ClaimScheduler, LoseClaim, Raise, ReconcileNothing, FinishTask, ClearActive
      <3> QED BY <3>1, GotoMoves
    <2> QED BY <2>1, <2>2, <2>3, <2>4
  <1>3. \A v \in Workers \ {w} : Owns(v)' => Owns(v)
    BY <1>0 DEF ClaimScheduler, ReleaseScheduler, LoseClaim, Raise, Crash, ReconcileActive,
           ReconcileQueued, ReconcileNothing, FinishTask, ClearActive, ContextRow, Owns
  <1> QED BY <1>1, <1>2, <1>3

\* The start and the end of a run.
LEMMA MarkEnds ==
    ASSUME TypeOK, MarkInv, NEW w \in Workers,
           \/ ClaimScheduler(w) \/ ReleaseScheduler(w) \/ LoseClaim(w) \/ Raise(w) \/ Crash(w)
           \/ ReconcileActive(w) \/ ReconcileQueued(w) \/ ReconcileNothing(w)
           \/ FinishTask(w) \/ ClearActive(w)
    PROVE  MarkInv'
  <1>0. /\ loc \in [Workers -> Local] /\ ctx \in ContextRow /\ task \in [Tasks -> TaskRow]
        /\ \A v \in Workers : LocalFits(loc[v])
    BY DEF TypeOK, LocalOK
  <1>1. UNCHANGED <<hist, cma>>
    BY RunEnds
  <1>2. \A u \in Tasks : /\ task'[u].dispatch_attempts = task[u].dispatch_attempts
                         /\ task'[u].cancel_attempted = task[u].cancel_attempted
    <2>1. CASE FinishTask(w)
      <3>1. loc[w].task \in Tasks
        BY <1>0, <2>1 DEF FinishTask, At, LocalFits
      <3> QED BY <1>0, <2>1, <3>1 DEF FinishTask, TaskRow
    <2>2. CASE ~FinishTask(w)
      BY <2>2 DEF ClaimScheduler, ReleaseScheduler, LoseClaim, Raise, Crash, ReconcileActive,
             ReconcileQueued, ReconcileNothing, ClearActive
    <2> QED BY <2>1, <2>2
  <1>3. /\ \A v \in Workers \ {w} : loc'[v] = loc[v]
        /\ loc'[w].pc \notin {"find", "create", "send", "interrupt", "mark"}
    BY RunEnds
  <1>4. \A v \in Workers \ {w} : Owns(v)' => Owns(v)
    BY RunEnds
  <1>5. \A v \in Workers : loc[v].pc = "mark" => loc[v].task \in Tasks
    BY <1>0 DEF LocalFits
  <1>6. ASSUME NEW v \in Workers
        PROVE  /\ loc'[v].pc \in {"find", "create", "send"} =>
                     loc[v].pc \in {"find", "create", "send"} /\ loc'[v].task = loc[v].task
               /\ loc'[v].pc = "interrupt" => loc[v].pc = "interrupt"
               /\ Owns(v)' /\ loc'[v].pc = "mark" => ~task[loc'[v].task].cancel_attempted
               /\ loc'[v].pc = "mark" => loc'[v].task \in Tasks
    <2>1. CASE v = w
      BY <1>3, <2>1
    <2>2. CASE v # w
      BY <1>3, <1>4, <1>5, <2>2 DEF MarkInv, InterruptInv
    <2> QED BY <2>1, <2>2
  <1> QED BY <1>1, <1>2, <1>6, MarkFrame

\* The provider: a first message that was accepted is listed.
LEMMA MarkProvider ==
    ASSUME TypeOK, MarkInv, Provider
    PROVE  MarkInv'
  <1>0. /\ cma \in [sessions: Nat, unlisted: Tasks \cup {None}]
        /\ \A v \in Workers : loc[v].pc = "mark" => loc[v].task \in Tasks
    BY DEF TypeOK, LocalOK, LocalFits
  <1>1. CASE ~ProviderListsInitial
    <2>1. UNCHANGED <<ctx, task, cma, loc>>
      BY <1>1 DEF Provider, ProviderRuns, ProviderRests, ProviderYields, ProviderStops
    <2>2. \E k \in EventKinds \ {"message", "interrupt"}, u \in Tasks \cup {None} : Grows(k, u)
      BY <1>1, ProviderAppends, AppendGrows
    <2>3. \A v \in Workers : Owns(v)' <=> Owns(v)
      BY <2>1 DEF Owns
    <2>4. \A v \in Workers : Owns(v)' /\ loc'[v].pc = "mark" => ~task[loc'[v].task].cancel_attempted
      BY <2>1, <2>3 DEF MarkInv, InterruptInv
    <2> QED BY <1>0, <2>1, <2>2, <2>4, MarkFrame
  <1>2. CASE ProviderListsInitial
    <2>1. PICK u \in Tasks : u = cma.unlisted
      BY <1>0, <1>2 DEF ProviderListsInitial
    <2>2. /\ Grows("message", u) /\ UNCHANGED <<ctx, task, loc>>
          /\ cma'.unlisted = None
      BY <1>0, <1>2, <2>1, AppendGrows DEF ProviderListsInitial
    <2>3. /\ \A t \in Tasks : Sent(t)' = IF u = t THEN Sent(t) \cup {Len(hist) + 1} ELSE Sent(t)
          /\ Interrupts' = Interrupts
          /\ \A t \in Tasks : Len(hist) + 1 \notin Sent(t)
      BY <2>2, AppendListed DEF EventKinds
    <2>4. ASSUME NEW t \in Tasks PROVE AttemptInv(t)'
      <3>1. Dispatching(t)' = Dispatching(t)
        BY <2>2 DEF Dispatching
      <3>2. Unlisted(t)' = 0 /\ Unlisted(t) = IF u = t THEN 1 ELSE 0
        BY <2>1, <2>2, NoneAssumption DEF Unlisted
      <3>3. IsFiniteSet(Sent(t)) /\ Cardinality(Sent(t)) \in Nat
        BY ListedFinite
      <3>4. Cardinality(Sent(t)') = IF u = t THEN Cardinality(Sent(t)) + 1 ELSE Cardinality(Sent(t))
        BY <2>3, <3>3, CountAdd
      <3>5. AttemptInv(t) /\ Cardinality(Dispatching(t)) \in Nat /\ task[t].dispatch_attempts \in Nat
        BY FS_CardinalityType DEF MarkInv, AttemptInv, TypeOK, TaskRow
      <3> QED BY <2>2, <3>1, <3>2, <3>3, <3>4, <3>5 DEF AttemptInv
    <2>5. InterruptInv'
      <3>1. Interrupting' = Interrupting /\ Marked' = Marked
        BY <2>2 DEF Interrupting, Marked
      <3> QED BY <2>2, <2>3, <3>1 DEF MarkInv, InterruptInv, Owns
    <2> QED BY <2>4, <2>5 DEF MarkInv
  <1> QED BY <1>1, <1>2

\* activate_task() commits the attempt with which a run gets to a dispatch.
LEMMA MarkActivate ==
    ASSUME TypeOK, MarkInv, NEW w \in Workers, ActivateTask(w)
    PROVE  MarkInv'
  <1>0. /\ loc \in [Workers -> Local] /\ ctx \in ContextRow /\ task \in [Tasks -> TaskRow]
        /\ \A v \in Workers : loc[v].pc = "mark" => loc[v].task \in Tasks
    BY DEF TypeOK, LocalOK, LocalFits
  <1>1. PICK t \in Tasks : t = loc[w].task
    BY DEF TypeOK, LocalOK, LocalFits, ActivateTask, At
  <1>2. /\ loc[w].pc = "activate" /\ Owns(w) /\ UNCHANGED <<hist, cma>>
        /\ \A v \in Workers : Owns(v)' <=> Owns(v)
    BY <1>0 DEF ActivateTask, At, ContextRow, Owns
  <1>3. CASE ctx.active_task = None /\ Queued(t)
    <2>1. /\ loc'[w].pc \in {"find", "send"} /\ loc'[w].task = t
          /\ \A v \in Workers \ {w} : loc'[v] = loc[v]
      BY <1>1, <1>3, GotoMoves DEF ActivateTask
    <2>2. task' = [task EXCEPT ![t] = [@ EXCEPT
             !.internal_state = "dispatching", !.predecessor = loc[w].snap,
             !.dispatch_attempts = task[t].dispatch_attempts + 1]]
      BY <1>1, <1>3 DEF ActivateTask
    <2>3. /\ \A u \in Tasks : task'[u].cancel_attempted = task[u].cancel_attempted
          /\ \A u \in Tasks \ {t} : task'[u] = task[u]
          /\ task'[t].dispatch_attempts = task[t].dispatch_attempts + 1
      BY <1>0, <2>2 DEF TaskRow
    <2>4. ASSUME NEW u \in Tasks PROVE AttemptInv(u)'
      <3>0. /\ AttemptInv(u) /\ Cardinality(Dispatching(u)) \in Nat
            /\ task[u].dispatch_attempts \in Nat
            /\ Cardinality(Sent(u)) \in Nat /\ Unlisted(u) \in Nat
        BY FS_CardinalityType, ListedFinite DEF MarkInv, AttemptInv, TypeOK, TaskRow, Unlisted
      <3>1. Sent(u)' = Sent(u) /\ Unlisted(u)' = Unlisted(u)
        BY <1>2 DEF Sent, Unlisted
      <3>2. CASE u = t
        <4>1. Dispatching(u)' = Dispatching(u) \cup {w} /\ w \notin Dispatching(u)
          BY <1>2, <2>1, <3>2 DEF Dispatching
        <4>2. /\ IsFiniteSet(Dispatching(u)')
              /\ Cardinality(Dispatching(u)') = Cardinality(Dispatching(u)) + 1
          BY <3>0, <4>1, CountAdd DEF AttemptInv
        <4> QED BY <2>3, <3>0, <3>1, <3>2, <4>2 DEF AttemptInv
      <3>3. CASE u # t
        <4>1. Dispatching(u)' = Dispatching(u)
          BY <1>2, <2>1, <3>3 DEF Dispatching
        <4> QED BY <2>3, <3>0, <3>1, <3>3, <4>1 DEF AttemptInv
      <3> QED BY <3>2, <3>3
    <2>5. InterruptInv'
      <3>1. Interrupting' = Interrupting /\ Marked' = Marked /\ Interrupts' = Interrupts
        BY <1>2, <2>1, <2>3 DEF Interrupting, Marked, Interrupts, EventsOf
      <3>2. ASSUME NEW v \in Workers, Owns(v)', loc'[v].pc = "mark"
            PROVE  ~task'[loc'[v].task].cancel_attempted
        BY <1>0, <1>2, <2>1, <2>3, <3>2 DEF MarkInv, InterruptInv
      <3> QED BY <3>1, <3>2 DEF MarkInv, InterruptInv
    <2> QED BY <2>4, <2>5 DEF MarkInv
  <1>4. CASE ~(ctx.active_task = None /\ Queued(t))
    <2>1. /\ UNCHANGED task /\ loc'[w].pc = "release"
          /\ \A v \in Workers \ {w} : loc'[v] = loc[v]
      BY <1>1, <1>4, GotoMoves DEF ActivateTask
    <2>2. \A v \in Workers : Owns(v)' /\ loc'[v].pc = "mark" => ~task[loc'[v].task].cancel_attempted
      BY <1>2, <2>1 DEF MarkInv, InterruptInv
    <2> QED BY <1>0, <1>2, <2>1, <2>2, MarkFrame
  <1> QED BY <1>3, <1>4

\* The steps on the way that neither send nor mark.
LEMMA MarkQuiet ==
    ASSUME TypeOK, MarkInv, NEW w \in Workers, MoveStep(w),
           ~(CreateSession(w) \/ SendMessage(w) \/ MarkInterrupt(w) \/ Interrupt(w))
    PROVE  MarkInv'
  <1>0. /\ loc \in [Workers -> Local] /\ Moves(w) /\ loc[w].task \in Tasks
        /\ \A v \in Workers : loc[v].pc = "mark" => loc[v].task \in Tasks
    BY MoveShape DEF TypeOK, LocalOK, LocalFits, Moves, ActivePcs
  <1>1. \A u \in Tasks : /\ task'[u].dispatch_attempts = task[u].dispatch_attempts
                         /\ task'[u].cancel_attempted = task[u].cancel_attempted
    BY RowsMove DEF RowKept
  <1>2. /\ UNCHANGED cma
        /\ \/ UNCHANGED hist
           \/ \E k \in EventKinds \ {"message", "interrupt"}, u \in Tasks \cup {None} : Grows(k, u)
    <2>1. CASE ~CallStep(w)
      BY <2>1, QuietMove
    <2>2. CASE ConfirmTool(w)
      <3>1. UNCHANGED cma
        BY <2>2 DEF ConfirmTool
      <3> QED BY <2>2, <3>1, ConfirmGrows DEF EventKinds, Statuses
    <2> QED BY <2>1, <2>2 DEF CallStep
  <1>3. /\ loc'[w].pc \in {"find", "create", "send"} => loc[w].pc = "find"
        /\ loc'[w].pc # "interrupt"
        /\ loc'[w].pc = "mark" => ~task[loc[w].task].cancel_attempted
    <2>1. CASE ~CallingStep(w)
      BY <2>1, PlainTarget DEF CallPcs
    <2>2. CASE FindSession(w)
      BY <2>2, GotoMoves DEF FindSession, At
    <2>3. CASE AttachSession(w)
      BY <2>3, GotoMoves DEF AttachSession
    <2>4. CASE InitialInput(w)
      <3>1. \/ Hold(w, "initial-input-not-visible")
            \/ \E e : loc' = [loc EXCEPT ![w] = [@ EXCEPT !.pc = "bind_initial", !.ev = e]]
        BY <2>4 DEF InitialInput
      <3>2. ASSUME NEW e, loc' = [loc EXCEPT ![w] = [@ EXCEPT !.pc = "bind_initial", !.ev = e]]
            PROVE  loc'[w].pc = "bind_initial"
        BY <1>0, <3>2 DEF Local
      <3>3. CASE Hold(w, "initial-input-not-visible")
        BY <3>3, OutcomeMoves DEF Hold
      <3> QED BY <3>1, <3>2, <3>3
    <2>5. CASE ListActive(w)
      <3>1. \/ Hold(w, "ambiguous-dispatch")
            \/ \E e \in Nat, p \in {"bind_found", "cancel", "confirmations"} :
                  loc' = [loc EXCEPT ![w] = [@ EXCEPT !.snap = Len(hist), !.ev = e, !.pc = p]]
        <4>1. FirstOf(EventsOf({"message"}, task[loc[w].task].predecessor, Len(hist))) \in Nat
          BY ListingType
        <4> QED BY <2>5, <4>1 DEF ListActive
      <3>2. ASSUME NEW e \in Nat, NEW p \in {"bind_found", "cancel", "confirmations"},
                   loc' = [loc EXCEPT ![w] = [@ EXCEPT !.snap = Len(hist), !.ev = e, !.pc = p]]
            PROVE  loc'[w].pc = p
        BY <1>0, <3>2 DEF Local
      <3>3. CASE Hold(w, "ambiguous-dispatch")
        BY <3>3, OutcomeMoves DEF Hold
      <3> QED BY <3>1, <3>2, <3>3
    <2>6. CASE CancelOpen(w)
      BY <2>6, GotoMoves, OutcomeMoves DEF CancelOpen, Hold
    <2> QED BY <2>1, <2>2, <2>3, <2>4, <2>5, <2>6 DEF CallingStep
  <1>4. \A v \in Workers : Owns(v)' <=> Owns(v)
    BY <1>0 DEF Moves, Owns
  <1>5. ASSUME NEW v \in Workers
        PROVE  /\ loc'[v].pc \in {"find", "create", "send"} =>
                     loc[v].pc \in {"find", "create", "send"} /\ loc'[v].task = loc[v].task
               /\ loc'[v].pc = "interrupt" => loc[v].pc = "interrupt"
               /\ Owns(v)' /\ loc'[v].pc = "mark" => ~task[loc'[v].task].cancel_attempted
               /\ loc'[v].pc = "mark" => loc'[v].task \in Tasks
    <2>1. CASE v = w
      BY <1>0, <1>3, <2>1 DEF Moves
    <2>2. CASE v # w
      BY <1>0, <1>4, <2>2 DEF Moves, MarkInv, InterruptInv
    <2> QED BY <2>1, <2>2
  <1> QED BY <1>1, <1>2, <1>5, MarkFrame

\* A message leaves with the worker that was to send it.
LEMMA MarkSend ==
    ASSUME TypeOK, MarkInv, NEW w \in Workers, CreateSession(w) \/ SendMessage(w)
    PROVE  MarkInv'
  <1>0. /\ loc \in [Workers -> Local] /\ cma \in [sessions: Nat, unlisted: Tasks \cup {None}]
        /\ \A v \in Workers : loc[v].pc = "mark" => loc[v].task \in Tasks
    BY DEF TypeOK, LocalOK, LocalFits
  <1>1. PICK t \in Tasks : t = loc[w].task
    BY DEF TypeOK, LocalOK, LocalFits, CreateSession, SendMessage, At
  <1>m. Moves(w)
    BY MoveCall DEF CallStep
  <1>2. loc[w].pc \in {"create", "send"} /\ UNCHANGED <<ctx, task>>
    BY DEF CreateSession, SendMessage, At
  <1>3. loc'[w].pc \notin {"find", "create", "send", "interrupt", "mark"}
    <2>1. CASE CreateSession(w)
      BY <2>1, GotoMoves, OutcomeMoves DEF CreateSession, Hold
    <2>2. CASE SendMessage(w)
      <3>1. \/ loc' = [loc EXCEPT ![w] = [@ EXCEPT !.pc = "bind_sent", !.ev = Len(hist) + 1]]
            \/ \E r \in HeldReasons : GotoWith(w, "hold", r)
            \/ GotoWith(w, "finish", "FAILED")
        BY <2>2 DEF SendMessage, Hold, HeldReasons
      <3>2. CASE loc' = [loc EXCEPT ![w] = [@ EXCEPT !.pc = "bind_sent", !.ev = Len(hist) + 1]]
        BY <1>0, <3>2 DEF Local
      <3> QED BY <3>1, <3>2, OutcomeMoves
    <2> QED BY <2>1, <2>2
  <1>4. \A v \in Workers \ {w} : loc'[v] = loc[v]
    BY <1>m DEF Moves
  <1>5. /\ \/ Grows("message", t) /\ cma'.unlisted = cma.unlisted
           \/ UNCHANGED hist /\ cma'.unlisted = t
           \/ UNCHANGED hist /\ cma'.unlisted = cma.unlisted
    BY <1>0, <1>1, AppendGrows DEF CreateSession, SendMessage
  <1>6. /\ \A v \in Workers : Owns(v)' <=> Owns(v)
        /\ \A v \in Workers : Owns(v)' /\ loc'[v].pc = "mark" => ~task[loc'[v].task].cancel_attempted
    BY <1>2, <1>3, <1>4 DEF MarkInv, InterruptInv, Owns
  <1>7. /\ w \in Dispatching(t) /\ Dispatching(t)' \subseteq Dispatching(t) \ {w}
        /\ \A u \in Tasks \ {t} : Dispatching(u)' \subseteq Dispatching(u)
        /\ Interrupting' = Interrupting /\ Marked' = Marked
    BY <1>1, <1>2, <1>3, <1>4 DEF Dispatching, Interrupting, Marked
  <1>8. /\ \A u \in Tasks \ {t} : Sent(u)' = Sent(u)
        /\ Interrupts' = Interrupts
        /\ \A u \in Tasks : IsFiniteSet(Sent(u)) /\ Cardinality(Sent(u)) \in Nat
        /\ Cardinality(Sent(t)') + Unlisted(t)' <= Cardinality(Sent(t)) + Unlisted(t) + 1
        /\ Cardinality(Sent(t)') \in Nat /\ \A u \in Tasks : Unlisted(u) \in Nat /\ Unlisted(u)' \in Nat
        /\ \A u \in Tasks \ {t} : Unlisted(u)' <= Unlisted(u)
    <2>0. \A u \in Tasks : IsFiniteSet(Sent(u)) /\ Cardinality(Sent(u)) \in Nat
      BY ListedFinite
    <2>1. CASE Grows("message", t) /\ cma'.unlisted = cma.unlisted
      <3>1. /\ \A u \in Tasks : Sent(u)' = IF t = u THEN Sent(u) \cup {Len(hist) + 1} ELSE Sent(u)
            /\ Interrupts' = Interrupts
            /\ Len(hist) + 1 \notin Sent(t)
        BY <2>1, AppendListed DEF EventKinds
      <3>2. Cardinality(Sent(t)') = Cardinality(Sent(t)) + 1
        BY <2>0, <3>1, CountAdd
      <3> QED BY <2>0, <2>1, <3>1, <3>2 DEF Unlisted
    <2>2. CASE UNCHANGED hist
      <3>1. (\A u \in Tasks : Sent(u)' = Sent(u)) /\ Interrupts' = Interrupts
        BY <2>2 DEF Sent, Interrupts, EventsOf
      <3> QED BY <1>5, <2>0, <2>2, <3>1 DEF Unlisted
    <2> QED BY <1>5, <2>1, <2>2
  <1>9. ASSUME NEW u \in Tasks PROVE AttemptInv(u)'
    <2>0. AttemptInv(u) /\ task[u].dispatch_attempts \in Nat /\ IsFiniteSet(Dispatching(u))
      BY DEF MarkInv, AttemptInv, TypeOK, TaskRow
    <2>1. CASE u = t
      <3>1. /\ IsFiniteSet(Dispatching(t)') /\ Cardinality(Dispatching(t)') \in Nat
            /\ Cardinality(Dispatching(t)) \in Nat
            /\ Cardinality(Dispatching(t)') + 1 <= Cardinality(Dispatching(t))
        BY <1>7, <2>0, <2>1, CountLess
      <3> QED BY <1>2, <1>8, <2>0, <2>1, <3>1 DEF AttemptInv
    <2>2. CASE u # t
      <3>1. /\ IsFiniteSet(Dispatching(u)') /\ Cardinality(Dispatching(u)') \in Nat
            /\ Cardinality(Dispatching(u)) \in Nat
            /\ Cardinality(Dispatching(u)') <= Cardinality(Dispatching(u))
        BY <1>7, <2>0, <2>2, CountSubset
      <3> QED BY <1>2, <1>8, <2>0, <2>2, <3>1 DEF AttemptInv
    <2> QED BY <2>1, <2>2
  <1>10. InterruptInv'
    BY <1>2, <1>6, <1>7, <1>8 DEF MarkInv, InterruptInv
  <1> QED BY <1>9, <1>10 DEF MarkInv

\* The fenced update of cancel_attempted_at: the lease holder marks a task that is not
\* marked yet.
LEMMA MarkFirst ==
    ASSUME TypeOK, MarkInv, NEW w \in Workers, MarkInterrupt(w)
    PROVE  MarkInv'
  <1>0. /\ loc \in [Workers -> Local] /\ task \in [Tasks -> TaskRow]
        /\ \A v \in Workers : loc[v].pc = "mark" => loc[v].task \in Tasks
    BY DEF TypeOK, LocalOK, LocalFits
  <1>1. PICK t \in Tasks : t = loc[w].task
    BY DEF TypeOK, LocalOK, LocalFits, MarkInterrupt, At
  <1>2. loc[w].pc = "mark" /\ Owns(w) /\ UNCHANGED <<ctx, hist, cma>>
    BY DEF MarkInterrupt, At
  <1>3. /\ loc'[w].pc = "interrupt" /\ \A v \in Workers \ {w} : loc'[v] = loc[v]
    BY GotoMoves DEF MarkInterrupt
  <1>4. /\ \A u \in Tasks \ {t} : task'[u] = task[u]
        /\ task'[t].cancel_attempted = TRUE
        /\ task'[t].dispatch_attempts = task[t].dispatch_attempts
    BY <1>0, <1>1 DEF MarkInterrupt, TaskRow
  <1>5. ~task[t].cancel_attempted
    BY <1>1, <1>2 DEF MarkInv, InterruptInv
  <1>6. ASSUME NEW u \in Tasks PROVE AttemptInv(u)'
    <2>0. AttemptInv(u) /\ task'[u].dispatch_attempts = task[u].dispatch_attempts
      BY <1>4 DEF MarkInv
    <2>1. Dispatching(u)' = Dispatching(u)
      BY <1>2, <1>3 DEF Dispatching
    <2>2. Sent(u)' = Sent(u) /\ Unlisted(u)' = Unlisted(u)
      BY <1>2 DEF Sent, Unlisted
    <2> QED BY <2>0, <2>1, <2>2 DEF AttemptInv
  <1>7. InterruptInv'
    <2>0. /\ InterruptInv /\ Cardinality(Interrupting) \in Nat /\ Cardinality(Marked) \in Nat
          /\ Cardinality(Interrupts) \in Nat
      BY FS_CardinalityType, ListedFinite DEF MarkInv, InterruptInv
    <2>1. Interrupting' = Interrupting \cup {w} /\ w \notin Interrupting
      BY <1>2, <1>3 DEF Interrupting
    <2>2. Marked' = Marked \cup {t} /\ t \notin Marked
      BY <1>4, <1>5 DEF Marked
    <2>3. Interrupts' = Interrupts
      BY <1>2 DEF Interrupts, EventsOf
    <2>4. /\ IsFiniteSet(Interrupting') /\ Cardinality(Interrupting') = Cardinality(Interrupting) + 1
          /\ IsFiniteSet(Marked') /\ Cardinality(Marked') = Cardinality(Marked) + 1
      BY <2>0, <2>1, <2>2, CountAdd DEF InterruptInv
    <2>5. Cardinality(Interrupts') + Cardinality(Interrupting') <= Cardinality(Marked')
      BY <2>0, <2>3, <2>4 DEF InterruptInv
    <2>6. \A v \in Workers : Owns(v)' => Owns(v)
      BY <1>2 DEF Owns
    <2>7. ASSUME NEW v \in Workers, Owns(v)', loc'[v].pc = "mark"
          PROVE  ~task'[loc'[v].task].cancel_attempted
      <3>1. Owns(v)
        BY <2>6, <2>7
      <3>2. v = w
        BY <1>2, <3>1 DEF Owns
      <3> QED BY <1>3, <2>7, <3>2
    <2> QED BY <2>4, <2>5, <2>7 DEF InterruptInv
  <1> QED BY <1>6, <1>7 DEF MarkInv

\* The interrupt leaves with the worker that marked it.
LEMMA MarkSecond ==
    ASSUME TypeOK, MarkInv, NEW w \in Workers, Interrupt(w)
    PROVE  MarkInv'
  <1>0. loc \in [Workers -> Local]
    BY DEF TypeOK, LocalOK
  <1>2. loc[w].pc = "interrupt" /\ UNCHANGED <<ctx, task, cma>>
    BY DEF Interrupt, At
  <1>3. /\ loc'[w].pc \in {"release", "hold", "fail_context"}
        /\ \A v \in Workers \ {w} : loc'[v] = loc[v]
    BY GotoMoves, OutcomeMoves DEF Interrupt, Hold
  <1>4. Grows("interrupt", None) \/ UNCHANGED hist
    BY AppendGrows DEF Interrupt
  <1>5. /\ \A u \in Tasks : Sent(u)' = Sent(u)
        /\ IsFiniteSet(Interrupts') /\ Cardinality(Interrupts') \in Nat
        /\ Cardinality(Interrupts) \in Nat
        /\ Cardinality(Interrupts') <= Cardinality(Interrupts) + 1
    <2>0. IsFiniteSet(Interrupts) /\ Cardinality(Interrupts) \in Nat
      BY ListedFinite
    <2>1. CASE Grows("interrupt", None)
      <3>1. /\ \A u \in Tasks : Sent(u)' = Sent(u)
            /\ Interrupts' = Interrupts \cup {Len(hist) + 1} /\ Len(hist) + 1 \notin Interrupts
        BY <2>1, AppendListed DEF EventKinds
      <3> QED BY <2>0, <3>1, CountAdd, SMTT(30)
    <2>2. CASE UNCHANGED hist
      <3>1. (\A u \in Tasks : Sent(u)' = Sent(u)) /\ Interrupts' = Interrupts
        BY <2>2 DEF Sent, Interrupts, EventsOf
      <3> QED BY <2>0, <3>1
    <2> QED BY <1>4, <2>1, <2>2
  <1>6. ASSUME NEW u \in Tasks PROVE AttemptInv(u)'
    <2>1. Dispatching(u)' = Dispatching(u) /\ Unlisted(u)' = Unlisted(u)
      BY <1>2, <1>3 DEF Dispatching, Unlisted
    <2> QED BY <1>2, <1>5, <2>1 DEF MarkInv, AttemptInv
  <1>7. InterruptInv'
    <2>0. InterruptInv /\ Cardinality(Marked) \in Nat
      BY FS_CardinalityType DEF MarkInv, InterruptInv
    <2>1. w \in Interrupting /\ Interrupting' \subseteq Interrupting \ {w} /\ Marked' = Marked
      BY <1>2, <1>3 DEF Interrupting, Marked
    <2>2. /\ IsFiniteSet(Interrupting') /\ Cardinality(Interrupting') \in Nat
          /\ Cardinality(Interrupting) \in Nat
          /\ Cardinality(Interrupting') + 1 <= Cardinality(Interrupting)
      BY <2>0, <2>1, CountLess DEF InterruptInv
    <2>3. Cardinality(Interrupts') + Cardinality(Interrupting') <= Cardinality(Marked')
      BY <1>5, <2>0, <2>1, <2>2 DEF InterruptInv
    <2>4. ASSUME NEW v \in Workers, Owns(v)', loc'[v].pc = "mark"
          PROVE  ~task'[loc'[v].task].cancel_attempted
      BY <1>2, <1>3, <2>0, <2>4 DEF InterruptInv, Owns
    <2> QED BY <2>0, <2>1, <2>2, <2>3, <2>4 DEF InterruptInv
  <1> QED BY <1>6, <1>7 DEF MarkInv

\* The markers precede the calls in every reachable state.
LEMMA MarkHolds == Spec => []MarkInv
  <1>1. Init => MarkInv
    <2> SUFFICES ASSUME Init PROVE MarkInv
      OBVIOUS
    <2>0. Cardinality({}) = 0 /\ IsFiniteSet({})
      BY FS_EmptySet
    <2>1. Interrupting = {} /\ Marked = {} /\ Interrupts = {}
      BY DEF Init, Interrupting, Marked, Interrupts, EventsOf, IdleLocal, NoTask
    <2>2. ASSUME NEW t \in Tasks PROVE AttemptInv(t)
      <3>1. Dispatching(t) = {} /\ Sent(t) = {} /\ Unlisted(t) = 0 /\ task[t].dispatch_attempts = 0
        BY NoneAssumption DEF Init, Dispatching, Sent, Unlisted, IdleLocal, NoTask
      <3> QED BY <2>0, <3>1 DEF AttemptInv
    <2>3. InterruptInv
      BY <2>0, <2>1 DEF Init, InterruptInv, IdleLocal
    <2> QED BY <2>2, <2>3 DEF MarkInv
  <1>2. TypeOK /\ MarkInv /\ [Next]_vars => MarkInv'
    <2> SUFFICES ASSUME TypeOK, MarkInv, [Next]_vars PROVE MarkInv'
      OBVIOUS
    <2>1. CASE Next
      BY <2>1, NextMoves, MarkOutside, MarkEnds, MarkProvider, MarkActivate, MarkQuiet, MarkSend,
         MarkFirst, MarkSecond
    <2>2. CASE UNCHANGED vars
      <3>1. \A t \in Tasks : AttemptInv(t)' <=> AttemptInv(t)
        BY <2>2 DEF vars, AttemptInv, Dispatching, Sent, Unlisted
      <3>2. InterruptInv' <=> InterruptInv
        BY <2>2 DEF vars, InterruptInv, Interrupting, Marked, Interrupts, EventsOf, Owns
      <3> QED BY <3>1, <3>2 DEF MarkInv
    <2> QED BY <2>1, <2>2
  <1> QED BY <1>1, <1>2, TypeCorrect, PTL DEF Spec

\* No message and no interrupt without a committed mark of its own, for every number of
\* workers that may outlive their lease: a task cancelled in the queue is never sent, a
\* crash never resends, and a cancellation is sent to the provider at most once.
THEOREM MarkedBeforeCalled == Spec => []CallsMarked
  <1>1. TypeOK /\ MarkInv => CallsMarked
    <2> SUFFICES ASSUME TypeOK, MarkInv PROVE CallsMarked
      OBVIOUS
    <2>1. ASSUME NEW t \in Tasks
          PROVE  Cardinality(Sent(t)) + (IF cma.unlisted = t THEN 1 ELSE 0)
                     <= task[t].dispatch_attempts
      <3>1. /\ AttemptInv(t) /\ Cardinality(Dispatching(t)) \in Nat /\ Cardinality(Sent(t)) \in Nat
            /\ task[t].dispatch_attempts \in Nat
        BY FS_CardinalityType, ListedFinite DEF MarkInv, AttemptInv, TypeOK, TaskRow
      <3> QED BY <3>1 DEF AttemptInv, Unlisted
    <2>2. Cardinality(Interrupts) <= Cardinality(Marked)
      <3>1. /\ InterruptInv /\ Cardinality(Interrupting) \in Nat /\ Cardinality(Interrupts) \in Nat
            /\ Cardinality(Marked) \in Nat
        BY FS_CardinalityType, ListedFinite DEF MarkInv, InterruptInv
      <3> QED BY <3>1 DEF InterruptInv
    <2> QED BY <2>1, <2>2 DEF CallsMarked, Interrupts, Marked
  <1> QED BY <1>1, TypeCorrect, MarkHolds, PTL

----
\* One message per task and the task's own, while no run outlives its lease

\* A run that goes on holds the lease.
Solo == \A w \in Workers : loc[w].pc # "idle" => Owns(w)

\* The event is the message of the task.
Own(i, t) == i \in 1..Len(hist) /\ hist[i].kind = "message" /\ hist[i].task = t

\* The messages after a position that are not of the task.
Foreign(t, lo) == {i \in 1..Len(hist) : lo < i /\ hist[i].kind = "message" /\ hist[i].task # t}

\* A listed message is a task's, and none is still to be listed; a task that was not
\* dispatched since it was queued has no message, and no task has two.
FreshInv ==
    /\ cma.unlisted = None
    /\ \A i \in 1..Len(hist) : hist[i].kind = "message" => hist[i].task \in Tasks
    /\ \A t \in Tasks : task[t].internal_state \in {"absent", "queued"} => VerifiedAbsent(t)
    /\ \A t \in Tasks : \A i, j \in Sent(t) : i = j

\* Until the session is on file its messages are those of the active task; and after the
\* predecessor of the active task there is no other message, until it is bound.
ScopeInv ==
    /\ ~ctx.cma_session /\ ctx.lifecycle_state # "failed" =>
           \A t \in Tasks \cup {None} : ctx.active_task = t => Foreign(t, 0) = {}
    /\ \A t \in Tasks, p \in Nat :
           ctx.active_task = t /\ task[t].input_event = 0 /\ task[t].predecessor = p =>
               Foreign(t, p) = {}

BindPcs == {"bind_sent", "bind_initial", "bind_found"}

\* What the run that holds the lease knows of the history.
RunInv(w) ==
    /\ loc[w].pc = "activate" =>
           ctx.active_task = None /\ \A n \in Nat : loc[w].snap = n => Foreign(None, n) = {}
    /\ loc[w].pc \in {"find", "create", "attach"} =>
           ~ctx.cma_session /\ ctx.lifecycle_state # "failed"
    /\ \A t \in Tasks : loc[w].task = t =>
           /\ loc[w].pc \in {"find", "create", "send"} =>
                  VerifiedAbsent(t) /\ task[t].internal_state = "dispatching"
           /\ loc[w].pc = "initial" => Foreign(t, 0) = {}
           /\ loc[w].pc \in BindPcs => \A e \in Nat : loc[w].ev = e => Own(e, t)

\* The state of the rows and the history, apart from the runs.
RecordInv == FreshInv /\ ScopeInv /\ InputIsOwn

DeployInv == Solo /\ RecordInv /\ \A w \in Workers : RunInv(w)

\* What an appended event changes.
LEMMA AppendHist ==
    ASSUME TypeOK, NEW k \in EventKinds, NEW u \in Tasks \cup {None}, Grows(k, u)
    PROVE  \E n \in Nat :
             /\ Len(hist) = n /\ Len(hist') = n + 1
             /\ 1..(n + 1) = 1..n \cup {n + 1} /\ n + 1 \notin 1..n
             /\ \A i \in 1..n : hist'[i] = hist[i]
             /\ hist'[n + 1].kind = k /\ hist'[n + 1].task = u
  <1>1. PICK n \in Nat : n = Len(hist)
    BY DEF TypeOK
  <1>2. /\ Len(hist') = n + 1
        /\ \A i \in 1..n : hist'[i] = hist[i]
        /\ hist'[n + 1].kind = k /\ hist'[n + 1].task = u
    <2>1. PICK a \in Nat : Answer(k, u, a)
      BY DEF Grows
    <2> QED BY <1>1, <2>1 DEF TypeOK, Answer, Event
  <1>3. 1..(n + 1) = 1..n \cup {n + 1} /\ n + 1 \notin 1..n
    BY <1>1
  <1> QED BY <1>1, <1>2, <1>3

\* The messages stay as they are.
SameMessages ==
    /\ \A t \in Tasks : Sent(t)' = Sent(t) /\ (VerifiedAbsent(t) => VerifiedAbsent(t)')
    /\ \A t \in Tasks \cup {None}, n \in Nat : Foreign(t, n) = {} => Foreign(t, n)' = {}
    /\ \A i \in 1..Len(hist') : hist'[i].kind = "message" => i \in 1..Len(hist) /\ hist'[i] = hist[i]
    /\ \A i \in Nat, t \in Tasks : Own(i, t) => Own(i, t)'

\* An event that is no message leaves them alone.
LEMMA QuietHistory ==
    ASSUME TypeOK,
           UNCHANGED hist \/ \E k \in EventKinds \ {"message"}, u \in Tasks \cup {None} : Grows(k, u)
    PROVE  SameMessages
  <1>1. CASE UNCHANGED hist
    BY <1>1 DEF SameMessages, Sent, VerifiedAbsent, Foreign, Own
  <1>2. ASSUME NEW k \in EventKinds \ {"message"}, NEW u \in Tasks \cup {None}, Grows(k, u)
        PROVE  SameMessages
    <2>1. PICK n \in Nat :
             /\ Len(hist) = n /\ Len(hist') = n + 1
             /\ 1..(n + 1) = 1..n \cup {n + 1} /\ n + 1 \notin 1..n
             /\ \A i \in 1..n : hist'[i] = hist[i]
             /\ hist'[n + 1].kind = k
      BY <1>2, AppendHist
    <2>2. hist'[n + 1].kind # "message"
      BY <2>1
    <2>3. \A t \in Tasks : Sent(t)' = Sent(t)
      BY <2>1, <2>2 DEF Sent
    <2>4. \A t \in Tasks : VerifiedAbsent(t) => VerifiedAbsent(t)'
      BY <2>1, <2>2 DEF VerifiedAbsent
    <2>5. \A t \in Tasks \cup {None}, m \in Nat : Foreign(t, m) = {} => Foreign(t, m)' = {}
      BY <2>1, <2>2 DEF Foreign
    <2>6. \A i \in Nat, t \in Tasks : Own(i, t) => Own(i, t)'
      BY <2>1 DEF Own
    <2>7. \A i \in 1..Len(hist') : hist'[i].kind = "message" => i \in 1..Len(hist) /\ hist'[i] = hist[i]
      BY <2>1, <2>2
    <2> QED BY <2>3, <2>4, <2>5, <2>6, <2>7 DEF SameMessages
  <1> QED BY <1>1, <1>2

\* A message of a task adds one to its own, and is foreign to the others only.
LEMMA MessageHistory ==
    ASSUME TypeOK, NEW t \in Tasks, Grows("message", t)
    PROVE  /\ \A u \in Tasks \ {t} :
                  Sent(u)' = Sent(u) /\ (VerifiedAbsent(u) => VerifiedAbsent(u)')
           /\ Sent(t)' = Sent(t) \cup {Len(hist) + 1}
           /\ \A n \in Nat : Foreign(t, n) = {} => Foreign(t, n)' = {}
           /\ \A i \in 1..Len(hist') :
                  (i \in 1..Len(hist) /\ hist'[i] = hist[i]) \/ hist'[i].task = t
           /\ \A i \in Nat, u \in Tasks : Own(i, u) => Own(i, u)'
           /\ \A e \in Nat : e = Len(hist) + 1 => Own(e, t)'
  <1>1. PICK n \in Nat :
           /\ Len(hist) = n /\ Len(hist') = n + 1
           /\ 1..(n + 1) = 1..n \cup {n + 1} /\ n + 1 \notin 1..n
           /\ \A i \in 1..n : hist'[i] = hist[i]
           /\ hist'[n + 1].kind = "message" /\ hist'[n + 1].task = t
    BY AppendHist DEF EventKinds
  <1>2. hist'[n + 1].kind = "message" /\ hist'[n + 1].task = t
    BY <1>1
  <1>3. \A u \in Tasks \ {t} : Sent(u)' = Sent(u)
    BY <1>1, <1>2 DEF Sent
  <1>4. \A u \in Tasks \ {t} : VerifiedAbsent(u) => VerifiedAbsent(u)'
    BY <1>1, <1>2 DEF VerifiedAbsent
  <1>5. Sent(t)' = Sent(t) \cup {n + 1}
    BY <1>1, <1>2 DEF Sent
  <1>6. \A m \in Nat : Foreign(t, m) = {} => Foreign(t, m)' = {}
    BY <1>1, <1>2 DEF Foreign
  <1>7. \A i \in Nat, u \in Tasks : Own(i, u) => Own(i, u)'
    BY <1>1 DEF Own
  <1>8. Own(n + 1, t)'
    <2>1. n + 1 \in 1..(n + 1)
      OBVIOUS
    <2> QED BY <1>1, <2>1 DEF Own
  <1> QED BY <1>1, <1>2, <1>3, <1>4, <1>5, <1>6, <1>7, <1>8

\* Rows and history: the events that are no messages, and the rows as far as they count.
LEMMA RecordFrame ==
    ASSUME TypeOK, RecordInv, SameMessages,
           cma'.unlisted = cma.unlisted,
           \A u \in Tasks :
              /\ task'[u].internal_state \in {"absent", "queued"} =>
                     task[u].internal_state \in {"absent", "queued"} \/ VerifiedAbsent(u)
              /\ task'[u].input_event = task[u].input_event,
           \/ ctx'.cma_session
           \/ ctx'.lifecycle_state = "failed"
           \/ /\ ctx'.active_task = ctx.active_task
              /\ ~ctx.cma_session /\ ctx.lifecycle_state # "failed",
           \/ ctx'.active_task = None
           \/ /\ ctx'.active_task = ctx.active_task
              /\ \A u \in Tasks : task'[u].predecessor = task[u].predecessor
    PROVE  RecordInv'
  <1>1. FreshInv'
    <2>1. cma'.unlisted = None
      BY DEF RecordInv, FreshInv
    <2>2. \A i \in 1..Len(hist') : hist'[i].kind = "message" => hist'[i].task \in Tasks
      BY DEF RecordInv, FreshInv, SameMessages
    <2>3. ASSUME NEW u \in Tasks, task'[u].internal_state \in {"absent", "queued"}
          PROVE  VerifiedAbsent(u)'
      BY <2>3 DEF RecordInv, FreshInv, SameMessages
    <2>4. \A u \in Tasks : \A i, j \in Sent(u)' : i = j
      BY DEF RecordInv, FreshInv, SameMessages
    <2> QED BY <2>1, <2>2, <2>3, <2>4 DEF FreshInv
  <1>2. ScopeInv'
    <2>1. ASSUME ~ctx'.cma_session, ctx'.lifecycle_state # "failed",
                 NEW t \in Tasks \cup {None}, ctx'.active_task = t
          PROVE  Foreign(t, 0)' = {}
      <3>1. Foreign(t, 0) = {}
        BY <2>1 DEF RecordInv, ScopeInv
      <3> QED BY <3>1 DEF SameMessages
    <2>2. ASSUME NEW t \in Tasks, NEW p \in Nat, ctx'.active_task = t, task'[t].input_event = 0,
                 task'[t].predecessor = p
          PROVE  Foreign(t, p)' = {}
      <3>1. Foreign(t, p) = {}
        BY <2>2, NoneAssumption DEF RecordInv, ScopeInv
      <3> QED BY <3>1 DEF SameMessages
    <2> QED BY <2>1, <2>2 DEF ScopeInv
  <1>3. InputIsOwn'
    <2> SUFFICES ASSUME NEW u \in Tasks, task'[u].input_event # 0
                 PROVE  /\ task'[u].input_event \in 1..Len(hist')
                        /\ hist'[task'[u].input_event].kind = "message" /\ hist'[task'[u].input_event].task = u
      BY DEF InputIsOwn
    <2>1. PICK e \in Nat : e = task[u].input_event
      BY DEF TypeOK, TaskRow
    <2>2. Own(e, u)
      BY <2>1 DEF RecordInv, InputIsOwn, Own
    <2>3. Own(e, u)'
      BY <2>2 DEF SameMessages
    <2> QED BY <2>1, <2>3 DEF Own
  <1> QED BY <1>1, <1>2, <1>3 DEF RecordInv

\* Only one run goes on.
LEMMA Alone ==
    ASSUME Solo, NEW w \in Workers, loc[w].pc # "idle"
    PROVE  Owns(w) /\ \A v \in Workers \ {w} : loc[v].pc = "idle"
  BY DEF Solo, Owns

\* A run that is idle knows nothing.
LEMMA IdleKnows ==
    ASSUME NEW v \in Workers, loc'[v].pc = "idle"
    PROVE  RunInv(v)'
  BY DEF RunInv, BindPcs

\* Neither does one at a point that rests on no event.
LEMMA FreeKnows ==
    ASSUME NEW v \in Workers,
           loc'[v].pc \notin {"activate", "find", "create", "attach", "send", "initial"} \cup BindPcs
    PROVE  RunInv(v)'
  BY DEF RunInv, BindPcs

\* The service: a task in the queue has no message.
LEMMA DeployService ==
    ASSUME TypeOK, DeployInv, NEW t \in Tasks, Admit(t) \/ CancelTask(t)
    PROVE  DeployInv'
  <1>0. task \in [Tasks -> TaskRow] /\ ctx \in ContextRow
    BY DEF TypeOK
  <1>1. UNCHANGED <<hist, cma, loc>>
    BY DEF Admit, CancelTask
  <1>2. /\ ctx'.cma_session = ctx.cma_session /\ ctx'.lifecycle_state = ctx.lifecycle_state
        /\ ctx'.active_task = ctx.active_task /\ ctx'.claim = ctx.claim
        /\ ctx'.lease_live = ctx.lease_live
    BY <1>0 DEF Admit, CancelTask, ContextRow
  <1>3. \A u \in Tasks :
           /\ task'[u].input_event = task[u].input_event
           /\ task'[u].predecessor = task[u].predecessor
           /\ \/ task'[u].internal_state = task[u].internal_state
              \/ task[u].internal_state \in {"absent", "queued"}
    <2>1. CASE Admit(t)
      BY <1>0, <2>1 DEF Admit, TaskRow
    <2>2. CASE Queued(t) /\ task' = [task EXCEPT ![t] = [@ EXCEPT
                   !.internal_state = "terminal", !.a2a_state = "CANCELED"]]
      BY <1>0, <2>2 DEF TaskRow, Queued
    <2>3. CASE task' = [task EXCEPT ![t] = [@ EXCEPT !.cancel_requested = TRUE]]
      BY <1>0, <2>3 DEF TaskRow
    <2> QED BY <2>1, <2>2, <2>3 DEF CancelTask
  <1>4. SameMessages
    BY <1>1, QuietHistory
  <1>5. RecordInv'
    BY <1>1, <1>2, <1>3, <1>4, RecordFrame DEF DeployInv
  <1>6. Solo'
    BY <1>1, <1>2 DEF DeployInv, Solo, Owns
  <1>7. ASSUME NEW v \in Workers PROVE RunInv(v)'
    <2>0. RunInv(v) /\ loc'[v] = loc[v]
      BY <1>1 DEF DeployInv
    <2>1. loc'[v].pc = "activate" =>
              ctx'.active_task = None /\ \A n \in Nat : loc'[v].snap = n => Foreign(None, n)' = {}
      BY <2>0, <1>2, <1>4 DEF RunInv, SameMessages
    <2>2. loc'[v].pc \in {"find", "create", "attach"} =>
              ~ctx'.cma_session /\ ctx'.lifecycle_state # "failed"
      BY <2>0, <1>2 DEF RunInv
    <2>3. ASSUME NEW u \in Tasks, loc'[v].task = u
          PROVE  /\ loc'[v].pc \in {"find", "create", "send"} =>
                       VerifiedAbsent(u)' /\ task'[u].internal_state = "dispatching"
                 /\ loc'[v].pc = "initial" => Foreign(u, 0)' = {}
                 /\ loc'[v].pc \in BindPcs => \A e \in Nat : loc'[v].ev = e => Own(e, u)'
      <3>1. loc'[v].pc \in {"find", "create", "send"} =>
                VerifiedAbsent(u)' /\ task'[u].internal_state = "dispatching"
        BY <2>0, <2>3, <1>3, <1>4 DEF RunInv, SameMessages
      <3>2. loc'[v].pc = "initial" => Foreign(u, 0)' = {}
        BY <2>0, <2>3, <1>4 DEF RunInv, SameMessages
      <3>3. loc'[v].pc \in BindPcs => \A e \in Nat : loc'[v].ev = e => Own(e, u)'
        BY <2>0, <2>3, <1>4 DEF RunInv, SameMessages
      <3> QED BY <3>1, <3>2, <3>3
    <2> QED BY <2>1, <2>2, <2>3 DEF RunInv, BindPcs
  <1> QED BY <1>5, <1>6, <1>7 DEF DeployInv

\* The operator: nobody runs while the lease is free, and a retried message is absent.
LEMMA DeployOperator ==
    ASSUME TypeOK, DeployInv, NEW t \in Tasks, AdminFail(t) \/ AdminRetry(t)
    PROVE  DeployInv'
  <1>0. task \in [Tasks -> TaskRow] /\ ctx \in ContextRow
    BY DEF TypeOK
  <1>1. UNCHANGED <<hist, cma, loc>> /\ LeaseFree
    BY DEF AdminFail, AdminRetry
  <1>2. ctx'.active_task = None /\ (ctx'.cma_session \/ ctx'.lifecycle_state = "failed")
    BY <1>0 DEF AdminFail, AdminRetry, ContextRow
  <1>3. \A v \in Workers : loc'[v].pc = "idle"
    BY <1>1, NoneAssumption DEF DeployInv, Solo, Owns, LeaseFree
  <1>4. \A u \in Tasks :
           /\ task'[u].input_event = task[u].input_event
           /\ task'[u].internal_state \in {"absent", "queued"} =>
                  task[u].internal_state \in {"absent", "queued"} \/ VerifiedAbsent(u)
    <2>1. CASE AdminFail(t)
      BY <1>0, <2>1 DEF AdminFail, TaskRow
    <2>2. CASE AdminRetry(t)
      <3>1. VerifiedAbsent(t)
        BY <2>2 DEF AdminRetry
      <3>2. /\ \A u \in Tasks : task'[u].input_event = task[u].input_event
            /\ \A u \in Tasks \ {t} : task'[u].internal_state = task[u].internal_state
        BY <1>0, <2>2 DEF AdminRetry, TaskRow
      <3> QED BY <3>1, <3>2
    <2> QED BY <2>1, <2>2
  <1>5. SameMessages
    BY <1>1, QuietHistory
  <1>6. RecordInv'
    BY <1>1, <1>2, <1>4, <1>5, RecordFrame DEF DeployInv
  <1> QED BY <1>3, <1>6, IdleKnows DEF DeployInv, Solo

\* The provider adds no message of its own, because none is late.
LEMMA DeployProvider ==
    ASSUME TypeOK, DeployInv, Provider
    PROVE  DeployInv'
  <1>1. ~ProviderListsInitial
    BY DEF ProviderListsInitial, DeployInv, RecordInv, FreshInv
  <1>2. UNCHANGED <<ctx, task, cma, loc>>
    BY <1>1 DEF Provider, ProviderRuns, ProviderRests, ProviderYields, ProviderStops
  <1>3. \E k \in EventKinds \ {"message"}, u \in Tasks \cup {None} : Grows(k, u)
    BY <1>1, ProviderAppends, AppendGrows
  <1>4. SameMessages
    BY <1>3, QuietHistory
  <1>5. RecordInv'
    BY <1>2, <1>4, RecordFrame DEF DeployInv
  <1>6. Solo'
    BY <1>2 DEF DeployInv, Solo, Owns
  <1>7. ASSUME NEW v \in Workers PROVE RunInv(v)'
    BY <1>2, <1>4 DEF DeployInv, RunInv, BindPcs, SameMessages
  <1> QED BY <1>5, <1>6, <1>7 DEF DeployInv

\* The start and the end of a run.
LEMMA DeployEnds ==
    ASSUME TypeOK, DeployInv, NEW w \in Workers,
           \/ ClaimScheduler(w) \/ ReleaseScheduler(w) \/ LoseClaim(w) \/ Raise(w) \/ Crash(w)
           \/ ReconcileActive(w) \/ ReconcileNothing(w)
    PROVE  DeployInv'
  <1>0. loc \in [Workers -> Local] /\ ctx \in ContextRow
    BY DEF TypeOK, LocalOK
  <1>1. UNCHANGED <<hist, cma, task>>
    BY DEF ClaimScheduler, ReleaseScheduler, LoseClaim, Raise, Crash, ReconcileActive,
           ReconcileNothing
  <1>2. /\ ctx'.cma_session = ctx.cma_session /\ ctx'.lifecycle_state = ctx.lifecycle_state
        /\ ctx'.active_task = ctx.active_task
    BY <1>0 DEF ClaimScheduler, ReleaseScheduler, LoseClaim, Raise, Crash, ReconcileActive,
           ReconcileNothing, ContextRow
  <1>3. /\ \A v \in Workers \ {w} : loc'[v] = loc[v]
        /\ loc'[w].pc \in {"idle", "reconcile", "active", "release"}
    <2>1. CASE ReleaseScheduler(w) \/ Crash(w)
      BY <1>0, <2>1 DEF ReleaseScheduler, Crash, IdleLocal
    <2>2. CASE ReconcileActive(w)
      BY <1>0, <2>2 DEF ReconcileActive, Local
    <2>3. CASE ~(ReleaseScheduler(w) \/ Crash(w) \/ ReconcileActive(w))
      <3>1. \E p \in {"reconcile", "release"} : Goto(w, p)
        BY <2>3 DEF ClaimScheduler, LoseClaim, Raise, ReconcileNothing
      <3> QED BY <3>1, GotoMoves
    <2> QED BY <2>1, <2>2, <2>3
  <1>4. \A v \in Workers \ {w} : loc[v].pc = "idle"
    <2>1. CASE ClaimScheduler(w)
      BY <2>1, NoneAssumption DEF ClaimScheduler, LeaseFree, DeployInv, Solo, Owns
    <2>2. CASE ~ClaimScheduler(w)
      <3>1. loc[w].pc # "idle"
        BY <2>2 DEF ReleaseScheduler, LoseClaim, Raise, Crash, ReconcileActive, ReconcileNothing,
               At, FencedPcs
      <3> QED BY <3>1, Alone DEF DeployInv
    <2> QED BY <2>1, <2>2
  <1>5. loc'[w].pc # "idle" => Owns(w)'
    <2>1. CASE ClaimScheduler(w)
      BY <1>0, <2>1 DEF ClaimScheduler, Owns, ContextRow
    <2>2. CASE ReleaseScheduler(w) \/ Crash(w)
      BY <1>0, <2>2 DEF ReleaseScheduler, Crash, IdleLocal
    <2>3. CASE LoseClaim(w) \/ Raise(w) \/ ReconcileActive(w) \/ ReconcileNothing(w)
      <3>1. loc[w].pc # "idle" /\ UNCHANGED ctx
        BY <2>3 DEF LoseClaim, Raise, ReconcileActive, ReconcileNothing, At, FencedPcs
      <3> QED BY <3>1 DEF DeployInv, Solo, Owns
    <2> QED BY <2>1, <2>2, <2>3
  <1>6. SameMessages
    BY <1>1, QuietHistory
  <1>7. RecordInv'
    BY <1>1, <1>2, <1>6, RecordFrame DEF DeployInv
  <1>8. \A v \in Workers : RunInv(v)'
    BY <1>3, <1>4, FreeKnows DEF BindPcs
  <1> QED BY <1>3, <1>4, <1>5, <1>7, <1>8 DEF DeployInv, Solo

\* The lease of a run that goes on does not run out.
LEMMA DeployLease ==
    ASSUME TypeOK, DeployInv, ~LateEffects, LeaseExpires
    PROVE  DeployInv'
  <1>0. ctx \in ContextRow
    BY DEF TypeOK
  <1>1. UNCHANGED <<hist, cma, task, loc>>
    BY DEF LeaseExpires
  <1>2. /\ ctx'.cma_session = ctx.cma_session /\ ctx'.lifecycle_state = ctx.lifecycle_state
        /\ ctx'.active_task = ctx.active_task
    BY <1>0 DEF LeaseExpires, ContextRow
  <1>3. \A v \in Workers : loc'[v].pc = "idle"
    BY <1>1 DEF LeaseExpires, At, DeployInv, Solo, Owns
  <1>4. RecordInv'
    BY <1>1, <1>2, QuietHistory, RecordFrame DEF DeployInv
  <1> QED BY <1>3, <1>4, IdleKnows DEF DeployInv, Solo

\* The next task is picked when all messages are before it, and activated with them as
\* its predecessors.
LEMMA DeployPick ==
    ASSUME TypeOK, SessionInv, DeployInv, NEW w \in Workers,
           ReconcileQueued(w) \/ ActivateTask(w) \/ FinishTask(w) \/ ClearActive(w)
    PROVE  DeployInv'
  <1>0. /\ loc \in [Workers -> Local] /\ ctx \in ContextRow /\ task \in [Tasks -> TaskRow]
        /\ \A v \in Workers : LocalFits(loc[v])
    BY DEF TypeOK, LocalOK
  <1>1. UNCHANGED <<hist, cma>> /\ SameMessages
    BY QuietHistory DEF ReconcileQueued, ActivateTask, FinishTask, ClearActive
  <1>2. /\ ctx'.cma_session = ctx.cma_session /\ ctx'.lifecycle_state = ctx.lifecycle_state
        /\ ctx'.claim = ctx.claim /\ ctx'.lease_live = ctx.lease_live
    BY <1>0 DEF ReconcileQueued, ActivateTask, FinishTask, ClearActive, ContextRow
  <1>3. loc[w].pc # "idle" /\ Owns(w) /\ \A v \in Workers \ {w} : loc[v].pc = "idle"
    BY Alone DEF DeployInv, ReconcileQueued, ActivateTask, FinishTask, ClearActive, At
  <1>4. OwnerSession(w) /\ RunInv(w) /\ RecordInv
    BY DEF SessionInv, DeployInv
  <1>s. ASSUME \A v \in Workers \ {w} : loc'[v] = loc[v], RecordInv', RunInv(w)'
        PROVE  DeployInv'
    <2>1. Solo'
      BY <1>2, <1>3, <1>s DEF Solo, Owns
    <2>2. \A v \in Workers : RunInv(v)'
      BY <1>3, <1>s, IdleKnows
    <2> QED BY <1>s, <2>1, <2>2 DEF DeployInv
  <1>5. CASE ReconcileQueued(w)
    <2>1. PICK u \in Tasks : loc' = [loc EXCEPT ![w] =
                IF ctx.lifecycle_state = "failed"
                THEN [loc[w] EXCEPT !.pc = "finish", !.task = u, !.out = "FAILED"]
                ELSE [loc[w] EXCEPT !.pc = "activate", !.task = u,
                               !.snap = IF ctx.cma_session THEN Len(hist) ELSE 0]]
      BY <1>5 DEF ReconcileQueued
    <2>2. UNCHANGED <<ctx, task>> /\ ctx.active_task = None
      BY <1>5 DEF ReconcileQueued
    <2>3. RecordInv'
      BY <1>1, <1>2, <1>4, <2>2, RecordFrame
    <2>4. CASE ctx.lifecycle_state = "failed"
      <3>1. loc'[w].pc = "finish" /\ \A v \in Workers \ {w} : loc'[v] = loc[v]
        BY <1>0, <2>1, <2>4 DEF Local
      <3>2. RunInv(w)'
        BY <3>1, FreeKnows DEF BindPcs
      <3> QED BY <1>s, <2>3, <3>1, <3>2
    <2>5. CASE ctx.lifecycle_state # "failed"
      <3>1. /\ loc'[w].pc = "activate" /\ \A v \in Workers \ {w} : loc'[v] = loc[v]
            /\ loc'[w].snap = IF ctx.cma_session THEN Len(hist) ELSE 0
        BY <1>0, <2>1, <2>5 DEF Local
      <3>2. ASSUME NEW n \in Nat, loc'[w].snap = n PROVE Foreign(None, n)' = {}
        <4>1. CASE ctx.cma_session
          <5>1. Foreign(None, n) = {}
            BY <3>1, <3>2, <4>1 DEF Foreign
          <5> QED BY <1>1, <5>1 DEF SameMessages
        <4>2. CASE ~ctx.cma_session
          <5>1. n = 0
            BY <3>1, <3>2, <4>2
          <5>2. Foreign(None, 0) = {}
            BY <1>4, <2>2, <2>5, <4>2 DEF RecordInv, ScopeInv
          <5> QED BY <1>1, <5>1, <5>2 DEF SameMessages
        <4> QED BY <4>1, <4>2
      <3>3. RunInv(w)'
        BY <2>2, <3>1, <3>2 DEF RunInv, BindPcs
      <3> QED BY <1>s, <2>3, <3>1, <3>3
    <2> QED BY <2>4, <2>5
  <1>6. CASE ActivateTask(w)
    <2>1. PICK t \in Tasks : t = loc[w].task
      BY <1>0, <1>6 DEF ActivateTask, At, LocalFits
    <2>2. loc[w].pc = "activate" /\ ctx.lifecycle_state # "failed"
      BY <1>3, <1>4, <1>6 DEF ActivateTask, At, OwnerSession
    <2>3. CASE ctx.active_task = None /\ Queued(t)
      <3>1. /\ loc'[w].pc = IF ctx.cma_session THEN "send" ELSE "find"
            /\ loc'[w].task = t
            /\ \A v \in Workers \ {w} : loc'[v] = loc[v]
        BY <1>6, <2>1, <2>3, GotoMoves DEF ActivateTask
      <3>2. PICK n \in Nat : n = loc[w].snap
        BY <1>0 DEF Local
      <3>3. task' = [task EXCEPT ![t] = [@ EXCEPT
               !.internal_state = "dispatching", !.predecessor = n,
               !.dispatch_attempts = task[t].dispatch_attempts + 1]]
        BY <1>6, <2>1, <2>3, <3>2 DEF ActivateTask
      <3>4. /\ \A u \in Tasks : task'[u].input_event = task[u].input_event
            /\ \A u \in Tasks \ {t} : task'[u] = task[u]
            /\ task'[t].internal_state = "dispatching" /\ task'[t].predecessor = n
        BY <1>0, <3>3 DEF TaskRow
      <3>5. VerifiedAbsent(t) /\ VerifiedAbsent(t)'
        BY <1>1, <1>4, <2>3 DEF RecordInv, FreshInv, Queued, SameMessages
      <3>6. /\ ctx'.active_task = t /\ ctx.active_task = None
        BY <1>0, <1>6, <2>1, <2>3 DEF ActivateTask, ContextRow
      <3>7. ASSUME NEW m \in Nat, Foreign(None, m) = {} PROVE Foreign(t, m)' = {}
        <4>1. Foreign(t, m) = {}
          BY <1>4, <3>7, NoneAssumption DEF Foreign, RecordInv, FreshInv
        <4> QED BY <1>1, <4>1 DEF SameMessages
      <3>8. FreshInv'
        <4>1. \A u \in Tasks : task'[u].internal_state \in {"absent", "queued"} => VerifiedAbsent(u)'
          BY <1>1, <1>4, <3>4 DEF RecordInv, FreshInv, SameMessages
        <4> QED BY <1>1, <1>4, <4>1 DEF RecordInv, FreshInv, SameMessages
      <3>9. ScopeInv'
        <4>1. ASSUME ~ctx'.cma_session PROVE Foreign(t, 0)' = {}
          <5>1. Foreign(None, 0) = {}
            BY <1>2, <1>4, <2>2, <2>3, <4>1 DEF RecordInv, ScopeInv
          <5> QED BY <3>7, <5>1
        <4>2. Foreign(t, n)' = {}
          <5>1. Foreign(None, n) = {}
            BY <1>4, <2>2, <3>2 DEF RunInv
          <5> QED BY <3>7, <5>1
        <4> QED BY <3>4, <3>6, <4>1, <4>2 DEF ScopeInv
      <3>10. InputIsOwn'
        BY <1>1, <1>4, <3>4 DEF RecordInv, InputIsOwn
      <3>11. RunInv(w)'
        BY <1>2, <2>2, <3>1, <3>4, <3>5 DEF RunInv, BindPcs
      <3> QED BY <1>s, <3>1, <3>8, <3>9, <3>10, <3>11 DEF RecordInv
    <2>4. CASE ~(ctx.active_task = None /\ Queued(t))
      <3>1. /\ UNCHANGED <<ctx, task>> /\ loc'[w].pc = "release"
            /\ \A v \in Workers \ {w} : loc'[v] = loc[v]
        BY <1>6, <2>1, <2>4, GotoMoves DEF ActivateTask
      <3>2. RecordInv'
        BY <1>1, <1>2, <1>4, <3>1, RecordFrame
      <3>3. RunInv(w)'
        BY <3>1, FreeKnows DEF BindPcs
      <3> QED BY <1>s, <3>1, <3>2, <3>3
    <2> QED BY <2>3, <2>4
  <1>7. CASE FinishTask(w)
    <2>1. PICK t \in Tasks : t = loc[w].task
      BY <1>0, <1>7 DEF FinishTask, At, LocalFits
    <2>2. UNCHANGED ctx /\ \A u \in Tasks :
             /\ task'[u].input_event = task[u].input_event
             /\ task'[u].predecessor = task[u].predecessor
             /\ task'[u].internal_state \in {task[u].internal_state, "terminal"}
      BY <1>0, <1>7, <2>1 DEF FinishTask, TaskRow
    <2>3. loc'[w].pc = "clear" /\ \A v \in Workers \ {w} : loc'[v] = loc[v]
      BY <1>7, GotoMoves DEF FinishTask
    <2>4. RecordInv'
      BY <1>1, <1>2, <1>4, <2>2, RecordFrame
    <2>5. RunInv(w)'
      BY <2>3, FreeKnows DEF BindPcs
    <2> QED BY <1>s, <2>3, <2>4, <2>5
  <1>8. CASE ClearActive(w)
    <2>1. ctx'.active_task = None /\ UNCHANGED task /\ loc[w].pc = "clear"
      BY <1>0, <1>8 DEF ClearActive, ContextRow, At
    <2>2. ctx'.cma_session \/ ctx'.lifecycle_state = "failed"
      BY <1>2, <1>3, <1>4, <2>1 DEF OwnerSession
    <2>3. loc'[w].pc = "release" /\ \A v \in Workers \ {w} : loc'[v] = loc[v]
      BY <1>8, GotoMoves DEF ClearActive
    <2>4. RecordInv'
      BY <1>1, <1>4, <2>1, <2>2, RecordFrame
    <2>5. RunInv(w)'
      BY <2>3, FreeKnows DEF BindPcs
    <2> QED BY <1>s, <2>3, <2>4, <2>5
  <1> QED BY <1>5, <1>6, <1>7, <1>8

\* FirstOf finds a message of the task when there is no foreign one.
LEMMA FirstIsOwn ==
    ASSUME TypeOK, FreshInv, NEW t \in Tasks, NEW lo \in Nat, Foreign(t, lo) = {},
           NEW e, e = FirstOf(EventsOf({"message"}, lo, Len(hist))), e # 0
    PROVE  Own(e, t)
  <1>1. e \in EventsOf({"message"}, lo, Len(hist))
    BY DEF FirstOf
  <1>2. e \in 1..Len(hist) /\ lo < e /\ hist[e].kind = "message"
    BY <1>1 DEF EventsOf
  <1>3. hist[e] \in Event
    BY <1>2 DEF TypeOK
  <1>4. hist[e].task = t
    BY <1>2 DEF Foreign
  <1> QED BY <1>2, <1>3, <1>4 DEF Own, Event

\* A step on the way that neither sends nor binds.
LEMMA DeployQuiet ==
    ASSUME TypeOK, OwnerInv, SessionInv, DeployInv, NEW w \in Workers, MoveStep(w),
           ~(CreateSession(w) \/ SendMessage(w) \/ BindInput(w))
    PROVE  DeployInv'
  <1>0. /\ loc \in [Workers -> Local] /\ Moves(w) /\ SessionMoves(w)
        /\ ctx \in ContextRow /\ task \in [Tasks -> TaskRow]
    BY MoveShape, SessionShape DEF TypeOK, LocalOK
  <1>1. PICK t \in Tasks : t = loc[w].task
    BY <1>0 DEF TypeOK, LocalOK, LocalFits, Moves, ActivePcs
  <1>2. loc[w].pc # "idle" /\ Owns(w) /\ \A v \in Workers \ {w} : loc[v].pc = "idle"
    BY <1>0, Alone DEF DeployInv, Moves, ActivePcs
  <1>3. ctx.active_task = t /\ ctx'.active_task = t
    BY <1>0, <1>1, <1>2 DEF OwnerInv, OwnerOK, Moves
  <1>4. /\ UNCHANGED cma
        /\ UNCHANGED hist \/ \E k \in EventKinds \ {"message"}, u \in Tasks \cup {None} : Grows(k, u)
    <2>1. CASE ~CallStep(w)
      BY <2>1, QuietMove
    <2>2. CASE ConfirmTool(w)
      <3>1. UNCHANGED cma
        BY <2>2 DEF ConfirmTool
      <3> QED BY <2>2, <3>1, ConfirmGrows DEF EventKinds, Statuses
    <2>3. CASE Interrupt(w)
      BY <2>3, AppendGrows DEF Interrupt, EventKinds, Statuses
    <2> QED BY <2>1, <2>2, <2>3 DEF CallStep
  <1>5. SameMessages /\ RecordInv /\ RunInv(w) /\ Solo
    BY <1>4, QuietHistory DEF DeployInv
  <1>6. \A u \in Tasks : /\ task'[u].input_event = task[u].input_event
                         /\ task'[u].predecessor = task[u].predecessor
    BY RowsMove DEF RowKept
  <1>7. RecordInv'
    <2>1. \A u \in Tasks : task'[u].internal_state \in {"absent", "queued"} =>
                     task[u].internal_state \in {"absent", "queued"}
      BY <1>0 DEF Moves, Running
    <2>2. \/ ctx'.cma_session
          \/ ctx'.lifecycle_state = "failed"
          \/ ~ctx.cma_session /\ ctx.lifecycle_state # "failed"
      BY <1>0 DEF SessionMoves
    <2> QED BY <1>3, <1>4, <1>5, <1>6, <2>1, <2>2, RecordFrame
  <1>8. Solo'
    BY <1>0, <1>2 DEF Moves, Solo, Owns
  <1>9. loc'[w].task = t /\ loc'[w].pc # "activate" /\ loc'[w].pc # "find"
    BY <1>0, <1>1 DEF Moves, ActivePcs, SessionMoves
  <1>10. RunInv(w)'
    <2>1. CASE ~CallingStep(w)
      BY <1>9, <2>1, PlainTarget, FreeKnows DEF CallPcs, BindPcs
    <2>2. CASE FindSession(w)
      <3>1. /\ loc[w].pc = "find" /\ UNCHANGED <<ctx, task>>
            /\ loc'[w].pc \in {"attach", "create"}
        BY <2>2, GotoMoves DEF FindSession, At
      <3>2. /\ VerifiedAbsent(t) /\ task[t].internal_state = "dispatching"
            /\ ~ctx.cma_session /\ ctx.lifecycle_state # "failed"
        BY <1>1, <1>5, <3>1 DEF RunInv
      <3>3. VerifiedAbsent(t)'
        BY <1>5, <3>2 DEF SameMessages
      <3> QED BY <1>9, <3>1, <3>2, <3>3 DEF RunInv, BindPcs
    <2>3. CASE AttachSession(w)
      <3>1. loc'[w].pc = IF loc[w].pc = "attach" THEN "initial" ELSE "active"
        BY <2>3, GotoMoves DEF AttachSession, At
      <3>2. ASSUME loc[w].pc = "attach" PROVE Foreign(t, 0)' = {}
        <4>1. ~ctx.cma_session /\ ctx.lifecycle_state # "failed"
          BY <1>5, <3>2 DEF RunInv
        <4>2. Foreign(t, 0) = {}
          BY <1>3, <1>5, <4>1 DEF RecordInv, ScopeInv
        <4> QED BY <1>5, <4>2 DEF SameMessages
      <3> QED BY <1>9, <3>1, <3>2 DEF RunInv, BindPcs
    <2>4. CASE InitialInput(w)
      <3>1. PICK found : found = FirstOf(EventsOf({"message"}, 0, Len(hist)))
        OBVIOUS
      <3>2. CASE found = 0
        <4>1. Hold(w, "initial-input-not-visible")
          BY <2>4, <3>1, <3>2 DEF InitialInput
        <4>2. loc'[w].pc = "hold"
          BY <4>1, OutcomeMoves DEF Hold
        <4> QED BY <4>2, FreeKnows DEF BindPcs
      <3>3. CASE found # 0
        <4>1. loc' = [loc EXCEPT ![w] = [@ EXCEPT !.pc = "bind_initial", !.ev = found]]
          BY <2>4, <3>1, <3>3 DEF InitialInput
        <4>2. loc'[w].pc = "bind_initial" /\ loc'[w].ev = found
          BY <1>0, <4>1 DEF Local
        <4>3. Foreign(t, 0) = {} /\ FreshInv
          BY <1>1, <1>5, <2>4 DEF InitialInput, At, RunInv, RecordInv
        <4>4. Own(found, t)
          BY <3>1, <3>3, <4>3, FirstIsOwn
        <4>5. ASSUME NEW e \in Nat, loc'[w].ev = e PROVE Own(e, t)'
          BY <1>5, <4>2, <4>4, <4>5 DEF SameMessages
        <4> QED BY <1>9, <4>2, <4>5 DEF RunInv, BindPcs
      <3> QED BY <3>2, <3>3
    <2>5. CASE ListActive(w)
      <3>1. PICK p \in Nat : p = task[t].predecessor
        BY <1>0 DEF TaskRow
      <3>2. PICK found \in Nat : found = FirstOf(EventsOf({"message"}, p, Len(hist)))
        BY ListingType
      <3>3. CASE task[t].input_event = 0 /\ found = 0
        <4>1. Hold(w, "ambiguous-dispatch")
          BY <1>1, <2>5, <3>1, <3>2, <3>3 DEF ListActive
        <4>2. loc'[w].pc = "hold"
          BY <4>1, OutcomeMoves DEF Hold
        <4> QED BY <4>2, FreeKnows DEF BindPcs
      <3>4. CASE task[t].input_event = 0 /\ found # 0
        <4>1. loc' = [loc EXCEPT ![w] = [@ EXCEPT
                  !.snap = Len(hist), !.ev = found, !.pc = "bind_found"]]
          BY <1>1, <2>5, <3>1, <3>2, <3>4 DEF ListActive
        <4>2. loc'[w].pc = "bind_found" /\ loc'[w].ev = found
          BY <1>0, <4>1 DEF Local
        <4>3. Foreign(t, p) = {} /\ FreshInv
          BY <1>3, <1>5, <3>1, <3>4 DEF RecordInv, ScopeInv
        <4>4. Own(found, t)
          BY <3>2, <3>4, <4>3, FirstIsOwn
        <4>5. ASSUME NEW e \in Nat, loc'[w].ev = e PROVE Own(e, t)'
          BY <1>5, <4>2, <4>4, <4>5 DEF SameMessages
        <4> QED BY <1>9, <4>2, <4>5 DEF RunInv, BindPcs
      <3>5. CASE task[t].input_event # 0
        <4>1. PICK p2 \in {"cancel", "confirmations"} : loc' = [loc EXCEPT ![w] = [@ EXCEPT
                  !.snap = Len(hist), !.ev = 0, !.pc = p2]]
          BY <1>1, <2>5, <3>5 DEF ListActive
        <4>2. loc'[w].pc = p2
          BY <1>0, <4>1 DEF Local
        <4> QED BY <4>2, FreeKnows DEF BindPcs
      <3> QED BY <3>3, <3>4, <3>5
    <2>6. CASE CancelOpen(w) \/ MarkInterrupt(w)
      <3>1. loc'[w].pc \in {"release", "hold", "mark", "interrupt"}
        BY <2>6, GotoMoves, OutcomeMoves DEF CancelOpen, MarkInterrupt, Hold
      <3> QED BY <3>1, FreeKnows DEF BindPcs
    <2> QED BY <2>1, <2>2, <2>3, <2>4, <2>5, <2>6 DEF CallingStep
  <1>11. \A v \in Workers : RunInv(v)'
    <2>1. \A v \in Workers \ {w} : loc'[v].pc = "idle"
      BY <1>0, <1>2 DEF Moves
    <2> QED BY <1>10, <2>1, IdleKnows
  <1> QED BY <1>7, <1>8, <1>11 DEF DeployInv

\* _bind_input() stores the event that the run has found to be the task's.
LEMMA DeployBind ==
    ASSUME TypeOK, OwnerInv, SessionInv, DeployInv, NEW w \in Workers, BindInput(w)
    PROVE  DeployInv'
  <1>0. /\ loc \in [Workers -> Local] /\ Moves(w)
        /\ ctx \in ContextRow /\ task \in [Tasks -> TaskRow]
    BY MoveShape DEF MoveStep, TypeOK, LocalOK
  <1>1. PICK t \in Tasks : t = loc[w].task
    BY <1>0 DEF TypeOK, LocalOK, LocalFits, Moves, ActivePcs
  <1>2. loc[w].pc \in BindPcs /\ UNCHANGED <<ctx, hist, cma>>
    BY DEF BindInput, BindPcs
  <1>3. Owns(w) /\ \A v \in Workers \ {w} : loc[v].pc = "idle"
    BY <1>2, Alone DEF DeployInv, BindPcs
  <1>4. PICK e \in Nat : e = loc[w].ev
    BY <1>0 DEF Local
  <1>5. Own(e, t) /\ RecordInv /\ Solo
    BY <1>1, <1>2, <1>4 DEF DeployInv, RunInv
  <1>6. /\ \A u \in Tasks \ {t} : task'[u] = task[u]
        /\ task'[t].input_event = e /\ task'[t].predecessor = task[t].predecessor
        /\ task'[t].internal_state = "waiting"
    BY <1>0, <1>1, <1>4 DEF BindInput, TaskRow
  <1>7. SameMessages
    BY <1>2, QuietHistory
  <1>8. FreshInv'
    <2>1. \A u \in Tasks : task'[u].internal_state \in {"absent", "queued"} => VerifiedAbsent(u)'
      BY <1>5, <1>6, <1>7 DEF RecordInv, FreshInv, SameMessages
    <2> QED BY <1>2, <1>5, <1>7, <2>1 DEF RecordInv, FreshInv, SameMessages
  <1>9. ScopeInv'
    <2>1. e # 0
      BY <1>5 DEF Own, TypeOK
    <2> QED BY <1>2, <1>5, <1>6, <1>7, <2>1, ZenonT(60) DEF RecordInv, ScopeInv, SameMessages
  <1>10. InputIsOwn'
    <2> SUFFICES ASSUME NEW u \in Tasks, task'[u].input_event # 0
                 PROVE  /\ task'[u].input_event \in 1..Len(hist)
                        /\ hist[task'[u].input_event].kind = "message" /\ hist[task'[u].input_event].task = u
      BY <1>2 DEF InputIsOwn
    <2>1. CASE u = t
      BY <1>5, <1>6, <2>1 DEF Own
    <2>2. CASE u # t
      BY <1>5, <1>6, <2>2 DEF RecordInv, InputIsOwn
    <2> QED BY <2>1, <2>2
  <1>11. Solo'
    BY <1>0, <1>3 DEF Moves, Solo, Owns
  <1>12. RunInv(w)'
    <2>1. ~CallingStep(w)
      BY <1>2 DEF CallingStep, FindSession, CreateSession, AttachSession, InitialInput, SendMessage,
             ListActive, CancelOpen, MarkInterrupt, At, BindPcs
    <2>2. loc'[w].pc \notin CallPcs
      BY <2>1, PlainTarget DEF MoveStep
    <2> QED BY <1>0, <2>2, FreeKnows DEF CallPcs, BindPcs, Moves, ActivePcs
  <1>13. \A v \in Workers : RunInv(v)'
    <2>1. \A v \in Workers \ {w} : loc'[v].pc = "idle"
      BY <1>0, <1>3 DEF Moves
    <2> QED BY <1>12, <2>1, IdleKnows
  <1> QED BY <1>8, <1>9, <1>10, <1>11, <1>13 DEF DeployInv, RecordInv

\* A message is accepted for the active task, which had none.
LEMMA DeploySend ==
    ASSUME TypeOK, OwnerInv, SessionInv, DeployInv, ~LateEffects, NEW w \in Workers,
           CreateSession(w) \/ SendMessage(w)
    PROVE  DeployInv'
  <1>0. /\ loc \in [Workers -> Local] /\ Moves(w)
        /\ ctx \in ContextRow /\ cma \in [sessions: Nat, unlisted: Tasks \cup {None}]
    BY MoveCall DEF CallStep, TypeOK, LocalOK
  <1>1. PICK t \in Tasks : t = loc[w].task
    BY <1>0 DEF TypeOK, LocalOK, LocalFits, Moves, ActivePcs
  <1>2. loc[w].pc \in {"create", "send"} /\ UNCHANGED <<ctx, task>>
    BY DEF CreateSession, SendMessage, At
  <1>3. Owns(w) /\ \A v \in Workers \ {w} : loc[v].pc = "idle"
    BY <1>2, Alone DEF DeployInv
  <1>4. ctx.active_task = t
    BY <1>0, <1>1, <1>3 DEF OwnerInv, OwnerOK, Moves
  <1>5. /\ VerifiedAbsent(t) /\ task[t].internal_state = "dispatching"
        /\ loc[w].pc = "create" => ~ctx.cma_session /\ ctx.lifecycle_state # "failed"
        /\ RecordInv
    BY <1>1, <1>2 DEF DeployInv, RunInv
  <1>6. /\ Grows("message", t) \/ UNCHANGED hist
        /\ cma'.unlisted = cma.unlisted
    BY <1>0, <1>1, AppendGrows DEF CreateSession, SendMessage
  <1>7. RecordInv'
    <2>1. CASE UNCHANGED hist
      BY <1>2, <1>5, <1>6, <2>1, QuietHistory, RecordFrame
    <2>2. CASE Grows("message", t)
      <3>1. PICK n \in Nat : n = Len(hist)
        BY DEF TypeOK
      <3>2. /\ \A u \in Tasks \ {t} :
                   Sent(u)' = Sent(u) /\ (VerifiedAbsent(u) => VerifiedAbsent(u)')
            /\ Sent(t)' = Sent(t) \cup {n + 1}
            /\ \A m \in Nat : Foreign(t, m) = {} => Foreign(t, m)' = {}
            /\ \A i \in 1..Len(hist') :
                   (i \in 1..Len(hist) /\ hist'[i] = hist[i]) \/ hist'[i].task = t
            /\ \A i \in Nat, u \in Tasks : Own(i, u) => Own(i, u)'
        BY <2>2, <3>1, MessageHistory
      <3>3. Sent(t) = {}
        BY <1>5 DEF Sent, VerifiedAbsent
      <3>4. FreshInv'
        <4>1. \A u \in Tasks : task'[u].internal_state \in {"absent", "queued"} => VerifiedAbsent(u)'
          BY <1>2, <1>5, <3>2 DEF RecordInv, FreshInv
        <4>2. \A u \in Tasks : \A i, j \in Sent(u)' : i = j
          BY <1>5, <3>2, <3>3 DEF RecordInv, FreshInv
        <4>3. \A i \in 1..Len(hist') : hist'[i].kind = "message" => hist'[i].task \in Tasks
          BY <1>5, <3>2 DEF RecordInv, FreshInv
        <4> QED BY <1>5, <1>6, <4>1, <4>2, <4>3 DEF RecordInv, FreshInv
      <3>5. ScopeInv'
        BY <1>2, <1>4, <1>5, <3>2 DEF RecordInv, ScopeInv
      <3>6. InputIsOwn'
        <4> SUFFICES ASSUME NEW u \in Tasks, task[u].input_event # 0
                     PROVE  /\ task[u].input_event \in 1..Len(hist')
                            /\ hist'[task[u].input_event].kind = "message" /\ hist'[task[u].input_event].task = u
          BY <1>2 DEF InputIsOwn
        <4>1. PICK e \in Nat : e = task[u].input_event
          BY DEF TypeOK, TaskRow
        <4>2. Own(e, u)
          BY <1>5, <4>1 DEF RecordInv, InputIsOwn, Own
        <4>3. Own(e, u)'
          BY <3>2, <4>2
        <4> QED BY <4>1, <4>3 DEF Own
      <3> QED BY <3>4, <3>5, <3>6 DEF RecordInv
    <2> QED BY <1>6, <2>1, <2>2
  <1>8. Solo'
    BY <1>0, <1>3 DEF DeployInv, Moves, Solo, Owns
  <1>9. RunInv(w)'
    <2>1. CASE CreateSession(w)
      <3>1. loc'[w].pc \in {"attach", "hold", "fail_context"} /\ loc[w].pc = "create"
        BY <2>1, GotoMoves, OutcomeMoves DEF CreateSession, Hold, At
      <3> QED BY <1>2, <1>5, <3>1 DEF RunInv, BindPcs
    <2>2. CASE SendMessage(w)
      <3>1. \/ /\ Grows("message", t)
               /\ loc' = [loc EXCEPT ![w] = [@ EXCEPT !.pc = "bind_sent", !.ev = Len(hist) + 1]]
            \/ \E r \in HeldReasons : GotoWith(w, "hold", r)
            \/ GotoWith(w, "finish", "FAILED")
        BY <1>1, <2>2, AppendGrows DEF SendMessage, Hold, HeldReasons
      <3>2. CASE \/ \E r \in HeldReasons : GotoWith(w, "hold", r)
                 \/ GotoWith(w, "finish", "FAILED")
        <4>1. loc'[w].pc \in {"hold", "finish"}
          BY <3>2, OutcomeMoves
        <4> QED BY <4>1, FreeKnows DEF BindPcs
      <3>3. CASE /\ Grows("message", t)
                 /\ loc' = [loc EXCEPT ![w] = [@ EXCEPT !.pc = "bind_sent", !.ev = Len(hist) + 1]]
        <4>1. loc'[w].pc = "bind_sent" /\ loc'[w].ev = Len(hist) + 1 /\ loc'[w].task = t
          BY <1>0, <1>1, <3>3 DEF Local
        <4>2. ASSUME NEW e \in Nat, loc'[w].ev = e PROVE Own(e, t)'
          BY <3>3, <4>1, <4>2, MessageHistory
        <4> QED BY <4>1, <4>2 DEF RunInv, BindPcs
      <3> QED BY <3>1, <3>2, <3>3
    <2> QED BY <2>1, <2>2
  <1>10. \A v \in Workers : RunInv(v)'
    <2>1. \A v \in Workers \ {w} : loc'[v].pc = "idle"
      BY <1>0, <1>3 DEF Moves
    <2> QED BY <1>9, <2>1, IdleKnows
  <1> QED BY <1>7, <1>8, <1>10 DEF DeployInv

\* While no run outlives its lease, the rows and the history agree.
LEMMA DeployHolds == ~LateEffects /\ Spec => []DeployInv
  <1>1. Init => DeployInv
    <2> SUFFICES ASSUME Init PROVE DeployInv
      OBVIOUS
    <2>1. hist = <<>> /\ Len(hist) = 0 /\ 1..0 = {}
      BY DEF Init
    <2>2. RecordInv
      BY <2>1 DEF Init, RecordInv, FreshInv, ScopeInv, InputIsOwn, VerifiedAbsent, Sent, Foreign,
                  NoTask
    <2>3. Solo /\ \A w \in Workers : RunInv(w)
      BY DEF Init, IdleLocal, Solo, RunInv, BindPcs
    <2> QED BY <2>2, <2>3 DEF DeployInv
  <1>2. ~LateEffects /\ TypeOK /\ OwnerInv /\ SessionInv /\ DeployInv /\ [Next]_vars => DeployInv'
    <2> SUFFICES ASSUME ~LateEffects, TypeOK, OwnerInv, SessionInv, DeployInv, [Next]_vars
                 PROVE  DeployInv'
      OBVIOUS
    <2>1. CASE Next
      BY <2>1, NextMoves, DeployService, DeployOperator, DeployProvider, DeployEnds, DeployLease,
         DeployPick, DeployQuiet, DeployBind, DeploySend
    <2>2. CASE UNCHANGED vars
      <3>1. UNCHANGED <<ctx, task, hist, cma, loc>>
        BY <2>2 DEF vars
      <3>2. RecordInv'
        BY <3>1, QuietHistory, RecordFrame DEF DeployInv
      <3>3. Solo'
        BY <3>1 DEF DeployInv, Solo, Owns
      <3>4. \A v \in Workers : RunInv(v)'
        BY <3>1, QuietHistory DEF DeployInv, RunInv, BindPcs, SameMessages
      <3> QED BY <3>2, <3>3, <3>4 DEF DeployInv
    <2> QED BY <2>1, <2>2
  <1>3. CASE LateEffects
    BY <1>3
  <1>4. CASE ~LateEffects
    <2>1. TypeOK /\ OwnerInv /\ SessionInv /\ DeployInv /\ [Next]_vars => DeployInv'
      BY <1>2, <1>4
    <2> QED BY <1>1, <2>1, TypeCorrect, OwnerHolds, SessionHolds, PTL DEF Spec
  <1> QED BY <1>3, <1>4

\* As deployed, where no run outlives its lease, the provider accepts at most one message
\* of a task, through lost answers, crashes and retries by the operator.
THEOREM AcceptedAtMostOnce == ~LateEffects /\ Spec => []AcceptedOnce
  <1>1. DeployInv => AcceptedOnce
    <2> SUFFICES ASSUME DeployInv, NEW t \in Tasks PROVE Cardinality(Sent(t)) <= 1
      BY DEF AcceptedOnce
    <2>1. \A i, j \in Sent(t) : i = j
      BY DEF DeployInv, RecordInv, FreshInv
    <2>2. CASE Sent(t) = {}
      BY <2>2, FS_EmptySet
    <2>3. CASE Sent(t) # {}
      <3>1. PICK i \in Sent(t) : Sent(t) = {i}
        BY <2>1, <2>3
      <3> QED BY <3>1, FS_Singleton
    <2> QED BY <2>2, <2>3
  <1> QED BY <1>1, DeployHolds, PTL

\* As deployed, the event a task is bound to, by the answer to a send or by recovery from
\* the history, is the task's own message.
THEOREM BoundToOwnMessage == ~LateEffects /\ Spec => []InputIsOwn
  <1>1. DeployInv => InputIsOwn
    BY DEF DeployInv, RecordInv
  <1> QED BY <1>1, DeployHolds, PTL

----
\* ConfirmedAsDecided

\* The confirmations of a task's tool use, named by the event that asks for it.
AnswersTo(t, a) ==
    {i \in 1..Len(hist) :
        hist[i].kind \in {"allow", "deny"} /\ hist[i].task = t /\ hist[i].answers = a}

OnceAnswered == \A t \in Tasks \cup {None}, a \in Nat : \A i, j \in AnswersTo(t, a) : i = j

\* The open review is the latest the task ever had, is undecided only before its attempt,
\* and what answers it was attempted and says what is on file.
ReviewInv(t) ==
    /\ task[t].asked <= Len(hist)
    /\ task[t].asked # 0 => hist[task[t].asked].kind = "requires_action"
    /\ task[t].request = "pending" => ~task[t].attempted
    /\ \A a \in Nat : \A i \in AnswersTo(t, a) :
          /\ a <= task[t].asked
          /\ a = task[t].asked => task[t].attempted /\ hist[i].kind = task[t].decision

\* A worker about to confirm is the only one for its tool use, which has no answer yet; it
\* may be late, for a review that another one replaced.
ConfirmInv(w) ==
    loc[w].pc = "confirm" =>
        \A t \in Tasks, a \in Nat : loc[w].task = t /\ loc[w].ev = a =>
            /\ AnswersTo(t, a) = {}
            /\ a <= task[t].asked
            /\ a = task[t].asked => task[t].attempted /\ loc[w].says = task[t].decision
            /\ \A v \in Workers :
                  loc[v].pc = "confirm" /\ loc[v].task = t /\ loc[v].ev = a => v = w

\* The listing in which the lease holder looks for a review has the one on file.
DiscoverInv(w) ==
    Owns(w) /\ loc[w].pc = "discover" =>
        \A t \in Tasks : loc[w].task = t => task[t].asked <= loc[w].snap

AskInv ==
    /\ OnceAnswered
    /\ \A t \in Tasks : ReviewInv(t)
    /\ \A w \in Workers : ConfirmInv(w) /\ DiscoverInv(w)

\* The last of some positions of the history is one of them and none is later.
LEMMA LastIsLast ==
    ASSUME TypeOK, NEW K, NEW lo, NEW hi, NEW i \in EventsOf(K, lo, hi)
    PROVE  /\ LastOf(EventsOf(K, lo, hi)) \in EventsOf(K, lo, hi)
           /\ i <= LastOf(EventsOf(K, lo, hi))
  <1> DEFINE S == EventsOf(K, lo, hi)
             n == Len(hist)
             T == {k \in Nat : n - k \in S}
  <1>1. n \in Nat /\ \A j \in S : j \in 1..n
    BY DEF EventsOf, TypeOK
  <1>2. T \subseteq Nat /\ n - i \in T
    BY <1>1
  <1>3. PICK k \in T : \A l \in T : ~ (<<l, k>> \in OpToRel(<, Nat))
    BY <1>2, NatLessThanWellFounded, WFMin, Zenon
  <1>4. \A l \in T : ~(l < k)
    BY <1>3 DEF OpToRel
  <1>5. n - k \in S /\ k \in Nat
    BY <1>3
  <1> HIDE DEF S
  <1>6. ASSUME NEW j \in S PROVE j <= n - k
    <2>1. j \in 1..n /\ n - (n - j) = j
      BY <1>1
    <2>2. n - j \in T
      BY <1>1, <2>1
    <2>3. ~(n - j < k)
      BY <1>4, <2>2
    <2> QED BY <1>1, <1>5, <2>1, <2>3
  <1>7. \E m \in S : \A j \in S : j <= m
    BY <1>5, <1>6
  <1>8. LastOf(S) = CHOOSE m \in S : \A j \in S : j <= m
    BY <1>7 DEF LastOf
  <1>9. i \in S
    BY DEF S
  <1>10. LastOf(S) \in S /\ \A j \in S : j <= LastOf(S)
    BY <1>7, <1>8
  <1> QED BY <1>9, <1>10 DEF S

\* An event that is no confirmation, or none at all, answers nothing.
LEMMA NothingAnswered ==
    ASSUME TypeOK,
           \/ UNCHANGED hist
           \/ \E k \in EventKinds \ {"allow", "deny"}, u \in Tasks \cup {None} : Grows(k, u)
    PROVE  /\ \A t, a : AnswersTo(t, a)' = AnswersTo(t, a)
           /\ Len(hist) \in Nat /\ Len(hist') \in Nat /\ Len(hist) <= Len(hist')
           /\ \A i \in 1..Len(hist) : hist'[i] = hist[i]
  <1>1. CASE UNCHANGED hist
    BY <1>1 DEF AnswersTo, TypeOK
  <1>2. ASSUME NEW k \in EventKinds \ {"allow", "deny"}, NEW u \in Tasks \cup {None}, Grows(k, u)
        PROVE  /\ \A t, a : AnswersTo(t, a)' = AnswersTo(t, a)
               /\ Len(hist) \in Nat /\ Len(hist') \in Nat /\ Len(hist) <= Len(hist')
               /\ \A i \in 1..Len(hist) : hist'[i] = hist[i]
    <2>1. PICK n \in Nat :
             /\ Len(hist) = n /\ Len(hist') = n + 1
             /\ 1..(n + 1) = 1..n \cup {n + 1} /\ n + 1 \notin 1..n
             /\ \A i \in 1..n : hist'[i] = hist[i]
             /\ hist'[n + 1].kind = k
      BY <1>2, AppendHist
    <2>2. hist'[n + 1].kind \notin {"allow", "deny"}
      BY <2>1
    <2>3. ASSUME NEW t, NEW a PROVE AnswersTo(t, a)' = AnswersTo(t, a)
      BY <2>1, <2>2 DEF AnswersTo
    <2> QED BY <2>1, <2>3
  <1> QED BY <1>1, <1>2

\* The task is asked again, or was not attempted: nothing answers its review.
Renewed(u) ==
    /\ task'[u].asked \in Nat /\ task[u].asked <= task'[u].asked /\ task'[u].asked <= Len(hist)
    /\ task'[u].asked # 0 => hist[task'[u].asked].kind = "requires_action"
    /\ task'[u].asked = task[u].asked => ~task[u].attempted
    /\ ~task'[u].attempted

\* Nobody gets to a confirmation, and no review that was attempted is decided again.
LEMMA AskFrame ==
    ASSUME TypeOK, AskInv,
           \A u \in Tasks : ReviewKept(u) \/ Renewed(u),
           \/ UNCHANGED hist
           \/ \E k \in EventKinds \ {"allow", "deny"}, u \in Tasks \cup {None} : Grows(k, u),
           \A v \in Workers : loc'[v].pc = "confirm" => loc'[v] = loc[v],
           \A v \in Workers : DiscoverInv(v)'
    PROVE  AskInv'
  <1>0. \A u \in Tasks : task[u].asked \in Nat
    BY DEF TypeOK, TaskRow
  <1>1. /\ \A t, a : AnswersTo(t, a)' = AnswersTo(t, a)
        /\ Len(hist) \in Nat /\ Len(hist') \in Nat /\ Len(hist) <= Len(hist')
        /\ \A i \in 1..Len(hist) : hist'[i] = hist[i]
    BY NothingAnswered
  <1>2. OnceAnswered'
    BY <1>1 DEF AskInv, OnceAnswered
  <1>3. ASSUME NEW u \in Tasks PROVE ReviewInv(u)'
    <2>0. ReviewInv(u) /\ task[u].asked \in Nat
      BY <1>0 DEF AskInv
    <2>1. ASSUME NEW a \in Nat, NEW i \in AnswersTo(u, a)'
          PROVE  /\ i \in AnswersTo(u, a) /\ hist'[i] = hist[i]
                 /\ a <= task[u].asked
                 /\ a = task[u].asked => task[u].attempted /\ hist[i].kind = task[u].decision
      <3>1. i \in AnswersTo(u, a)
        BY <1>1, <2>1
      <3>2. i \in 1..Len(hist)
        BY <3>1 DEF AnswersTo
      <3> QED BY <1>1, <2>0, <3>1, <3>2 DEF ReviewInv
    <2>2. CASE ReviewKept(u)
      <3>1. /\ task'[u].asked <= Len(hist')
            /\ task'[u].asked # 0 => hist'[task'[u].asked].kind = "requires_action"
        BY <1>1, <2>0, <2>2 DEF ReviewInv, ReviewKept
      <3> QED BY <2>0, <2>1, <2>2, <3>1 DEF ReviewInv, ReviewKept
    <2>3. CASE Renewed(u)
      <3>1. /\ task'[u].asked <= Len(hist')
            /\ task'[u].asked # 0 => hist'[task'[u].asked].kind = "requires_action"
        BY <1>1, <2>0, <2>3 DEF Renewed
      <3>2. ASSUME NEW a \in Nat, NEW i \in AnswersTo(u, a)'
            PROVE  a <= task'[u].asked /\ a # task'[u].asked
        BY <2>0, <2>1, <2>3, <3>2 DEF Renewed
      <3> QED BY <2>3, <3>1, <3>2 DEF ReviewInv, Renewed
    <2> QED BY <2>2, <2>3
  <1>4. ASSUME NEW v \in Workers PROVE ConfirmInv(v)'
    <2> SUFFICES ASSUME loc'[v].pc = "confirm", NEW t \in Tasks, NEW a \in Nat,
                        loc'[v].task = t, loc'[v].ev = a
                 PROVE  /\ AnswersTo(t, a)' = {}
                        /\ a <= task'[t].asked
                        /\ a = task'[t].asked => task'[t].attempted /\ loc'[v].says = task'[t].decision
                        /\ \A x \in Workers :
                              loc'[x].pc = "confirm" /\ loc'[x].task = t /\ loc'[x].ev = a => x = v
      BY DEF ConfirmInv
    <2>1. loc'[v] = loc[v]
      OBVIOUS
    <2>2. /\ AnswersTo(t, a) = {} /\ a <= task[t].asked
          /\ a = task[t].asked => task[t].attempted /\ loc[v].says = task[t].decision
          /\ \A x \in Workers :
                loc[x].pc = "confirm" /\ loc[x].task = t /\ loc[x].ev = a => x = v
      BY <2>1 DEF AskInv, ConfirmInv
    <2>3. \A x \in Workers :
             loc'[x].pc = "confirm" /\ loc'[x].task = t /\ loc'[x].ev = a => x = v
      BY <2>2
    <2>4. a <= task'[t].asked /\ (a = task'[t].asked => task'[t].attempted /\ loc'[v].says = task'[t].decision)
      <3>1. CASE ReviewKept(t)
        BY <2>1, <2>2, <3>1 DEF ReviewKept
      <3>2. CASE Renewed(t)
        BY <1>0, <2>2, <3>2 DEF Renewed
      <3> QED BY <3>1, <3>2
    <2> QED BY <1>1, <2>2, <2>3, <2>4
  <1> QED BY <1>2, <1>3, <1>4 DEF AskInv

\* What the lease holder knows of the listing lasts while the reviews do.
LEMMA DiscoverFrame ==
    ASSUME AskInv, NEW v \in Workers, loc'[v] = loc[v], Owns(v)' => Owns(v),
           \A u \in Tasks : task'[u].asked = task[u].asked
    PROVE  DiscoverInv(v)'
  BY DEF AskInv, DiscoverInv

\* The service, the operator and the lease.
LEMMA AskOutside ==
    ASSUME TypeOK, AskInv,
           \/ \E t \in Tasks : Admit(t) \/ CancelTask(t) \/ AdminFail(t) \/ AdminRetry(t)
           \/ LeaseExpires
    PROVE  AskInv'
  <1>0. task \in [Tasks -> TaskRow] /\ ctx \in ContextRow
    BY DEF TypeOK
  <1>1. UNCHANGED <<hist, loc>>
    BY DEF Admit, CancelTask, AdminFail, AdminRetry, LeaseExpires
  <1>2. \A u \in Tasks : ReviewKept(u)
    <2>1. ASSUME NEW t \in Tasks, Admit(t) PROVE \A u \in Tasks : ReviewKept(u)
      BY <1>0, <2>1, ZenonT(60) DEF Admit, TaskRow, ReviewKept
    <2>2. ASSUME NEW t \in Tasks, CancelTask(t) PROVE \A u \in Tasks : ReviewKept(u)
      <3>1. CASE task' = [task EXCEPT ![t] = [@ EXCEPT
                     !.internal_state = "terminal", !.a2a_state = "CANCELED"]]
        BY <1>0, <3>1 DEF TaskRow, ReviewKept
      <3>2. CASE task' = [task EXCEPT ![t] = [@ EXCEPT !.cancel_requested = TRUE]]
        BY <1>0, <3>2 DEF TaskRow, ReviewKept
      <3> QED BY <2>2, <3>1, <3>2 DEF CancelTask
    <2>3. ASSUME NEW t \in Tasks, AdminFail(t) PROVE \A u \in Tasks : ReviewKept(u)
      BY <1>0, <2>3 DEF AdminFail, TaskRow, ReviewKept
    <2>4. ASSUME NEW t \in Tasks, AdminRetry(t) PROVE \A u \in Tasks : ReviewKept(u)
      BY <1>0, <2>4 DEF AdminRetry, TaskRow, ReviewKept
    <2>5. CASE LeaseExpires
      BY <2>5 DEF LeaseExpires, ReviewKept
    <2> QED BY <2>1, <2>2, <2>3, <2>4, <2>5
  <1>3. \A v \in Workers : Owns(v)' => Owns(v)
    BY LeaseKept
  <1>4. \A v \in Workers : DiscoverInv(v)'
    BY <1>1, <1>2, <1>3, DiscoverFrame DEF ReviewKept
  <1> QED BY <1>1, <1>2, <1>4, AskFrame

\* The start and the end of a run.
LEMMA AskEnds ==
    ASSUME TypeOK, AskInv, NEW w \in Workers,
           \/ ClaimScheduler(w) \/ ReleaseScheduler(w) \/ LoseClaim(w) \/ Raise(w) \/ Crash(w)
           \/ ReconcileActive(w) \/ ReconcileQueued(w) \/ ReconcileNothing(w)
           \/ ActivateTask(w) \/ FinishTask(w) \/ ClearActive(w)
    PROVE  AskInv'
  <1>0. /\ task \in [Tasks -> TaskRow] /\ ctx \in ContextRow
        /\ LocalFits(loc[w])
    BY DEF TypeOK, LocalOK
  <1>1. /\ UNCHANGED hist
        /\ \A v \in Workers \ {w} : loc'[v] = loc[v] /\ (Owns(v)' => Owns(v))
        /\ loc'[w].pc \notin {"confirm", "discover"}
    <2>1. CASE ~ActivateTask(w)
      BY <2>1, RunEnds
    <2>2. CASE ActivateTask(w)
      <3>1. Goto(w, "send") \/ Goto(w, "find") \/ Goto(w, "release")
        BY <2>2 DEF ActivateTask
      <3>2. UNCHANGED hist /\ \A v \in Workers : Owns(v)' => Owns(v)
        BY <1>0, <2>2 DEF ActivateTask, ContextRow, Owns
      <3> QED BY <3>1, <3>2, GotoMoves
    <2> QED BY <2>1, <2>2
  <1>2. \A u \in Tasks : ReviewKept(u)
    <2>1. CASE ActivateTask(w)
      <3>1. loc[w].task \in Tasks
        BY <1>0, <2>1 DEF ActivateTask, At, LocalFits
      <3>2. CASE UNCHANGED task
        BY <3>2 DEF ReviewKept
      <3>3. CASE task' = [task EXCEPT ![loc[w].task] = [@ EXCEPT
                     !.internal_state = "dispatching", !.predecessor = loc[w].snap,
                     !.dispatch_attempts = task[loc[w].task].dispatch_attempts + 1]]
        BY <1>0, <3>1, <3>3 DEF TaskRow, ReviewKept
      <3> QED BY <2>1, <3>2, <3>3 DEF ActivateTask
    <2>2. CASE FinishTask(w)
      <3>1. loc[w].task \in Tasks
        BY <1>0, <2>2 DEF FinishTask, At, LocalFits
      <3> QED BY <1>0, <2>2, <3>1 DEF FinishTask, TaskRow, ReviewKept
    <2>3. CASE ~ActivateTask(w) /\ ~FinishTask(w)
      BY <2>3 DEF ClaimScheduler, ReleaseScheduler, LoseClaim, Raise, Crash, ReconcileActive,
             ReconcileQueued, ReconcileNothing, ClearActive, ReviewKept
    <2> QED BY <2>1, <2>2, <2>3
  <1>3. ASSUME NEW v \in Workers PROVE DiscoverInv(v)'
    <2>1. CASE v = w
      BY <1>1, <2>1 DEF DiscoverInv
    <2>2. CASE v # w
      BY <1>1, <1>2, <2>2, DiscoverFrame DEF ReviewKept
    <2> QED BY <2>1, <2>2
  <1> QED BY <1>1, <1>2, <1>3, AskFrame

\* The provider says nothing about a review that a worker confirms.
LEMMA AskProvider ==
    ASSUME TypeOK, AskInv, Provider
    PROVE  AskInv'
  <1>1. UNCHANGED <<ctx, task, loc>>
    BY DEF Provider, ProviderListsInitial, ProviderRuns, ProviderRests, ProviderYields, ProviderStops
  <1>2. \E k \in EventKinds \ {"allow", "deny"}, u \in Tasks \cup {None} : Grows(k, u)
    <2>1. CASE ProviderListsInitial
      BY <2>1, AppendGrows DEF ProviderListsInitial, TypeOK, EventKinds, Statuses
    <2>2. CASE ~ProviderListsInitial
      BY <2>2, ProviderAppends, AppendGrows
    <2> QED BY <2>1, <2>2
  <1>3. \A v \in Workers : DiscoverInv(v)'
    BY <1>1, DiscoverFrame DEF Owns
  <1> QED BY <1>1, <1>2, <1>3, AskFrame DEF ReviewKept

\* Only a committed attempt leads to a confirmation, and only a status to a new review.
LEMMA AskTarget ==
    ASSUME TypeOK, NEW w \in Workers, MoveStep(w), ~MarkConfirmation(w), ~ReadStatus(w)
    PROVE  loc'[w].pc \notin {"confirm", "discover"}
  <1>0. loc \in [Workers -> Local]
    BY DEF TypeOK, LocalOK
  <1>1. CASE FindSession(w) \/ RecoverSession(w) \/ CancelSettled(w) \/ CancelOpen(w)
    BY <1>1, GotoMoves, OutcomeMoves DEF FindSession, RecoverSession, CancelSettled, CancelOpen, Hold
  <1>2. CASE CreateSession(w) \/ Interrupt(w) \/ ConfirmTool(w)
    BY <1>2, GotoMoves, OutcomeMoves DEF CreateSession, Interrupt, ConfirmTool, Hold
  <1>3. CASE \/ Recheck(w) \/ ReconcileConfirmations(w) \/ DiscoverReview(w) \/ ResolveReview(w)
             \/ CancelBlocked(w) \/ SetRunning(w) \/ SetWaiting(w) \/ HoldConfirmation(w)
             \/ FailContext(w) \/ HoldTask(w) \/ AttachSession(w) \/ MarkInterrupt(w)
    <2>1. \E p \in Pcs \ {"confirm", "discover"} : Goto(w, p)
      BY <1>3 DEF Recheck, ReconcileConfirmations, DiscoverReview, ResolveReview, CancelBlocked,
                  SetRunning, SetWaiting, HoldConfirmation, FailContext, HoldTask, AttachSession,
                  MarkInterrupt, Pcs
    <2> QED BY <2>1, GotoMoves
  <1>4. CASE SettleHold(w)
    BY <1>4, GotoMoves DEF SettleHold
  <1>5. CASE StorePolicyHold(w) \/ RecordDecision(w)
    BY <1>5, GotoMoves, OutcomeMoves DEF StorePolicyHold, RecordDecision
  <1>6. CASE EvaluateReview(w)
    <2>1. \/ Goto(w, "release")
          \/ \E p \in {"recheck", "wait", "policy"}, o \in A2aStates \cup HeldReasons :
                GotoWith(w, p, o)
      BY <1>6 DEF EvaluateReview, A2aStates, HeldReasons
    <2> QED BY <2>1, GotoMoves, OutcomeMoves
  <1>7. CASE BindInput(w)
    <2>1. PICK p \in {"release", "active", "cancel", "confirmations"} :
             loc' = [loc EXCEPT ![w] = [@ EXCEPT
                         !.cancel = task[loc[w].task].cancel_requested, !.pc = p]]
      BY <1>7 DEF BindInput, At
    <2>2. loc'[w].pc = p
      BY <1>0, <2>1 DEF Local
    <2> QED BY <2>2
  <1>8. CASE SendMessage(w)
    <2>1. CASE loc' = [loc EXCEPT ![w] = [@ EXCEPT !.pc = "bind_sent", !.ev = Len(hist) + 1]]
      BY <1>0, <2>1 DEF Local
    <2> QED BY <1>8, <2>1, OutcomeMoves DEF SendMessage, Hold
  <1>9. CASE InitialInput(w) \/ ListActive(w)
    <2>1. CASE \E r : Hold(w, r)
      BY <2>1, OutcomeMoves DEF Hold
    <2>2. CASE \E e : loc' = [loc EXCEPT ![w] = [@ EXCEPT !.pc = "bind_initial", !.ev = e]]
      BY <1>0, <2>2 DEF Local
    <2>3. CASE \E e \in Nat, p \in {"bind_found", "cancel", "confirmations"} :
                  loc' = [loc EXCEPT ![w] = [@ EXCEPT !.snap = Len(hist), !.ev = e, !.pc = p]]
      BY <1>0, <2>3 DEF Local
    <2>4. CASE InitialInput(w)
      BY <2>1, <2>2, <2>4 DEF InitialInput
    <2>5. CASE ListActive(w)
      <3>1. FirstOf(EventsOf({"message"}, task[loc[w].task].predecessor, Len(hist))) \in Nat
        BY ListingType
      <3> QED BY <2>1, <2>3, <2>5, <3>1 DEF ListActive
    <2> QED BY <1>9, <2>4, <2>5
  <1> QED BY <1>1, <1>2, <1>3, <1>4, <1>5, <1>6, <1>7, <1>8, <1>9 DEF MoveStep, CallStep, ReviewStep

\* The second listing.
LEMMA AskRead ==
    ASSUME TypeOK, AskInv, NEW w \in Workers, ReadStatus(w)
    PROVE  loc'[w].pc # "confirm" /\ DiscoverInv(w)'
  <1>0. loc \in [Workers -> Local]
    BY DEF TypeOK, LocalOK
  <1> DEFINE status == LatestStatus(task[loc[w].task].input_event, Len(hist))
  <1>1. status \in Statuses \cup {"none"}
    <2>1. \A i \in EventsOf(Statuses, task[loc[w].task].input_event, Len(hist)) :
             hist[i].kind \in Statuses
      BY DEF EventsOf
    <2> QED BY <2>1 DEF LatestStatus, LastOf
  <1>2. \/ Goto(w, "release") \/ Goto(w, "running")
        \/ \E p \in {"review", "discover"} :
              loc' = [loc EXCEPT ![w] = [@ EXCEPT !.pc = p, !.snap = Len(hist)]]
        \/ GotoWith(w, "fail_context", "FAILED") \/ GotoWith(w, "finish", "COMPLETED")
    BY <1>1 DEF ReadStatus, Statuses
  <1>3. CASE \E p \in {"review", "discover"} :
                loc' = [loc EXCEPT ![w] = [@ EXCEPT !.pc = p, !.snap = Len(hist)]]
    <2>1. loc'[w].pc \in {"review", "discover"} /\ loc'[w].snap = Len(hist)
      BY <1>0, <1>3 DEF Local
    <2>2. \A t \in Tasks : task'[t].asked <= Len(hist)
      BY DEF ReadStatus, AskInv, ReviewInv
    <2> QED BY <2>1, <2>2 DEF DiscoverInv
  <1>4. CASE \/ Goto(w, "release") \/ Goto(w, "running")
             \/ GotoWith(w, "fail_context", "FAILED") \/ GotoWith(w, "finish", "COMPLETED")
    <2>1. loc'[w].pc \in {"release", "running", "fail_context", "finish"}
      BY <1>4, GotoMoves, OutcomeMoves
    <2> QED BY <2>1 DEF DiscoverInv
  <1> QED BY <1>2, <1>3, <1>4

\* A step on the way that neither rules nor confirms.
LEMMA AskQuiet ==
    ASSUME TypeOK, AskInv, NEW w \in Workers, MoveStep(w), ~RulingStep(w), ~ConfirmTool(w)
    PROVE  AskInv'
  <1>0. Moves(w) /\ loc[w].task \in Tasks
    BY MoveShape DEF TypeOK, LocalOK, LocalFits, Moves, ActivePcs
  <1>1. \A u \in Tasks : ReviewKept(u)
    BY RowsMove DEF RowKept
  <1>2. \/ UNCHANGED hist
        \/ \E k \in EventKinds \ {"allow", "deny"}, u \in Tasks \cup {None} : Grows(k, u)
    <2>1. CASE ~CallStep(w)
      BY <2>1, QuietMove
    <2>2. CASE CreateSession(w) \/ SendMessage(w)
      <3>1. UNCHANGED hist \/ Append1("message", loc[w].task)
        BY <2>2 DEF CreateSession, SendMessage
      <3> QED BY <1>0, <3>1, AppendGrows DEF EventKinds
    <2>3. CASE Interrupt(w)
      <3>1. UNCHANGED hist \/ Append1("interrupt", None)
        BY <2>3 DEF Interrupt
      <3> QED BY <3>1, AppendGrows DEF EventKinds
    <2> QED BY <2>1, <2>2, <2>3 DEF CallStep
  <1>3. \A v \in Workers : Owns(v)' <=> Owns(v)
    BY <1>0 DEF Moves, Owns
  <1>4. loc'[w].pc # "confirm" /\ DiscoverInv(w)'
    <2>1. CASE ReadStatus(w)
      BY <2>1, AskRead
    <2>2. CASE ~ReadStatus(w)
      BY <2>2, AskTarget DEF DiscoverInv, RulingStep
    <2> QED BY <2>1, <2>2
  <1>5. ASSUME NEW v \in Workers, v # w PROVE DiscoverInv(v)'
    BY <1>0, <1>1, <1>3, <1>5, DiscoverFrame DEF Moves, ReviewKept
  <1>6. \A v \in Workers : loc'[v].pc = "confirm" => loc'[v] = loc[v]
    BY <1>0, <1>4 DEF Moves
  <1>7. \A v \in Workers : DiscoverInv(v)'
    BY <1>4, <1>5
  <1> QED BY <1>1, <1>2, <1>6, <1>7, AskFrame

\* A new review is later than the one on file.
LEMMA AskDiscover ==
    ASSUME TypeOK, AskInv, NEW w \in Workers, Owns(w), DiscoverReview(w),
           LastOf(EventsOf({"requires_action"}, 0, loc[w].snap)) # task[loc[w].task].asked
    PROVE  Renewed(loc[w].task)
  <1> DEFINE t == loc[w].task
             S == EventsOf({"requires_action"}, 0, loc[w].snap)
             asked == LastOf(S)
  <1>0. /\ task \in [Tasks -> TaskRow] /\ t \in Tasks /\ task[t] \in TaskRow
        /\ loc[w].pc = "discover" /\ task[t].asked \in Nat
    BY DEF TypeOK, LocalOK, LocalFits, DiscoverReview, At, TaskRow
  <1>1. task[t].asked <= loc[w].snap /\ ReviewInv(t)
    BY <1>0 DEF AskInv, DiscoverInv
  <1>2. asked \in S /\ task[t].asked <= asked
    <2>1. CASE task[t].asked = 0
      <3>1. S # {}
        BY <2>1 DEF LastOf
      <3>2. PICK i \in S : TRUE
        BY <3>1
      <3>3. asked \in S
        BY <3>2, LastIsLast
      <3>4. asked \in Nat
        BY ListingType
      <3> QED BY <2>1, <3>3, <3>4
    <2>2. CASE task[t].asked # 0
      <3>1. task[t].asked \in S
        BY <1>0, <1>1, <2>2 DEF EventsOf, ReviewInv, TypeOK
      <3> QED BY <3>1, LastIsLast
    <2> QED BY <2>1, <2>2
  <1>3. asked \in 1..Len(hist) /\ hist[asked].kind = "requires_action" /\ Len(hist) \in Nat
    BY <1>2, ListingType DEF EventsOf
  <1>4. task'[t].asked = asked /\ ~task'[t].attempted
    BY <1>0 DEF DiscoverReview, TaskRow
  <1> QED BY <1>0, <1>2, <1>3, <1>4 DEF Renewed

\* A review is opened or ruled on before its attempt.
LEMMA AskRuling ==
    ASSUME TypeOK, AskInv, NEW w \in Workers,
           DiscoverReview(w) \/ RecordDecision(w) \/ CancelBlocked(w)
    PROVE  AskInv'
  <1> DEFINE t == loc[w].task
  <1>0. /\ task \in [Tasks -> TaskRow] /\ t \in Tasks /\ task[t] \in TaskRow
        /\ Moves(w) /\ MoveStep(w) /\ UNCHANGED hist
    BY MoveShape DEF MoveStep, ReviewStep, TypeOK, LocalOK, LocalFits, Moves, ActivePcs,
       DiscoverReview, RecordDecision, CancelBlocked
  <1>1. loc'[w].pc \notin {"confirm", "discover"}
    <2>1. ~MarkConfirmation(w) /\ ~ReadStatus(w)
      BY DEF DiscoverReview, RecordDecision, CancelBlocked, MarkConfirmation, ReadStatus, At
    <2> QED BY <1>0, <2>1, AskTarget
  <1>2. /\ \A u \in Tasks \ {t} : ReviewKept(u)
        /\ ReviewKept(t) \/ (Renewed(t) /\ (task'[t].asked = task[t].asked \/ Owns(w)))
    <2>0. ReviewInv(t) /\ task[t].asked \in Nat
      BY <1>0 DEF AskInv, TaskRow
    <2>1. CASE UNCHANGED task
      BY <2>1 DEF ReviewKept
    <2>2. CASE DiscoverReview(w) /\ task' # task
      <3>1. /\ Owns(w)
            /\ LastOf(EventsOf({"requires_action"}, 0, loc[w].snap)) # task[t].asked
        BY <2>2 DEF DiscoverReview
      <3>2. Renewed(t)
        BY <2>2, <3>1, AskDiscover
      <3>3. \A u \in Tasks \ {t} : task'[u] = task[u]
        BY <1>0, <2>2 DEF DiscoverReview
      <3> QED BY <3>1, <3>2, <3>3 DEF ReviewKept
    <2>3. ASSUME NEW d \in {"allow", "deny"}, ~task[t].attempted,
                 task' = [task EXCEPT ![t] = [@ EXCEPT !.request = "resolving", !.decision = d]]
          PROVE  /\ \A u \in Tasks \ {t} : ReviewKept(u)
                 /\ Renewed(t) /\ task'[t].asked = task[t].asked
      <3>1. /\ \A u \in Tasks \ {t} : task'[u] = task[u]
            /\ task'[t].asked = task[t].asked /\ task'[t].attempted = task[t].attempted
        BY <1>0, <2>3 DEF TaskRow
      <3> QED BY <2>0, <2>3, <3>1 DEF ReviewKept, Renewed, ReviewInv
    <2>4. CASE RecordDecision(w)
      <3>1. ~task[t].attempted
        BY <2>0, <2>4 DEF RecordDecision, ReviewInv
      <3> QED BY <2>3, <2>4, <3>1 DEF RecordDecision
    <2>5. CASE CancelBlocked(w) /\ task' # task
      <3>1. ~task[t].attempted
        BY <2>0, <2>5 DEF CancelBlocked, ReviewInv
      <3> QED BY <2>3, <2>5, <3>1 DEF CancelBlocked
    <2> QED BY <2>1, <2>2, <2>4, <2>5
  <1>3. ASSUME NEW v \in Workers PROVE DiscoverInv(v)'
    <2>1. CASE v = w
      BY <1>1, <2>1 DEF DiscoverInv
    <2>2. CASE v # w /\ ~Owns(w)
      <3>1. \A u \in Tasks : task'[u].asked = task[u].asked
        BY <1>2, <2>2 DEF ReviewKept
      <3> QED BY <1>0, <2>2, <3>1, DiscoverFrame DEF Moves, Owns
    <2>3. CASE v # w /\ Owns(w)
      BY <1>0, <2>3 DEF Moves, Owns, DiscoverInv
    <2> QED BY <2>1, <2>2, <2>3
  <1>4. \A v \in Workers : loc'[v].pc = "confirm" => loc'[v] = loc[v]
    BY <1>0, <1>1 DEF Moves
  <1>5. \A u \in Tasks : ReviewKept(u) \/ Renewed(u)
    BY <1>2
  <1> QED BY <1>0, <1>3, <1>4, <1>5, AskFrame

\* The attempt is committed by one worker, for a review that nothing answers.
LEMMA AskMark ==
    ASSUME TypeOK, AskInv, NEW w \in Workers, MarkConfirmation(w)
    PROVE  AskInv'
  <1> DEFINE t == loc[w].task
             asked == task[t].asked
  <1>0. /\ loc \in [Workers -> Local] /\ task \in [Tasks -> TaskRow]
        /\ t \in Tasks /\ task[t] \in TaskRow /\ asked \in Nat
        /\ Moves(w) /\ UNCHANGED hist
    BY MoveShape DEF MoveStep, ReviewStep, TypeOK, LocalOK, LocalFits, Moves, ActivePcs, TaskRow,
       MarkConfirmation
  <1>1. loc'[w].pc \in {"confirm", "settle"} /\ \A v \in Workers : Owns(v)' <=> Owns(v)
    <2>1. \/ loc' = [loc EXCEPT ![w] = [@ EXCEPT
                         !.pc = "confirm", !.says = task[t].decision, !.ev = asked]]
          \/ loc' = [loc EXCEPT ![w] = [@ EXCEPT !.pc = "settle"]]
      BY DEF MarkConfirmation
    <2>2. loc'[w].pc \in {"confirm", "settle"}
      BY <1>0, <2>1 DEF Local
    <2> QED BY <1>0, <2>2 DEF Moves, Owns
  <1>2. CASE UNCHANGED task /\ loc' = [loc EXCEPT ![w] = [@ EXCEPT !.pc = "settle"]]
    <2>1. loc'[w].pc = "settle"
      BY <1>0, <1>2 DEF Local
    <2>2. ASSUME NEW v \in Workers PROVE DiscoverInv(v)'
      <3>1. CASE v = w
        BY <2>1, <3>1 DEF DiscoverInv
      <3>2. CASE v # w
        BY <1>0, <1>1, <1>2, <3>2, DiscoverFrame DEF Moves
      <3> QED BY <3>1, <3>2
    <2>3. \A v \in Workers : loc'[v].pc = "confirm" => loc'[v] = loc[v]
      BY <1>0, <2>1 DEF Moves
    <2>4. \A u \in Tasks : ReviewKept(u)
      BY <1>2 DEF ReviewKept
    <2> QED BY <1>0, <2>2, <2>3, <2>4, AskFrame
  <1>3. CASE /\ ~task[t].attempted /\ task[t].request = "resolving"
             /\ task' = [task EXCEPT ![t] = [@ EXCEPT !.attempted = TRUE]]
             /\ loc' = [loc EXCEPT ![w] = [@ EXCEPT
                            !.pc = "confirm", !.says = task[t].decision, !.ev = asked]]
    <2>1. /\ loc'[w].pc = "confirm" /\ loc'[w].task = t /\ loc'[w].ev = asked
          /\ loc'[w].says = task[t].decision
          /\ \A v \in Workers \ {w} : loc'[v] = loc[v]
      BY <1>0, <1>3 DEF Local
    <2>2. /\ \A u \in Tasks : /\ task'[u].asked = task[u].asked
                              /\ task'[u].decision = task[u].decision
                              /\ task'[u].request = task[u].request
                              /\ u # t => task'[u].attempted = task[u].attempted
          /\ task'[t].attempted
      BY <1>0, <1>3 DEF TaskRow
    <2>3. \A u, a : AnswersTo(u, a)' = AnswersTo(u, a)
      BY <1>0 DEF AnswersTo
    <2>4. AnswersTo(t, asked) = {}
      BY <1>0, <1>3 DEF AskInv, ReviewInv
    <2>5. \A v \in Workers : ~(loc[v].pc = "confirm" /\ loc[v].task = t /\ loc[v].ev = asked)
      BY <1>0, <1>3 DEF AskInv, ConfirmInv
    <2>6. OnceAnswered'
      BY <2>3 DEF AskInv, OnceAnswered
    <2>7. ASSUME NEW u \in Tasks PROVE ReviewInv(u)'
      <3>1. ReviewInv(u)
        BY DEF AskInv
      <3>2. CASE u = t
        BY <1>0, <1>3, <2>2, <2>3, <2>4, <3>1, <3>2 DEF ReviewInv
      <3>3. CASE u # t
        BY <1>0, <2>2, <2>3, <3>1, <3>3 DEF ReviewInv
      <3> QED BY <3>2, <3>3
    <2>8. ConfirmInv(w)'
      BY <1>0, <2>1, <2>2, <2>3, <2>4, <2>5 DEF ConfirmInv
    <2>9. ASSUME NEW v \in Workers \ {w} PROVE ConfirmInv(v)'
      <3> SUFFICES ASSUME loc'[v].pc = "confirm", NEW u \in Tasks, NEW a \in Nat,
                          loc'[v].task = u, loc'[v].ev = a
                   PROVE  /\ AnswersTo(u, a)' = {}
                          /\ a <= task'[u].asked
                          /\ a = task'[u].asked => task'[u].attempted /\ loc'[v].says = task'[u].decision
                          /\ \A x \in Workers :
                                loc'[x].pc = "confirm" /\ loc'[x].task = u /\ loc'[x].ev = a => x = v
        BY DEF ConfirmInv
      <3>1. loc[v].pc = "confirm" /\ loc[v].task = u /\ loc[v].ev = a /\ loc'[v] = loc[v]
        BY <2>1
      <3>2. /\ AnswersTo(u, a) = {} /\ a <= task[u].asked
            /\ a = task[u].asked => task[u].attempted /\ loc[v].says = task[u].decision
            /\ \A x \in Workers :
                  loc[x].pc = "confirm" /\ loc[x].task = u /\ loc[x].ev = a => x = v
        BY <3>1 DEF AskInv, ConfirmInv
      <3>3. ~(u = t /\ a = asked)
        BY <2>5, <3>1
      <3>4. a = task'[u].asked => task'[u].attempted /\ loc'[v].says = task'[u].decision
        BY <2>2, <3>1, <3>2, <3>3
      <3>5. \A x \in Workers : loc'[x].pc = "confirm" /\ loc'[x].task = u /\ loc'[x].ev = a => x = v
        BY <2>1, <3>2, <3>3
      <3> QED BY <2>2, <2>3, <3>2, <3>4, <3>5
    <2>10. ASSUME NEW v \in Workers PROVE DiscoverInv(v)'
      <3>1. CASE v = w
        BY <2>1, <3>1 DEF DiscoverInv
      <3>2. CASE v # w
        BY <1>1, <2>1, <2>2, <3>2, DiscoverFrame
      <3> QED BY <3>1, <3>2
    <2> QED BY <2>6, <2>7, <2>8, <2>9, <2>10 DEF AskInv
  <1> QED BY <1>2, <1>3 DEF MarkConfirmation

\* The confirmation leaves with the worker that was to send it.
LEMMA AskConfirm ==
    ASSUME TypeOK, AskInv, NEW w \in Workers, ConfirmTool(w)
    PROVE  AskInv'
  <1>0. /\ loc[w] \in Local /\ LocalFits(loc[w]) /\ loc[w].pc = "confirm"
        /\ UNCHANGED <<ctx, task>>
    BY DEF TypeOK, LocalOK, ConfirmTool, At
  <1>t. PICK t \in Tasks, ev \in Nat : t = loc[w].task /\ ev = loc[w].ev
    BY <1>0 DEF LocalFits, Local
  <1>1. loc[w].says \in {"allow", "deny"} /\ \A u \in Tasks : task[u].asked \in Nat
    BY <1>0 DEF LocalFits, TypeOK, TaskRow
  <1>2. loc'[w].pc \notin {"confirm", "discover"} /\ \A v \in Workers \ {w} : loc'[v] = loc[v]
    BY GotoMoves, OutcomeMoves DEF ConfirmTool
  <1>3. \A v \in Workers : DiscoverInv(v)'
    <2>1. DiscoverInv(w)'
      BY <1>2 DEF DiscoverInv
    <2>2. ASSUME NEW v \in Workers \ {w} PROVE DiscoverInv(v)'
      BY <1>0, <1>2, DiscoverFrame DEF Owns
    <2> QED BY <2>1, <2>2
  <1>4. \A v \in Workers : loc'[v].pc = "confirm" => v # w /\ loc'[v] = loc[v]
    BY <1>2
  <1>5. CASE UNCHANGED hist
    <2>1. \A u \in Tasks : ReviewKept(u)
      BY <1>0 DEF ReviewKept
    <2> QED BY <1>3, <1>4, <1>5, <2>1, AskFrame
  <1>6. CASE Answer(loc[w].says, t, ev)
    <2>1. PICK n \in Nat : n = Len(hist)
      BY DEF TypeOK
    <2>2. /\ Len(hist') = n + 1
          /\ \A i \in 1..n : hist'[i] = hist[i]
          /\ hist'[n + 1].kind = loc[w].says /\ hist'[n + 1].task = t /\ hist'[n + 1].answers = ev
      BY <1>6, <2>1 DEF TypeOK, Answer, Event
    <2>3. 1..(n + 1) = 1..n \cup {n + 1} /\ n + 1 \notin 1..n
      BY <2>1
    <2>4. /\ AnswersTo(t, ev) = {} /\ ev <= task[t].asked
          /\ ev = task[t].asked => task[t].attempted /\ loc[w].says = task[t].decision
          /\ \A v \in Workers :
                loc[v].pc = "confirm" /\ loc[v].task = t /\ loc[v].ev = ev => v = w
      BY <1>0, <1>t DEF AskInv, ConfirmInv
    <2>5. ASSUME NEW u, NEW a, ~(u = t /\ a = ev) PROVE AnswersTo(u, a)' = AnswersTo(u, a)
      BY <2>1, <2>2, <2>3, <2>5 DEF AnswersTo
    <2>6. AnswersTo(t, ev)' = {n + 1}
      BY <1>1, <2>1, <2>2, <2>3, <2>4 DEF AnswersTo
    <2>7. OnceAnswered'
      <3> SUFFICES ASSUME NEW u \in Tasks \cup {None}, NEW a \in Nat,
                          NEW i \in AnswersTo(u, a)', NEW j \in AnswersTo(u, a)'
                   PROVE  i = j
        BY DEF OnceAnswered
      <3>1. CASE u = t /\ a = ev
        BY <2>6, <3>1
      <3>2. CASE ~(u = t /\ a = ev)
        BY <2>5, <3>2 DEF AskInv, OnceAnswered
      <3> QED BY <3>1, <3>2
    <2>8. ASSUME NEW u \in Tasks PROVE ReviewInv(u)'
      <3>0. ReviewInv(u) /\ task'[u] = task[u] /\ task[u].asked \in Nat
        BY <1>0, <1>1 DEF AskInv
      <3>1. /\ task'[u].asked <= Len(hist')
            /\ task'[u].asked # 0 => hist'[task'[u].asked].kind = "requires_action"
        BY <2>1, <2>2, <3>0 DEF ReviewInv
      <3>2. ASSUME NEW a \in Nat, NEW i \in AnswersTo(u, a)'
            PROVE  /\ a <= task[u].asked
                   /\ a = task[u].asked => task[u].attempted /\ hist'[i].kind = task[u].decision
        <4>1. CASE u = t /\ a = ev
          BY <2>2, <2>4, <2>6, <3>2, <4>1
        <4>2. CASE ~(u = t /\ a = ev)
          <5>1. i \in AnswersTo(u, a)
            BY <2>5, <3>2, <4>2
          <5>2. hist'[i] = hist[i]
            BY <2>1, <2>2, <5>1 DEF AnswersTo
          <5> QED BY <3>0, <5>1, <5>2 DEF ReviewInv
        <4> QED BY <4>1, <4>2
      <3> QED BY <3>0, <3>1, <3>2 DEF ReviewInv
    <2>9. ASSUME NEW v \in Workers PROVE ConfirmInv(v)'
      <3> SUFFICES ASSUME loc'[v].pc = "confirm", NEW u \in Tasks, NEW a \in Nat,
                          loc'[v].task = u, loc'[v].ev = a
                   PROVE  /\ AnswersTo(u, a)' = {}
                          /\ a <= task'[u].asked
                          /\ a = task'[u].asked => task'[u].attempted /\ loc'[v].says = task'[u].decision
                          /\ \A x \in Workers :
                                loc'[x].pc = "confirm" /\ loc'[x].task = u /\ loc'[x].ev = a => x = v
        BY DEF ConfirmInv
      <3>1. v # w /\ loc'[v] = loc[v]
        BY <1>4
      <3>2. /\ AnswersTo(u, a) = {} /\ a <= task[u].asked
            /\ a = task[u].asked => task[u].attempted /\ loc[v].says = task[u].decision
            /\ \A x \in Workers :
                  loc[x].pc = "confirm" /\ loc[x].task = u /\ loc[x].ev = a => x = v
        BY <3>1 DEF AskInv, ConfirmInv
      <3>3. ~(u = t /\ a = ev)
        BY <2>4, <3>1
      <3>4. AnswersTo(u, a)' = {}
        BY <2>5, <3>2, <3>3
      <3>5. \A x \in Workers : loc'[x].pc = "confirm" /\ loc'[x].task = u /\ loc'[x].ev = a => x = v
        BY <1>4, <3>2
      <3> QED BY <1>0, <3>1, <3>2, <3>4, <3>5
    <2> QED BY <1>3, <2>7, <2>8, <2>9 DEF AskInv
  <1> QED BY <1>t, <1>5, <1>6 DEF ConfirmTool

\* The review invariant holds.
LEMMA AskHolds == Spec => []AskInv
  <1>1. Init => AskInv
    <2> SUFFICES ASSUME Init PROVE AskInv
      OBVIOUS
    <2>1. hist = <<>> /\ Len(hist) = 0 /\ \A u, a : AnswersTo(u, a) = {}
      BY DEF Init, AnswersTo
    <2>2. \A u \in Tasks : task[u].asked = 0 /\ task[u].request = "none"
      BY DEF Init, NoTask
    <2>3. \A w \in Workers : loc[w].pc = "idle"
      BY DEF Init, IdleLocal
    <2> QED BY <2>1, <2>2, <2>3 DEF AskInv, OnceAnswered, ReviewInv, ConfirmInv, DiscoverInv
  <1>2. TypeOK /\ AskInv /\ [Next]_vars => AskInv'
    <2> SUFFICES ASSUME TypeOK, AskInv, [Next]_vars PROVE AskInv'
      OBVIOUS
    <2>1. CASE Next
      BY <2>1, NextMoves, AskOutside, AskEnds, AskProvider, AskQuiet, AskRuling, AskMark,
         AskConfirm DEF RulingStep
    <2>2. CASE UNCHANGED vars
      <3>1. \A v \in Workers : DiscoverInv(v)'
        BY <2>2, DiscoverFrame DEF vars, Owns
      <3> QED BY <2>2, <3>1, AskFrame DEF vars, ReviewKept
    <2> QED BY <2>1, <2>2
  <1> QED BY <1>1, <1>2, TypeCorrect, PTL DEF Spec

\* No tool use of a task is confirmed twice, and what answers the review on file is the
\* decision on file, for every number of reviews and of workers that may outlive their
\* lease: mark_confirmation_attempted() is committed by one worker, before the call, and
\* neither a ruling nor a stop changes a decision after it.
THEOREM ConfirmedOnce == Spec => []ConfirmedAsDecided
  <1>1. TypeOK /\ AskInv => ConfirmedAsDecided
    <2> SUFFICES ASSUME TypeOK, AskInv PROVE ConfirmedAsDecided
      OBVIOUS
    <2> DEFINE sent == EventsOf({"allow", "deny"}, 0, Len(hist))
    <2>1. ASSUME NEW i \in sent
          PROVE  /\ hist[i].task \in Tasks \cup {None} /\ hist[i].answers \in Nat
                 /\ i \in AnswersTo(hist[i].task, hist[i].answers)
      <3>1. i \in 1..Len(hist) /\ hist[i].kind \in {"allow", "deny"}
        BY <2>1 DEF EventsOf
      <3>2. hist[i] \in Event
        BY <3>1 DEF TypeOK
      <3> QED BY <3>1, <3>2 DEF Event, AnswersTo
    <2>2. ASSUME NEW i \in sent, NEW j \in sent,
                 hist[i].task = hist[j].task, hist[i].answers = hist[j].answers
          PROVE  i = j
      <3>1. PICK u \in Tasks \cup {None}, a \in Nat : u = hist[i].task /\ a = hist[i].answers
        BY <2>1
      <3>2. i \in AnswersTo(u, a) /\ j \in AnswersTo(u, a)
        BY <2>1, <2>2, <3>1
      <3> QED BY <3>2 DEF AskInv, OnceAnswered
    <2>3. ASSUME NEW i \in sent, NEW t \in Tasks,
                 hist[i].task = t, hist[i].answers = task[t].asked
          PROVE  hist[i].kind = task[t].decision
      BY <2>1, <2>3 DEF AskInv, ReviewInv
    <2> QED BY <2>2, <2>3 DEF ConfirmedAsDecided
  <1> QED BY <1>1, TypeCorrect, AskHolds, PTL
====
