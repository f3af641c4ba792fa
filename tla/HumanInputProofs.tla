---- MODULE HumanInputProofs ----
(***************************************************************************)
(* Proofs about HumanInput, for any number of workers, clients, policy      *)
(* documents, deployments, crashes and expired leases: its types, that the  *)
(* provider hears one answer per request and the one that was decided, that *)
(* a stop beats an allow, and that an allow rests on a consent.             *)
(***************************************************************************)
EXTENDS HumanInput, TLAPS

----
\* The inductive invariant

\* The review row: it is decided exactly when it left the states in which it may
\* still change, and only a decided review is attempted.
ReviewInv ==
    /\ review.status = "absent" => review = NoReview
    /\ review.status \in {"absent", "pending"} <=> review.decision = None
    /\ review.attempted => review.status \in {"resolving", "resolved"}
    /\ review.ruling # None => review.digest # None

\* The provider has heard nothing before the attempt was marked, and then at most
\* the decision of the row.
ConfirmInv ==
    /\ ~review.attempted => cma.confirmations = <<>>
    /\ Len(cma.confirmations) <= 1
    /\ \A i \in DOMAIN cma.confirmations : cma.confirmations[i] = review.decision

\* A worker about to confirm is the one that marked the attempt: it holds the
\* decision of the row, and nothing was confirmed yet.
SendInv(w) ==
    At(w, "send") => /\ review.attempted
                     /\ cma.confirmations = <<>>
                     /\ loc[w].row.decision = review.decision

OneSender == \A v, w \in Workers : At(v, "send") /\ At(w, "send") => v = w

\* The clarification row has an answer exactly when somebody answered, and only an
\* answered one is attempted.
ClarInv ==
    /\ clar.status \in {"absent", "pending"} <=> clar.answer = None
    /\ clar.attempted => clar.status \in {"resolving", "resolved"}
    /\ ~clar.attempted => cma.results = <<>>
    /\ Len(cma.results) <= 1
    /\ \A i \in DOMAIN cma.results : cma.results[i].text = clar.answer
    /\ clar.status = "resolving" /\ ~clar.attempted => clar.answer \in store

\* A worker about to answer is the one that marked the attempt.
RespondInv(w) ==
    /\ At(w, "respond") => clar.attempted /\ cma.results = <<>>
    /\ At(w, "unanswered") \/ At(w, "responded") \/ At(w, "delete") => clar.attempted
    /\ "answer" \in loc[w].seen => clar.attempted

OneResponder == \A v, w \in Workers : At(v, "respond") /\ At(w, "respond") => v = w

\* A cancellation text that is not yet, or will never be, the answer of the row.
CancelTextInv(w) ==
    /\ loc[w].pc \in {"cancel_text", "cancel_decide", "cancel_discard"} => clar.answer # w
    /\ At(w, "cancel_decide") => w \in store

\* The same for the answer of a client.
AnswerInv(c) ==
    /\ cli[c] # "done" => clar.answer # c
    /\ cli[c] = "decide" => c \in store

\* A request id stands for one fingerprint and takes one ruling: what was offered
\* and what was ruled on under the id of the row is what the row says.
OfferInv ==
    /\ \A o \in offers :
          /\ o.id <= review.id
          /\ o.id = review.id => o.digest = review.digest
    /\ \A g \in rulings :
          /\ g.offer.id <= review.id
          /\ g.offer.id = review.id => g.ruling = review.ruling
    /\ review.ruling # None =>
          [offer |-> [id |-> review.id, digest |-> review.digest],
           ruling |-> review.ruling] \in rulings

\* What a worker knows when it is about to publish: as long as the id is the one it
\* read, so are the fingerprint and a ruling; and an allow of the policy engine
\* came from the document, or from a ruling under the fingerprint of it.
PublishInv(w) ==
    At(w, "publish") =>
        /\ loc[w].out # "none"
        /\ loc[w].under # None
        /\ loc[w].row.id <= review.id
        /\ loc[w].row.id = review.id => loc[w].row.digest = review.digest
        /\ loc[w].row.id = review.id /\ loc[w].row.ruling # None =>
               review.ruling = loc[w].row.ruling
        /\ loc[w].out = "allow" =>
               \/ loc[w].row.ruling = None /\ Verdict[loc[w].under] = "allow"
               \/ loc[w].row.ruling = "allow" /\ loc[w].row.digest = loc[w].under

\* An allow in the row rests on the document or on a ruling, and on no denial.
BasisInv ==
    review.decision = "allow" =>
        /\ basis.id = review.id
        /\ \/ Verdict[basis.under] = "allow"
           \/ [offer |-> [id |-> basis.id, digest |-> basis.under],
               ruling |-> "allow"] \in rulings
        /\ \A g \in rulings : g.offer.id = basis.id => g.ruling # "deny"

\* After a stop, what was not attempted before it is only attempted as a denial.
StopInv ==
    task.cancel /\ ~task.marked /\ review.attempted => review.decision = "deny"

WorkerInv(w) == SendInv(w) /\ RespondInv(w) /\ CancelTextInv(w) /\ PublishInv(w)

\* What the rows, the store and the provider promise each other.
SharedInv ==
    /\ ReviewInv
    /\ ConfirmInv
    /\ ClarInv
    /\ \A c \in Clients : AnswerInv(c)
    /\ OfferInv
    /\ BasisInv
    /\ StopInv

IInv ==
    /\ TypeOK
    /\ SharedInv
    /\ \A w \in Workers : WorkerInv(w)
    /\ OneSender
    /\ OneResponder

----
\* How a worker's record changes

\* One worker's record is replaced by another one.
LEMMA SetLoc ==
    ASSUME TypeOK, NEW w \in Workers, NEW l \in Local, loc' = [loc EXCEPT ![w] = l]
    PROVE  /\ loc' \in [Workers -> Local]
           /\ loc'[w] = l
           /\ \A v \in Workers \ {w} : loc'[v] = loc[v]
  BY DEF TypeOK

\* A worker starts and ends with an empty record.
LEMMA IdleType == IdleLocal \in Local /\ NoReview \in ReviewRow
  <1>1. NoReview \in ReviewRow
    BY DEF NoReview, ReviewRow, Statuses
  <1> QED BY <1>1 DEF IdleLocal, Local, Pcs, Outcomes

\* A worker that only moves keeps what it read.
LEMMA GotoLoc ==
    ASSUME TypeOK, NEW w \in Workers, NEW p \in Pcs, Goto(w, p)
    PROVE  /\ loc' \in [Workers -> Local]
           /\ \A v \in Workers \ {w} : loc'[v] = loc[v]
           /\ loc'[w] = [loc[w] EXCEPT !.pc = p]
           /\ loc'[w].pc = p
           /\ loc'[w].row = loc[w].row
           /\ loc'[w].seen = loc[w].seen
  <1>1. loc[w] \in Local /\ loc' = [loc EXCEPT ![w] = [loc[w] EXCEPT !.pc = p]]
    BY DEF TypeOK, Goto
  <1>2. [loc[w] EXCEPT !.pc = p] \in Local
    BY <1>1 DEF Local
  <1>3. loc'[w] = [loc[w] EXCEPT !.pc = p] /\ \A v \in Workers \ {w} : loc'[v] = loc[v]
    BY <1>1, <1>2, SetLoc
  <1>4. loc' \in [Workers -> Local]
    BY <1>1, <1>2, SetLoc
  <1> QED BY <1>1, <1>3, <1>4 DEF Local

\* A worker that leaves a review forgets it.
LEMMA LeaveLoc ==
    ASSUME TypeOK, NEW w \in Workers, NEW p \in Pcs, Leave(w, p)
    PROVE  /\ loc' \in [Workers -> Local]
           /\ \A v \in Workers \ {w} : loc'[v] = loc[v]
           /\ loc'[w].pc = p
           /\ loc'[w].seen = loc[w].seen
  <1> DEFINE l == [loc[w] EXCEPT !.pc = p, !.row = NoReview, !.out = "none", !.under = None]
  <1>1. loc[w] \in Local /\ loc' = [loc EXCEPT ![w] = l]
    BY DEF TypeOK, Leave
  <1>2. l \in Local
    BY <1>1, IdleType DEF Local, Outcomes
  <1>3. l.pc = p /\ l.seen = loc[w].seen
    BY <1>1 DEF Local
  <1> HIDE DEF l
  <1> QED BY <1>1, <1>2, <1>3, SetLoc

\* The initial state is typed.
LEMMA InitType == Init => TypeOK
  <1> SUFFICES ASSUME Init PROVE TypeOK
    OBVIOUS
  <1>1. task \in TaskRow /\ clar \in ClarRow /\ cma \in Provider /\ review \in ReviewRow
    BY IdleType DEF Init, TaskRow, ClarRow, Provider, Statuses
  <1>2. loc \in [Workers -> Local]
    BY IdleType DEF Init
  <1> QED BY <1>1, <1>2, ConstantsAssumption DEF Init, TypeOK

----
\* Types

\* What the provider lists is decisions and answers.
LEMMA ListingType == ASSUME TypeOK PROVE Listing \subseteq Decisions \cup {"answer"}
  BY DEF TypeOK, Provider, Listing

\* A fault is counted.
LEMMA FaultType ==
    ASSUME TypeOK, Fault \/ UNCHANGED count
    PROVE  count' \in [deploys: Nat, faults: Nat]
  BY DEF TypeOK, Fault

\* A fenced update leads on or to the end of the run.
LEMMA FencedLoc ==
    ASSUME TypeOK, NEW w \in Workers, NEW p \in Pcs, Fenced(w, p)
    PROVE  loc' \in [Workers -> Local]
  BY GotoLoc DEF Fenced, Pcs

\* A task's hold and state may be replaced.
LEMMA TaskFields ==
    ASSUME NEW r \in TaskRow, NEW h \in {"none", "ambiguous", "policy"},
           NEW s \in {"waiting", "input_required", "interrupting", "terminal"}
    PROVE  [r EXCEPT !.held = h] \in TaskRow /\ [r EXCEPT !.state = s] \in TaskRow
  BY DEF TaskRow

\* The provider may take an answer or be interrupted.
LEMMA ConfirmedType ==
    ASSUME NEW r \in Provider, NEW d \in Decisions
    PROVE  [r EXCEPT !.confirmations = Append(@, d)] \in Provider
  <1>1. Append(r.confirmations, d) \in Seq(Decisions)
    BY DEF Provider
  <1> QED BY <1>1 DEF Provider

LEMMA AnsweredType ==
    ASSUME NEW r \in Provider, NEW a \in Result
    PROVE  [r EXCEPT !.results = Append(@, a)] \in Provider
  <1>1. Append(r.results, a) \in Seq(Result)
    BY DEF Provider
  <1> QED BY <1>1 DEF Provider

LEMMA InterruptedType ==
    ASSUME NEW r \in Provider, NEW i \in {"blocked", "settled"}
    PROVE  [r EXCEPT !.interrupt = i] \in Provider
  BY DEF Provider

\* A review may be published under the next id, or decided.
LEMMA PublishedType ==
    ASSUME NEW r \in ReviewRow, NEW d \in Policies \cup {None}
    PROVE  [r EXCEPT !.id = @ + 1, !.digest = d, !.ruling = None] \in ReviewRow
  <1>1. r.id + 1 \in Nat
    BY DEF ReviewRow
  <1> QED BY <1>1 DEF ReviewRow

LEMMA DecidedType ==
    ASSUME NEW r \in ReviewRow, NEW d \in Decisions
    PROVE  [r EXCEPT !.status = "resolving", !.decision = d] \in ReviewRow
  BY DEF ReviewRow, Statuses

LEMMA ClarFields ==
    ASSUME NEW r \in ClarRow PROVE [r EXCEPT !.attempted = TRUE] \in ClarRow
  BY DEF ClarRow

\* A worker reads the task, and the listing with it.
LEMMA PassFields ==
    ASSUME NEW r \in Local, NEW p \in Pcs, NEW n \in 0..2, NEW b \in BOOLEAN,
           NEW s \in SUBSET (Decisions \cup {"answer"})
    PROVE  /\ [r EXCEPT !.pc = p, !.pass = n, !.cancel = b] \in Local
           /\ [r EXCEPT !.pc = p, !.pass = n, !.cancel = b, !.seen = s] \in Local
  BY DEF Local

\* Steps of clients, deployments and the lease keep the types.
LEMMA ClientTypes ==
    ASSUME TypeOK
    PROVE  /\ get_task => TypeOK'
           /\ \A o \in offers, r \in Decisions : Rule(o, r) => TypeOK'
           /\ \A c \in Clients : AnswerStart(c) \/ AnswerStep(c) => TypeOK'
           /\ Stop => TypeOK'
           /\ \A p \in Policies : Deploy(p) => TypeOK'
           /\ LeaseExpires => TypeOK'
  <1>1. ASSUME get_task PROVE TypeOK'
    <2>1. [id |-> review.id, digest |-> review.digest] \in Offer
      BY <1>1 DEF get_task, Offered, TypeOK, ReviewRow, Offer
    <2> QED BY <1>1, <2>1 DEF get_task, TypeOK
  <1>2. ASSUME NEW o \in offers, NEW r \in Decisions, Rule(o, r) PROVE TypeOK'
    <2>1. review' \in ReviewRow
      BY <1>2 DEF Rule, record_human_ruling, TypeOK, ReviewRow
    <2>2. [offer |-> o, ruling |-> r] \in [offer: Offer, ruling: Decisions]
      BY <1>2 DEF TypeOK
    <2> QED BY <1>2, <2>1, <2>2 DEF Rule, record_human_ruling, TypeOK
  <1>3. ASSUME NEW c \in Clients, AnswerStart(c) PROVE TypeOK'
    BY <1>3 DEF AnswerStart, TypeOK
  <1>4. ASSUME NEW c \in Clients, AnswerPut(c) PROVE TypeOK'
    BY <1>4 DEF AnswerPut, TypeOK, Keys
  <1>5. ASSUME NEW c \in Clients, AnswerDecide(c) PROVE TypeOK'
    <2>1. clar' \in ClarRow
      BY <1>5 DEF AnswerDecide, decide_clarification_request, TypeOK, ClarRow, Statuses, Keys
    <2>2. count' \in [deploys: Nat, faults: Nat]
      BY <1>5, FaultType DEF AnswerDecide
    <2>3. cli' \in [Clients -> {"idle", "put", "decide", "discard", "done"}]
      BY <1>5 DEF AnswerDecide, TypeOK
    <2> QED BY <1>5, <2>1, <2>2, <2>3 DEF AnswerDecide, TypeOK
  <1>6. ASSUME NEW c \in Clients, AnswerDiscard(c) PROVE TypeOK'
    BY <1>6 DEF AnswerDiscard, TypeOK
  <1>7. ASSUME Stop PROVE TypeOK'
    <2>1. task' \in TaskRow
      BY <1>7 DEF Stop, TypeOK, TaskRow, ReviewRow
    <2> QED BY <1>7, <2>1 DEF Stop, TypeOK
  <1>8. ASSUME NEW p \in Policies, Deploy(p) PROVE TypeOK'
    BY <1>8 DEF Deploy, TypeOK
  <1>9. ASSUME LeaseExpires PROVE TypeOK'
    <2>1. lease' \in [claim: Workers \cup {None}, live: BOOLEAN]
      BY <1>9 DEF LeaseExpires, TypeOK
    <2>2. count' \in [deploys: Nat, faults: Nat]
      BY <1>9, FaultType DEF LeaseExpires
    <2> QED BY <1>9, <2>1, <2>2 DEF LeaseExpires, TypeOK
  <1> QED BY <1>1, <1>2, <1>3, <1>4, <1>5, <1>6, <1>7, <1>8, <1>9 DEF AnswerStep

\* Steps of a worker keep the types, given what it holds.
LEMMA WorkerTypes ==
    ASSUME TypeOK, ReviewInv, NEW w \in Workers, WorkerInv(w),
           claim_scheduler(w) \/ Step(w) \/ Crash(w)
    PROVE  TypeOK'
  <1> DEFINE Loc == loc' \in [Workers -> Local]
  <1>0. loc[w] \in Local
    BY DEF TypeOK
  <1>1. CASE claim_scheduler(w)
    <2>1. Loc
      BY <1>1, GotoLoc DEF claim_scheduler, Pcs
    <2> QED BY <1>1, <2>1 DEF claim_scheduler, TypeOK
  <1>2. CASE release_scheduler(w)
    <2>1. Loc
      BY <1>2, IdleType, SetLoc DEF release_scheduler
    <2> QED BY <1>2, <2>1 DEF release_scheduler, TypeOK
  <1>3. CASE Crash(w)
    <2>1. Loc
      BY <1>3, IdleType, SetLoc DEF Crash
    <2>2. count' \in [deploys: Nat, faults: Nat]
      BY <1>3, FaultType DEF Crash
    <2> QED BY <1>3, <2>1, <2>2 DEF Crash, TypeOK
  <1>4. CASE _reconcile_active(w)
    <2> DEFINE p == IF task.cancel THEN "cancel" ELSE "confirm"
               n == IF task.cancel THEN 0 ELSE 1
    <2>1. task.cancel \in BOOLEAN /\ p \in Pcs /\ n \in 0..2
      BY DEF TypeOK, TaskRow, Pcs
    <2>2. loc' = [loc EXCEPT ![w] = [loc[w] EXCEPT !.pc = p, !.pass = n, !.cancel = task.cancel,
                                                   !.seen = Listing]]
      BY <1>4 DEF _reconcile_active
    <2> HIDE DEF p, n
    <2>3. Loc
      BY <1>0, <2>1, <2>2, ListingType, PassFields, SetLoc, Zenon
    <2> QED BY <1>4, <2>3 DEF _reconcile_active, TypeOK
  <1>5. CASE _reconcile_confirmations(w)
    <2>1. review' \in ReviewRow
      BY <1>5 DEF _reconcile_confirmations, TypeOK, ReviewRow
    <2>2. task' \in TaskRow
      BY <1>5, TaskFields DEF _reconcile_confirmations, TypeOK
    <2>3. /\ [loc[w] EXCEPT !.pc = "confirmed", !.row = review] \in Local
          /\ [loc[w] EXCEPT !.pc = "send", !.row = review] \in Local
      <3>1. review \in ReviewRow
        BY DEF TypeOK
      <3> QED BY <1>0, <3>1 DEF Local, Pcs
    <2>4. Loc
      BY <1>5, <2>3, SetLoc, GotoLoc, FencedLoc DEF _reconcile_confirmations, Pcs
    <2> QED BY <1>5, <2>1, <2>2, <2>4 DEF _reconcile_confirmations, TypeOK
  <1>6. CASE confirm_tool(w)
    <2>1. loc[w].row.decision \in Decisions
      BY <1>6 DEF confirm_tool, WorkerInv, SendInv, ReviewInv, TypeOK, ReviewRow
    <2>2. cma' \in Provider
      BY <1>6, <2>1, ConfirmedType DEF confirm_tool, TypeOK
    <2>3. Loc
      BY <1>6, GotoLoc DEF confirm_tool, Pcs
    <2>4. count' \in [deploys: Nat, faults: Nat]
      BY <1>6, FaultType DEF confirm_tool
    <2> QED BY <1>6, <2>2, <2>3, <2>4 DEF confirm_tool, TypeOK
  <1>7. CASE HoldConfirmation(w)
    <2>1. task' \in TaskRow
      BY <1>7, TaskFields DEF HoldConfirmation, TypeOK
    <2>2. Loc
      BY <1>7, FencedLoc DEF HoldConfirmation, Pcs
    <2> QED BY <1>7, <2>1, <2>2 DEF HoldConfirmation, TypeOK
  <1>8. CASE ResolveReview(w)
    <2>1. review' \in ReviewRow
      BY <1>8 DEF ResolveReview, TypeOK, ReviewRow, Statuses
    <2>2. Loc
      BY <1>8, LeaveLoc DEF ResolveReview, Pcs
    <2> QED BY <1>8, <2>1, <2>2 DEF ResolveReview, TypeOK
  <1>9. CASE AnswerClarification(w)
    <2>1. clar' \in ClarRow
      BY <1>9, ClarFields DEF AnswerClarification, mark_clarification_attempted, TypeOK
    <2>2. task' \in TaskRow
      BY <1>9, TaskFields DEF AnswerClarification, TypeOK
    <2>3. Loc
      BY <1>9, GotoLoc, FencedLoc DEF AnswerClarification, mark_clarification_attempted, Pcs
    <2> QED BY <1>9, <2>1, <2>2, <2>3 DEF AnswerClarification, TypeOK
  <1>10. CASE send_custom_tool_result(w)
    <2>1. clar.answer \in store => [text |-> clar.answer, is_error |-> loc[w].cancel] \in Result
      BY <1>0 DEF TypeOK, Result, Local
    <2>2. cma' \in Provider
      BY <1>10, <2>1, AnsweredType DEF send_custom_tool_result, TypeOK
    <2>3. Loc
      BY <1>10, GotoLoc DEF send_custom_tool_result, Pcs
    <2>4. count' \in [deploys: Nat, faults: Nat]
      BY <1>10, FaultType DEF send_custom_tool_result
    <2> QED BY <1>10, <2>2, <2>3, <2>4 DEF send_custom_tool_result, TypeOK
  <1>11. CASE HoldAnswer(w)
    <2>1. task' \in TaskRow
      BY <1>11, TaskFields DEF HoldAnswer, TypeOK
    <2>2. Loc
      BY <1>11, FencedLoc DEF HoldAnswer, Pcs
    <2> QED BY <1>11, <2>1, <2>2 DEF HoldAnswer, TypeOK
  <1>12. CASE ResolveClarification(w)
    <2>1. clar' \in ClarRow
      BY <1>12 DEF ResolveClarification, TypeOK, ClarRow, Statuses
    <2>2. Loc
      BY <1>12, GotoLoc DEF ResolveClarification, Pcs
    <2> QED BY <1>12, <2>1, <2>2 DEF ResolveClarification, TypeOK
  <1>13. CASE DeleteAnswer(w)
    <2>1. Loc
      BY <1>13, GotoLoc DEF DeleteAnswer, Pcs
    <2> QED BY <1>13, <2>1 DEF DeleteAnswer, TypeOK
  <1>14. CASE SettleHold(w)
    <2>1. <<"release", "discover", "wait">>[loc[w].pass + 1] \in Pcs
      BY <1>0 DEF Local, Pcs
    <2>2. task' \in TaskRow
      BY <1>14, TaskFields DEF SettleHold, TypeOK
    <2>3. Loc
      BY <1>14, <2>1, FencedLoc, GotoLoc DEF SettleHold
    <2> QED BY <1>14, <2>2, <2>3 DEF SettleHold, TypeOK
  <1>15. CASE DiscoverRequests(w)
    <2>1. review' \in ReviewRow /\ clar' \in ClarRow
      BY <1>15 DEF DiscoverRequests, TypeOK, ReviewRow, ClarRow, Statuses
    <2>2. task' \in TaskRow
      BY <1>15, TaskFields DEF DiscoverRequests, TypeOK
    <2>3. [loc[w] EXCEPT !.pc = "evaluate", !.seen = Listing] \in Local
      BY <1>0, ListingType DEF Local, Pcs
    <2>4. Loc
      BY <1>15, <2>3, SetLoc, FencedLoc DEF DiscoverRequests, Pcs
    <2> QED BY <1>15, <2>1, <2>2, <2>4 DEF DiscoverRequests, TypeOK
  <1>16. CASE _evaluate_policy(w)
    <2>1. Loc
      <3>1. ASSUME NEW out \in {Decide(review), "failed"}, review.status = "pending"
            PROVE  [loc[w] EXCEPT !.pc = "publish", !.row = review, !.out = out,
                                  !.under = policy] \in Local
        <4>1. Decide(review) \in Outcomes
          BY ConstantsAssumption
             DEF Decide, evaluate, Outcomes, TypeOK, ReviewRow, Decisions
        <4>2. review \in ReviewRow /\ policy \in Policies /\ out \in Outcomes
          BY <3>1, <4>1 DEF TypeOK, Outcomes
        <4> QED BY <1>0, <4>2 DEF Local, Pcs
      <3> QED BY <1>16, <3>1, SetLoc, GotoLoc DEF _evaluate_policy, Pcs
    <2>2. count' \in [deploys: Nat, faults: Nat]
      BY <1>16, FaultType DEF _evaluate_policy
    <2> QED BY <1>16, <2>1, <2>2 DEF _evaluate_policy, TypeOK
  <1>17. CASE PublishDecision(w)
    <2>1. Publication(w) = "decide" => loc[w].out \in Decisions
      BY <1>0, <1>17
         DEF PublishDecision, Publication, WorkerInv, PublishInv, Local, Outcomes, Decisions
    <2>2. review' \in ReviewRow
      <3>1. review \in ReviewRow /\ loc[w].under \in Policies \cup {None}
        BY <1>0 DEF TypeOK, Local
      <3>2. CASE record_human_review(w, loc[w].under) \/ record_human_review(w, None)
        BY <3>1, <3>2, PublishedType DEF record_human_review
      <3>3. CASE Publication(w) = "decide" /\ record_policy_decision(w)
        BY <2>1, <3>1, <3>3, DecidedType DEF record_policy_decision
      <3> QED BY <1>17, <3>1, <3>2, <3>3 DEF PublishDecision
    <2>3. task' \in TaskRow
      BY <1>17, TaskFields DEF PublishDecision, TypeOK
    <2>4. basis' \in Basis \cup {None}
      <3>1. [under |-> loc[w].under, id |-> loc[w].row.id, ruling |-> loc[w].row.ruling] \in Basis
        BY <1>0, <1>17 DEF PublishDecision, WorkerInv, PublishInv, Local, ReviewRow, Basis
      <3> QED BY <1>17, <3>1
             DEF PublishDecision, record_human_review, record_policy_decision, TypeOK
    <2>5. Loc
      BY <1>17, LeaveLoc DEF PublishDecision, Pcs
    <2> QED BY <1>17, <2>2, <2>3, <2>4, <2>5 DEF PublishDecision, TypeOK
  <1>18. CASE RecheckCancel(w)
    <2> DEFINE p == IF task.cancel THEN "release" ELSE "confirm"
    <2>1. task.cancel \in BOOLEAN /\ p \in Pcs /\ 2 \in 0..2
      BY DEF TypeOK, TaskRow, Pcs
    <2>2. loc' = [loc EXCEPT ![w] = [loc[w] EXCEPT !.pc = p, !.pass = 2, !.cancel = task.cancel]]
      BY <1>18 DEF RecheckCancel
    <2> HIDE DEF p
    <2>3. Loc
      BY <1>0, <2>1, <2>2, ListingType, PassFields, SetLoc, Zenon
    <2> QED BY <1>18, <2>3 DEF RecheckCancel, TypeOK
  <1>19. CASE _set_waiting_state(w)
    <2>1. task' \in TaskRow
      BY <1>19, TaskFields DEF _set_waiting_state, TypeOK
    <2>2. Loc
      BY <1>19, GotoLoc DEF _set_waiting_state, Pcs
    <2> QED BY <1>19, <2>1, <2>2 DEF _set_waiting_state, TypeOK
  <1>20. CASE Interrupt(w)
    <2>1. task' \in TaskRow
      BY <1>20 DEF Interrupt, TypeOK, TaskRow
    <2>2. cma' \in Provider
      BY <1>20, InterruptedType DEF Interrupt, TypeOK
    <2>3. Loc
      BY <1>20, GotoLoc DEF Interrupt, Pcs
    <2> QED BY <1>20, <2>1, <2>2, <2>3 DEF Interrupt, TypeOK
  <1>21. CASE FinishCanceled(w)
    <2>1. task' \in TaskRow
      BY <1>21, TaskFields DEF FinishCanceled, TypeOK
    <2>2. Loc
      BY <1>21, GotoLoc DEF FinishCanceled, Pcs
    <2> QED BY <1>21, <2>1, <2>2 DEF FinishCanceled, TypeOK
  <1>22. CASE DenyCancelled(w)
    <2>1. review' \in ReviewRow
      BY <1>22 DEF DenyCancelled, TypeOK, ReviewRow, Statuses, Decisions
    <2>2. Loc
      BY <1>22, GotoLoc DEF DenyCancelled, Pcs
    <2> QED BY <1>22, <2>1, <2>2 DEF DenyCancelled, TypeOK
  <1>23. CASE PutCancelText(w)
    <2>1. Loc
      BY <1>23, GotoLoc DEF PutCancelText, Pcs
    <2> QED BY <1>23, <2>1 DEF PutCancelText, TypeOK, Keys
  <1>24. CASE DecideCancelText(w)
    <2>1. clar' \in ClarRow
      BY <1>24 DEF DecideCancelText, decide_clarification_request, TypeOK, ClarRow, Statuses, Keys
    <2>2. Loc
      BY <1>24, GotoLoc DEF DecideCancelText, Pcs
    <2> QED BY <1>24, <2>1, <2>2 DEF DecideCancelText, TypeOK
  <1>25. CASE DiscardCancelText(w)
    <2>1. Loc
      BY <1>25, GotoLoc DEF DiscardCancelText, Pcs
    <2> QED BY <1>25, <2>1 DEF DiscardCancelText, TypeOK
  <1>26. CASE FailTask(w)
    <2>1. task' \in TaskRow
      BY <1>26, TaskFields DEF FailTask, TypeOK
    <2>2. Loc
      BY <1>26, GotoLoc DEF FailTask, Pcs
    <2> QED BY <1>26, <2>1, <2>2 DEF FailTask, TypeOK
  <1> QED
    BY <1>1, <1>2, <1>3, <1>4, <1>5, <1>6, <1>7, <1>8, <1>9, <1>10, <1>11, <1>12, <1>13,
       <1>14, <1>15, <1>16, <1>17, <1>18, <1>19, <1>20, <1>21, <1>22, <1>23, <1>24, <1>25,
       <1>26 DEF Step

----
\* Frames

\* What a step must not take from a worker that does not move.
Keeps(v) ==
    /\ review.attempted => review'.attempted /\ review'.decision = review.decision
    /\ At(v, "send") => cma'.confirmations = cma.confirmations
    /\ clar.attempted => clar'.attempted
    /\ At(v, "respond") => cma'.results = cma.results
    /\ clar'.answer # clar.answer => clar'.answer # v
    /\ clar.answer # v /\ v \in store => v \in store'
    /\ review.id <= review'.id
    /\ review'.id = review.id => review'.digest = review.digest
    /\ review'.id = review.id /\ review.ruling # None => review'.ruling = review.ruling

LEMMA OthersKeep ==
    ASSUME TypeOK, TypeOK', NEW v \in Workers, WorkerInv(v), loc'[v] = loc[v], Keeps(v)
    PROVE  WorkerInv(v)'
  <1>1. SendInv(v)' /\ RespondInv(v)' /\ CancelTextInv(v)'
    BY DEF WorkerInv, SendInv, RespondInv, CancelTextInv, Keeps, At
  <1>2. loc[v].row.id \in Nat /\ review.id \in Nat /\ review'.id \in Nat
    BY DEF TypeOK, Local, ReviewRow
  <1>3. PublishInv(v)'
    BY <1>2 DEF WorkerInv, PublishInv, Keeps, At
  <1> QED BY <1>1, <1>3 DEF WorkerInv

\* A step that only moves a worker, or only changes what no invariant speaks of.
Same ==
    /\ UNCHANGED <<review, clar, store, offers, rulings, basis, cli>>
    /\ cma'.confirmations = cma.confirmations
    /\ cma'.results = cma.results
    /\ task'.cancel = task.cancel
    /\ task'.marked = task.marked

LEMMA SameShared == ASSUME SharedInv, Same PROVE SharedInv'
  BY DEF SharedInv, ReviewInv, ConfirmInv, ClarInv, AnswerInv, OfferInv, BasisInv, StopInv, Same

LEMMA SameKeeps == ASSUME TypeOK, Same, NEW v \in Workers PROVE Keeps(v)
  BY DEF Same, Keeps, TypeOK, ReviewRow

\* The worker that moves is the only one that can come to send or to respond.
LEMMA OneEach ==
    ASSUME OneSender, OneResponder, NEW w \in Workers,
           \A v \in Workers \ {w} : loc'[v] = loc[v],
           loc'[w].pc = "send" => \A v \in Workers : ~At(v, "send"),
           loc'[w].pc = "respond" => \A v \in Workers : ~At(v, "respond")
    PROVE  OneSender' /\ OneResponder'
  BY DEF OneSender, OneResponder, At

\* The places at which a worker's record says something of the rows.
Committed == {"send", "respond", "publish", "cancel_text", "cancel_decide", "cancel_discard"}

Answering == {"unanswered", "responded", "delete"}

LEMMA QuietStep ==
    ASSUME IInv, TypeOK', NEW w \in Workers, Same,
           \A v \in Workers \ {w} : loc'[v] = loc[v],
           loc'[w].pc \notin Committed,
           loc'[w].pc \in Answering => clar.attempted,
           "answer" \in loc'[w].seen => clar.attempted
    PROVE  IInv'
  <1>1. SharedInv'
    BY SameShared DEF IInv
  <1>2. ASSUME NEW v \in Workers \ {w} PROVE WorkerInv(v)'
    BY <1>2, SameKeeps, OthersKeep DEF IInv
  <1>3. WorkerInv(w)'
    BY DEF WorkerInv, SendInv, RespondInv, CancelTextInv, PublishInv, At, Committed, Answering,
           Same
  <1>4. OneSender' /\ OneResponder'
    BY OneEach DEF IInv, Committed
  <1> QED BY <1>1, <1>2, <1>3, <1>4 DEF IInv

\* A step in which no worker moves and that takes nothing from any.
LEMMA StillStep ==
    ASSUME IInv, TypeOK', SharedInv', UNCHANGED loc, \A v \in Workers : Keeps(v)
    PROVE  IInv'
  <1>1. ASSUME NEW v \in Workers PROVE WorkerInv(v)'
    BY <1>1, OthersKeep DEF IInv
  <1>2. OneSender' /\ OneResponder'
    BY DEF IInv, OneSender, OneResponder, At
  <1> QED BY <1>1, <1>2 DEF IInv

\* An answer that is listed was attempted.
LEMMA AnswerListed == ASSUME TypeOK, ClarInv, "answer" \in Listing PROVE clar.attempted
  <1>1. \A i \in DOMAIN cma.confirmations : cma.confirmations[i] \in Decisions
    BY DEF TypeOK, Provider
  <1>2. cma.results # <<>>
    BY <1>1 DEF Listing, Decisions
  <1> QED BY <1>2 DEF ClarInv, TypeOK, ClarRow

----
\* Steps of clients, deployments and the lease

LEMMA GetTaskStep == ASSUME IInv, TypeOK', get_task PROVE IInv'
  <1>1. OfferInv'
    <2>1. review.id \in Nat
      BY DEF IInv, TypeOK, ReviewRow
    <2> QED BY <2>1 DEF IInv, SharedInv, OfferInv, get_task
  <1>2. SharedInv'
    BY <1>1 DEF IInv, SharedInv, ReviewInv, ConfirmInv, ClarInv, AnswerInv, BasisInv, StopInv,
                get_task
  <1>3. \A v \in Workers : Keeps(v)
    BY DEF get_task, Keeps, IInv, TypeOK, ReviewRow
  <1> QED BY <1>2, <1>3, StillStep DEF get_task

\* A ruling names the offer that its id stands for.
LEMMA RuleStep ==
    ASSUME IInv, TypeOK', NEW o \in offers, NEW r \in Decisions, Rule(o, r)
    PROVE  IInv'
  <1> USE DEF Rule, record_human_ruling
  <1>1. /\ review.ruling = None /\ review.status = "pending" /\ review.decision = None
        /\ review.digest = o.digest /\ review.id = o.id /\ ~review.attempted
        /\ o \in Offer /\ review \in ReviewRow
    BY DEF IInv, SharedInv, ReviewInv, OfferInv, TypeOK, ReviewRow
  <1>2. /\ review'.status = "pending" /\ review'.decision = None /\ review'.id = review.id
        /\ review'.digest = review.digest /\ review'.ruling = r /\ ~review'.attempted
    BY <1>1 DEF ReviewRow
  <1>3. o = [id |-> review.id, digest |-> review.digest]
    BY <1>1 DEF Offer
  <1>4. OfferInv'
    <2>1. ASSUME NEW g \in rulings'
          PROVE  g.offer.id <= review'.id /\ (g.offer.id = review'.id => g.ruling = review'.ruling)
      <3>1. CASE g = [offer |-> o, ruling |-> r]
        BY <1>1, <1>2, <3>1 DEF Offer
      <3>2. CASE g \in rulings
        <4>1. g.offer.id <= review.id /\ g.offer.id = review.id => g.ruling = review.ruling
          BY <3>2 DEF IInv, SharedInv, OfferInv
        <4>2. g.ruling \in Decisions
          BY <3>2 DEF IInv, TypeOK
        <4>3. g.offer.id # review.id
          BY <1>1, <3>2, <4>2, ConstantsAssumption DEF IInv, SharedInv, OfferInv, Decisions
        <4> QED BY <1>2, <3>2, <4>3 DEF IInv, SharedInv, OfferInv
      <3> QED BY <2>1, <3>1, <3>2
    <2>2. [offer |-> [id |-> review'.id, digest |-> review'.digest],
           ruling |-> review'.ruling] \in rulings'
      BY <1>2, <1>3
    <2>3. \A q \in offers' : q.id <= review'.id /\ (q.id = review'.id => q.digest = review'.digest)
      BY <1>2 DEF IInv, SharedInv, OfferInv
    <2> QED BY <2>1, <2>2, <2>3 DEF OfferInv
  <1>5. ReviewInv' /\ ConfirmInv' /\ BasisInv' /\ StopInv'
    BY <1>1, <1>2, ConstantsAssumption
       DEF IInv, SharedInv, ReviewInv, ConfirmInv, BasisInv, StopInv
  <1>6. ClarInv' /\ \A c \in Clients : AnswerInv(c)'
    BY DEF IInv, SharedInv, ClarInv, AnswerInv
  <1>7. \A v \in Workers : Keeps(v)
    BY <1>1, <1>2 DEF Keeps, ReviewRow
  <1> QED BY <1>4, <1>5, <1>6, <1>7, StillStep DEF SharedInv

LEMMA AnswerSteps ==
    ASSUME IInv, TypeOK', NEW c \in Clients, AnswerStart(c) \/ AnswerStep(c)
    PROVE  IInv'
  <1>0. c \notin Workers /\ c # None /\ c \in Keys /\ review.id \in Nat
    BY ConstantsAssumption DEF Keys, IInv, TypeOK, ReviewRow
  <1>1. CASE AnswerStart(c)
    <2>1. SharedInv'
      BY <1>1 DEF AnswerStart, IInv, TypeOK, SharedInv, ReviewInv, ConfirmInv, ClarInv, AnswerInv,
                  OfferInv, BasisInv, StopInv
    <2> QED BY <1>0, <1>1, <2>1, StillStep DEF AnswerStart, Keeps
  <1>2. CASE AnswerPut(c)
    <2>1. SharedInv'
      BY <1>2 DEF AnswerPut, IInv, TypeOK, SharedInv, ReviewInv, ConfirmInv, ClarInv, AnswerInv,
                  OfferInv, BasisInv, StopInv
    <2> QED BY <1>0, <1>2, <2>1, StillStep DEF AnswerPut, Keeps
  <1>3. CASE AnswerDecide(c)
    <2>0. /\ clar \in ClarRow /\ cli \in [Clients -> {"idle", "put", "decide", "discard", "done"}]
          /\ cli[c] = "decide" /\ clar.answer # c /\ c \in store
      BY <1>3 DEF AnswerDecide, IInv, TypeOK, SharedInv, AnswerInv
    <2>1. CASE clar' = clar /\ cli' = [cli EXCEPT ![c] = "discard"]
      <3>1. SharedInv'
        BY <1>3, <2>0, <2>1 DEF AnswerDecide, IInv, SharedInv, ReviewInv, ConfirmInv, ClarInv,
                                AnswerInv, OfferInv, BasisInv, StopInv
      <3> QED BY <1>0, <1>3, <2>1, <3>1, StillStep DEF AnswerDecide, Keeps
    <2>2. CASE /\ clar.status = "pending"
               /\ clar' = [clar EXCEPT !.status = "resolving", !.answer = c]
               /\ cli' = [cli EXCEPT ![c] = "done"]
      <3>1. /\ clar'.status = "resolving" /\ clar'.answer = c /\ clar'.attempted = clar.attempted
            /\ ~clar.attempted /\ clar.answer = None /\ cma.results = <<>>
        BY <2>0, <2>2 DEF ClarRow, IInv, SharedInv, ClarInv
      <3>2. ClarInv'
        BY <1>0, <1>3, <2>0, <3>1 DEF ClarInv, AnswerDecide
      <3>3. ASSUME NEW d \in Clients PROVE AnswerInv(d)'
        BY <1>3, <2>0, <2>2, <3>1 DEF AnswerDecide, IInv, SharedInv, AnswerInv
      <3>4. ReviewInv' /\ ConfirmInv' /\ OfferInv' /\ BasisInv' /\ StopInv'
        BY <1>3 DEF AnswerDecide, IInv, SharedInv, ReviewInv, ConfirmInv, OfferInv, BasisInv, StopInv
      <3>5. \A v \in Workers : Keeps(v)
        BY <1>0, <1>3, <3>1 DEF AnswerDecide, Keeps
      <3> QED BY <1>3, <3>2, <3>3, <3>4, <3>5, StillStep DEF AnswerDecide, SharedInv
    <2> QED BY <1>3, <2>0, <2>1, <2>2 DEF AnswerDecide, decide_clarification_request, ClarRow
  <1>4. CASE AnswerDiscard(c)
    <2>1. SharedInv'
      BY <1>4 DEF AnswerDiscard, IInv, TypeOK, SharedInv, ReviewInv, ConfirmInv, ClarInv, AnswerInv,
                  OfferInv, BasisInv, StopInv
    <2> QED BY <1>0, <1>4, <2>1, StillStep DEF AnswerDiscard, Keeps
  <1> QED BY <1>1, <1>2, <1>3, <1>4 DEF AnswerStep

LEMMA OutsideSteps ==
    ASSUME IInv, TypeOK', Stop \/ LeaseExpires \/ \E p \in Policies : Deploy(p)
    PROVE  IInv'
  <1>0. review.id \in Nat /\ task \in TaskRow
    BY DEF IInv, TypeOK, ReviewRow
  <1>1. CASE Stop
    <2>1. task'.marked = review.attempted
      BY <1>0, <1>1 DEF Stop, TaskRow
    <2>2. SharedInv'
      BY <1>1, <2>1 DEF Stop, IInv, SharedInv, ReviewInv, ConfirmInv, ClarInv, AnswerInv, OfferInv,
                        BasisInv, StopInv
    <2> QED BY <1>0, <1>1, <2>2, StillStep DEF Stop, Keeps
  <1>2. CASE LeaseExpires \/ \E p \in Policies : Deploy(p)
    <2>1. Same /\ UNCHANGED loc
      BY <1>2 DEF LeaseExpires, Deploy, Same
    <2> QED BY <2>1, SameShared, SameKeeps, StillStep DEF IInv
  <1> QED BY <1>1, <1>2

----
\* Steps of a worker that change no row an invariant speaks of

\* A task whose hold or state changes keeps its stop.
LEMMA TaskKeeps ==
    ASSUME TypeOK, NEW h, task' = task \/ task' = [task EXCEPT !.held = h]
                          \/ task' = [task EXCEPT !.state = h]
    PROVE  task'.cancel = task.cancel /\ task'.marked = task.marked
  BY DEF TypeOK, TaskRow

\* A worker that moves to a place where its record says nothing.
LEMMA MoveStep ==
    ASSUME IInv, TypeOK', NEW w \in Workers, NEW p \in Pcs \ Committed, Goto(w, p), Same,
           p \in Answering => clar.attempted
    PROVE  IInv'
  <1>1. /\ \A v \in Workers \ {w} : loc'[v] = loc[v]
        /\ loc'[w].pc = p /\ loc'[w].seen = loc[w].seen
    BY GotoLoc DEF IInv
  <1>2. "answer" \in loc'[w].seen => clar.attempted
    BY <1>1 DEF IInv, WorkerInv, RespondInv
  <1> QED BY <1>1, <1>2, QuietStep

\* A worker that starts over.
LEMMA ResetStep ==
    ASSUME IInv, TypeOK', NEW w \in Workers, loc' = [loc EXCEPT ![w] = IdleLocal], Same
    PROVE  IInv'
  <1>1. \A v \in Workers \ {w} : loc'[v] = loc[v]
    BY DEF IInv, TypeOK
  <1>2. loc'[w] = IdleLocal
    BY DEF IInv, TypeOK
  <1> QED BY <1>1, <1>2, QuietStep DEF IdleLocal, Committed, Answering

LEMMA QuietSteps ==
    ASSUME IInv, TypeOK', NEW w \in Workers,
           \/ claim_scheduler(w) \/ release_scheduler(w) \/ Crash(w) \/ _reconcile_active(w)
           \/ HoldConfirmation(w) \/ HoldAnswer(w) \/ SettleHold(w) \/ RecheckCancel(w)
           \/ _set_waiting_state(w) \/ Interrupt(w) \/ FinishCanceled(w) \/ FailTask(w)
    PROVE  IInv'
  <1>0. TypeOK /\ ClarInv /\ WorkerInv(w) /\ loc[w] \in Local
    BY DEF IInv, SharedInv, TypeOK
  <1>1. CASE claim_scheduler(w)
    BY <1>1, MoveStep DEF claim_scheduler, Same, Pcs, Committed, Answering
  <1>2. CASE release_scheduler(w)
    BY <1>2, ResetStep DEF release_scheduler, Same
  <1>3. CASE Crash(w)
    BY <1>3, ResetStep DEF Crash, Same
  <1>4. CASE _reconcile_active(w)
    <2> DEFINE l == [loc[w] EXCEPT !.pc = IF task.cancel THEN "cancel" ELSE "confirm",
                                   !.pass = IF task.cancel THEN 0 ELSE 1,
                                   !.cancel = task.cancel, !.seen = Listing]
    <2>1. l.pc \in {"cancel", "confirm"} /\ l.seen = Listing
      BY <1>0 DEF Local
    <2>2. loc' = [loc EXCEPT ![w] = l]
      BY <1>4 DEF _reconcile_active
    <2> HIDE DEF l
    <2>3. loc'[w] = l /\ \A v \in Workers \ {w} : loc'[v] = loc[v]
      BY <1>0, <2>2 DEF TypeOK
    <2>4. Same
      BY <1>4 DEF _reconcile_active, Same
    <2> QED BY <1>0, <2>1, <2>3, <2>4, AnswerListed, QuietStep DEF Committed, Answering
  <1>5. CASE HoldConfirmation(w)
    <2>1. Same
      BY <1>0, <1>5, TaskKeeps DEF HoldConfirmation, Same
    <2>2. \E p \in {"confirmed", "answer", "release"} : Goto(w, p)
      BY <1>5 DEF HoldConfirmation, Fenced
    <2> QED BY <2>1, <2>2, MoveStep DEF Pcs, Committed, Answering
  <1>6. CASE HoldAnswer(w)
    <2>1. Same
      BY <1>0, <1>6, TaskKeeps DEF HoldAnswer, Same
    <2>2. \E p \in {"responded", "settle", "release"} : Goto(w, p)
      BY <1>6 DEF HoldAnswer, Fenced
    <2>3. clar.attempted
      BY <1>0, <1>6 DEF HoldAnswer, WorkerInv, RespondInv
    <2> QED BY <2>1, <2>2, <2>3, MoveStep DEF Pcs, Committed, Answering
  <1>7. CASE SettleHold(w)
    <2>1. Same
      BY <1>0, <1>7, TaskKeeps DEF SettleHold, Same
    <2>2. <<"release", "discover", "wait">>[loc[w].pass + 1] \in {"release", "discover", "wait"}
      BY <1>0 DEF Local
    <2>3. \E p \in {"release", "discover", "wait"} : Goto(w, p)
      BY <1>7, <2>2 DEF SettleHold, Fenced
    <2> QED BY <2>1, <2>3, MoveStep DEF Pcs, Committed, Answering
  <1>8. CASE RecheckCancel(w)
    <2> DEFINE l == [loc[w] EXCEPT !.pc = IF task.cancel THEN "release" ELSE "confirm",
                                   !.pass = 2, !.cancel = task.cancel]
    <2>1. l.pc \in {"release", "confirm"} /\ l.seen = loc[w].seen
      BY <1>0 DEF Local
    <2>2. loc' = [loc EXCEPT ![w] = l]
      BY <1>8 DEF RecheckCancel
    <2> HIDE DEF l
    <2>3. loc'[w] = l /\ \A v \in Workers \ {w} : loc'[v] = loc[v]
      BY <1>0, <2>2 DEF TypeOK
    <2>4. Same
      BY <1>8 DEF RecheckCancel, Same
    <2>5. "answer" \in loc'[w].seen => clar.attempted
      BY <1>0, <2>1, <2>3 DEF WorkerInv, RespondInv
    <2> QED BY <2>1, <2>3, <2>4, <2>5, QuietStep DEF Committed, Answering
  <1>9. CASE _set_waiting_state(w)
    <2>1. Same
      BY <1>0, <1>9, TaskKeeps DEF _set_waiting_state, Same
    <2> QED BY <1>9, <2>1, MoveStep DEF _set_waiting_state, Pcs, Committed, Answering
  <1>10. CASE Interrupt(w)
    <2>1. task'.cancel = task.cancel /\ task'.marked = task.marked
      BY <1>0, <1>10, ZenonT(60) DEF Interrupt, TypeOK, TaskRow
    <2>2. cma'.confirmations = cma.confirmations /\ cma'.results = cma.results
      BY <1>0, <1>10 DEF Interrupt, TypeOK, Provider
    <2> QED BY <1>10, <2>1, <2>2, MoveStep DEF Interrupt, Same, Pcs, Committed, Answering
  <1>11. CASE FinishCanceled(w)
    <2>1. Same
      BY <1>0, <1>11, TaskKeeps DEF FinishCanceled, Same
    <2> QED BY <1>11, <2>1, MoveStep DEF FinishCanceled, Pcs, Committed, Answering
  <1>12. CASE FailTask(w)
    <2>1. Same
      BY <1>0, <1>12, TaskKeeps DEF FailTask, Same
    <2> QED BY <1>12, <2>1, MoveStep DEF FailTask, Pcs, Committed, Answering
  <1> QED BY <1>1, <1>2, <1>3, <1>4, <1>5, <1>6, <1>7, <1>8, <1>9, <1>10, <1>11, <1>12

----
\* Steps of a worker that confirm the tool use

\* A step that changes a row and leaves the worker where its record says nothing.
LEMMA WriteStep ==
    ASSUME IInv, TypeOK', NEW w \in Workers, SharedInv',
           \A v \in Workers \ {w} : loc'[v] = loc[v] /\ Keeps(v),
           loc'[w].pc \notin Committed,
           loc'[w].pc \in Answering => clar'.attempted,
           "answer" \in loc'[w].seen => clar'.attempted
    PROVE  IInv'
  <1>1. ASSUME NEW v \in Workers \ {w} PROVE WorkerInv(v)'
    BY <1>1, OthersKeep DEF IInv
  <1>2. WorkerInv(w)'
    BY DEF WorkerInv, SendInv, RespondInv, CancelTextInv, PublishInv, At, Committed, Answering
  <1>3. OneSender' /\ OneResponder'
    BY OneEach DEF IInv, Committed
  <1> QED BY <1>1, <1>2, <1>3 DEF IInv

\* The groups of the invariant that a step on the review row leaves alone.
LEMMA ClarKept ==
    ASSUME IInv, UNCHANGED <<clar, store, cli>>, cma'.results = cma.results
    PROVE  ClarInv' /\ \A c \in Clients : AnswerInv(c)'
  BY DEF IInv, SharedInv, ClarInv, AnswerInv

\* The groups that a step on the clarification row leaves alone.
LEMMA ReviewKept ==
    ASSUME IInv, UNCHANGED <<review, offers, rulings, basis>>,
           cma'.confirmations = cma.confirmations,
           task'.cancel = task.cancel, task'.marked = task.marked
    PROVE  ReviewInv' /\ ConfirmInv' /\ OfferInv' /\ BasisInv' /\ StopInv'
  BY DEF IInv, SharedInv, ReviewInv, ConfirmInv, OfferInv, BasisInv, StopInv

\* The attempt is marked, and only by one worker.
LEMMA MarkStep ==
    ASSUME IInv, TypeOK', NEW w \in Workers, _reconcile_confirmations(w)
    PROVE  IInv'
  <1>0. /\ TypeOK /\ ReviewInv /\ ConfirmInv /\ WorkerInv(w) /\ loc[w] \in Local
        /\ review \in ReviewRow /\ At(w, "confirm")
    BY DEF IInv, SharedInv, TypeOK, _reconcile_confirmations
  <1>1. CASE UNCHANGED review /\ \E p \in {"answer", "release"} : Goto(w, p)
    <2>1. Same
      BY <1>0, <1>1, TaskKeeps DEF _reconcile_confirmations, Same
    <2> QED BY <1>1, <2>1, MoveStep DEF Pcs, Committed, Answering
  <1>2. CASE /\ UNCHANGED <<task, review>>
             /\ loc' = [loc EXCEPT ![w] = [@ EXCEPT !.pc = "confirmed", !.row = review]]
    <2> DEFINE l == [loc[w] EXCEPT !.pc = "confirmed", !.row = review]
    <2>1. l.pc = "confirmed" /\ l.seen = loc[w].seen
      BY <1>0 DEF Local
    <2>2. loc' = [loc EXCEPT ![w] = l]
      BY <1>2
    <2> HIDE DEF l
    <2>3. loc'[w] = l /\ \A v \in Workers \ {w} : loc'[v] = loc[v]
      BY <1>0, <2>2 DEF TypeOK
    <2>4. Same
      BY <1>2 DEF _reconcile_confirmations, Same
    <2>5. "answer" \in loc'[w].seen => clar.attempted
      BY <1>0, <2>1, <2>3 DEF WorkerInv, RespondInv
    <2> QED BY <2>1, <2>3, <2>4, <2>5, QuietStep DEF Committed, Answering
  <1>3. CASE /\ review.status = "resolving" /\ ~review.attempted
             /\ MayMark(w)
             /\ review' = [review EXCEPT !.attempted = TRUE]
             /\ loc' = [loc EXCEPT ![w] = [@ EXCEPT !.pc = "send", !.row = review]]
             /\ UNCHANGED task
    <2> DEFINE l == [loc[w] EXCEPT !.pc = "send", !.row = review]
    <2>1. l.pc = "send" /\ l.seen = loc[w].seen /\ l.row = review
      BY <1>0 DEF Local
    <2>2. loc' = [loc EXCEPT ![w] = l]
      BY <1>3
    <2> HIDE DEF l
    <2>3. loc'[w] = l /\ \A v \in Workers \ {w} : loc'[v] = loc[v]
      BY <1>0, <2>2 DEF TypeOK
    <2>4. /\ review'.attempted /\ review'.status = review.status /\ review'.id = review.id
          /\ review'.digest = review.digest /\ review'.ruling = review.ruling
          /\ review'.decision = review.decision /\ review.decision \in Decisions
      BY <1>0, <1>3 DEF ReviewInv, ReviewRow
    <2>5. UNCHANGED <<policy, clar, store, offers, rulings, basis, cma, lease, cli, count>>
      BY <1>0 DEF _reconcile_confirmations
    <2>6. ClarInv' /\ \A c \in Clients : AnswerInv(c)'
      BY <2>5, ClarKept
    <2>7. ReviewInv' /\ ConfirmInv' /\ OfferInv' /\ BasisInv' 
      BY <1>0, <1>3, <2>4, <2>5 DEF IInv, SharedInv, ReviewInv, ConfirmInv, OfferInv, BasisInv
    <2>8. StopInv'
      BY <1>3, <2>4 DEF StopInv, MayMark
    <2>9. ASSUME NEW v \in Workers \ {w} PROVE WorkerInv(v)'
      <3>1. Keeps(v)
        BY <1>0, <1>3, <2>4, <2>5 DEF Keeps, ReviewRow
      <3> QED BY <2>3, <3>1, OthersKeep DEF IInv
    <2>10. WorkerInv(w)'
      <3>1. cma.confirmations = <<>>
        BY <1>0, <1>3 DEF ConfirmInv
      <3> QED BY <1>0, <2>1, <2>3, <2>4, <2>5, <3>1
             DEF WorkerInv, SendInv, RespondInv, CancelTextInv, PublishInv, At
    <2>11. OneSender' /\ OneResponder'
      <3>1. \A v \in Workers : ~At(v, "send")
        BY <1>3 DEF IInv, WorkerInv, SendInv
      <3> QED BY <2>1, <2>3, <3>1, OneEach DEF IInv
    <2> QED BY <2>6, <2>7, <2>8, <2>9, <2>10, <2>11 DEF IInv, SharedInv
  <1> QED BY <1>0, <1>1, <1>2, <1>3 DEF _reconcile_confirmations, Fenced

\* The one worker that marked the attempt confirms what the row says.
LEMMA ConfirmStep ==
    ASSUME IInv, TypeOK', NEW w \in Workers, confirm_tool(w)
    PROVE  IInv'
  <1>0. /\ TypeOK /\ WorkerInv(w) /\ loc[w] \in Local /\ cma \in Provider
        /\ At(w, "send") /\ review.attempted /\ cma.confirmations = <<>>
        /\ loc[w].row.decision = review.decision /\ review \in ReviewRow
    BY DEF IInv, SharedInv, TypeOK, confirm_tool, WorkerInv, SendInv
  <1>1. UNCHANGED <<policy, task, review, clar, store, offers, rulings, basis, lease, cli>>
    BY DEF confirm_tool
  <1>2. /\ cma'.results = cma.results
        /\ cma'.confirmations = <<>> \/ cma'.confirmations = <<review.decision>>
    <2>1. cma' \in {cma, [cma EXCEPT !.confirmations = Append(@, review.decision)]}
      BY <1>0 DEF confirm_tool
    <2>2. Append(<<>>, review.decision) = <<review.decision>>
      BY <1>0 DEF ReviewRow
    <2> QED BY <1>0, <2>1, <2>2 DEF Provider
  <1>3. PICK p \in {"confirmed", "fail", "lost"} : Goto(w, p)
    BY DEF confirm_tool
  <1>4. /\ \A v \in Workers \ {w} : loc'[v] = loc[v]
        /\ loc'[w].pc = p /\ loc'[w].seen = loc[w].seen
    BY <1>0, <1>3, GotoLoc DEF Pcs
  <1>5. ConfirmInv'
    <2>1. CASE cma'.confirmations = <<>>
      BY <2>1 DEF ConfirmInv
    <2>2. CASE cma'.confirmations = <<review.decision>>
      <3> DEFINE s == <<review.decision>>
      <3>1. Len(s) = 1 /\ \A i \in DOMAIN s : s[i] = review.decision
        OBVIOUS
      <3> HIDE DEF s
      <3> QED BY <1>0, <1>1, <2>2, <3>1 DEF ConfirmInv, s
    <2> QED BY <1>2, <2>1, <2>2
  <1>6. ReviewInv' /\ OfferInv' /\ BasisInv' /\ StopInv'
    BY <1>1 DEF IInv, SharedInv, ReviewInv, OfferInv, BasisInv, StopInv
  <1>7. ClarInv' /\ \A c \in Clients : AnswerInv(c)'
    BY <1>1, <1>2, ClarKept
  <1>8. ASSUME NEW v \in Workers \ {w} PROVE Keeps(v)
    <2>1. ~At(v, "send")
      BY <1>0 DEF IInv, OneSender
    <2> QED BY <1>0, <1>1, <1>2, <2>1 DEF Keeps, ReviewRow
  <1>9. loc'[w].pc \notin Committed \cup Answering
    BY <1>4 DEF Committed, Answering
  <1>10. "answer" \in loc'[w].seen => clar'.attempted
    BY <1>0, <1>1, <1>4 DEF WorkerInv, RespondInv
  <1> QED BY <1>4, <1>5, <1>6, <1>7, <1>8, <1>9, <1>10, WriteStep DEF SharedInv

\* A review that is closed keeps its decision.
LEMMA ResolveStep ==
    ASSUME IInv, TypeOK', NEW w \in Workers, ResolveReview(w)
    PROVE  IInv'
  <1>0. TypeOK /\ WorkerInv(w) /\ review \in ReviewRow
    BY DEF IInv, TypeOK
  <1>1. UNCHANGED <<policy, task, clar, store, offers, rulings, basis, cma, lease, cli, count>>
    BY DEF ResolveReview
  <1>2. /\ \A v \in Workers \ {w} : loc'[v] = loc[v]
        /\ loc'[w].pc = "answer" /\ loc'[w].seen = loc[w].seen
    BY <1>0, LeaveLoc DEF ResolveReview, Pcs
  <1>3. /\ review'.id = review.id /\ review'.digest = review.digest
        /\ review'.ruling = review.ruling /\ review'.decision = review.decision
        /\ review'.attempted = review.attempted
        /\ review' = review \/ (review.status = "resolving" /\ review'.status = "resolved")
    BY <1>0 DEF ResolveReview, ReviewRow
  <1>4. ReviewInv'
    BY <1>3 DEF IInv, SharedInv, ReviewInv
  <1>5. ConfirmInv' /\ OfferInv' /\ BasisInv' /\ StopInv'
    BY <1>1, <1>3 DEF IInv, SharedInv, ConfirmInv, OfferInv, BasisInv, StopInv
  <1>6. ClarInv' /\ \A c \in Clients : AnswerInv(c)'
    BY <1>1, ClarKept
  <1>7. \A v \in Workers \ {w} : Keeps(v)
    BY <1>0, <1>1, <1>3 DEF Keeps, ReviewRow
  <1>8. "answer" \in loc'[w].seen => clar'.attempted
    BY <1>0, <1>1, <1>2 DEF WorkerInv, RespondInv
  <1> QED BY <1>2, <1>4, <1>5, <1>6, <1>7, <1>8, WriteStep DEF SharedInv, Committed, Answering

----
\* Steps of a worker that answer the clarification

LEMMA MarkAnswerStep ==
    ASSUME IInv, TypeOK', NEW w \in Workers, AnswerClarification(w)
    PROVE  IInv'
  <1>0. TypeOK /\ ClarInv /\ WorkerInv(w) /\ clar \in ClarRow /\ At(w, "answer")
    BY DEF IInv, SharedInv, TypeOK, AnswerClarification
  <1>1. CASE UNCHANGED clar /\ \E p \in {"settle", "release"} : Goto(w, p)
    <2>1. Same
      BY <1>0, <1>1, TaskKeeps DEF AnswerClarification, Same
    <2> QED BY <1>1, <2>1, MoveStep DEF Pcs, Committed, Answering
  <1>2. CASE "answer" \in loc[w].seen /\ Goto(w, "responded") /\ UNCHANGED <<task, clar>>
    <2>1. Same
      BY <1>2 DEF AnswerClarification, Same
    <2>2. clar.attempted
      BY <1>0, <1>2 DEF WorkerInv, RespondInv
    <2> QED BY <1>2, <2>1, <2>2, MoveStep DEF Pcs, Committed, Answering
  <1>3. CASE /\ clar.status = "resolving" /\ ~clar.attempted
             /\ clar' = [clar EXCEPT !.attempted = TRUE]
             /\ Goto(w, "respond")
             /\ UNCHANGED task
    <2>1. /\ \A v \in Workers \ {w} : loc'[v] = loc[v]
          /\ loc'[w].pc = "respond" /\ loc'[w].seen = loc[w].seen
      BY <1>0, <1>3, GotoLoc DEF Pcs
    <2>2. UNCHANGED <<policy, task, review, store, offers, rulings, basis, cma, lease, cli, count>>
      BY <1>3 DEF AnswerClarification
    <2>3. clar'.attempted /\ clar'.status = clar.status /\ clar'.answer = clar.answer
      BY <1>0, <1>3 DEF ClarRow
    <2>4. ClarInv' /\ cma.results = <<>>
      BY <1>0, <1>3, <2>2, <2>3 DEF ClarInv
    <2>5. \A c \in Clients : AnswerInv(c)'
      BY <2>2, <2>3 DEF IInv, SharedInv, AnswerInv
    <2>6. ReviewInv' /\ ConfirmInv' /\ OfferInv' /\ BasisInv' /\ StopInv'
      BY <2>2, ReviewKept
    <2>7. ASSUME NEW v \in Workers \ {w} PROVE WorkerInv(v)'
      <3>1. review.id \in Nat
        BY <1>0 DEF TypeOK, ReviewRow
      <3>2. Keeps(v)
        BY <2>2, <2>3, <3>1 DEF Keeps
      <3> QED BY <2>1, <3>2, OthersKeep DEF IInv
    <2>8. WorkerInv(w)'
      BY <2>1, <2>2, <2>3, <2>4
         DEF WorkerInv, SendInv, RespondInv, CancelTextInv, PublishInv, At
    <2>9. OneSender' /\ OneResponder'
      <3>1. \A v \in Workers : ~At(v, "respond")
        BY <1>3 DEF IInv, WorkerInv, RespondInv
      <3> QED BY <2>1, <3>1, OneEach DEF IInv
    <2> QED BY <2>4, <2>5, <2>6, <2>7, <2>8, <2>9 DEF IInv, SharedInv
  <1> QED BY <1>0, <1>1, <1>2, <1>3
         DEF AnswerClarification, Fenced, mark_clarification_attempted

\* The one worker that marked the attempt sends the answer of the row.
LEMMA RespondStep ==
    ASSUME IInv, TypeOK', NEW w \in Workers, send_custom_tool_result(w)
    PROVE  IInv'
  <1> DEFINE result == [text |-> clar.answer, is_error |-> loc[w].cancel]
  <1>0. /\ TypeOK /\ ClarInv /\ WorkerInv(w) /\ cma \in Provider /\ At(w, "respond")
        /\ clar.attempted /\ cma.results = <<>> /\ review.id \in Nat
    BY DEF IInv, SharedInv, TypeOK, send_custom_tool_result, WorkerInv, RespondInv, ReviewRow
  <1>1. UNCHANGED <<policy, task, review, clar, store, offers, rulings, basis, lease, cli>>
    BY DEF send_custom_tool_result
  <1>2. /\ cma'.confirmations = cma.confirmations
        /\ cma'.results = <<>> \/ cma'.results = <<result>>
    <2>1. cma' \in {cma, [cma EXCEPT !.results = Append(@, result)]}
      BY <1>0 DEF send_custom_tool_result
    <2>2. Append(<<>>, result) = <<result>>
      OBVIOUS
    <2> HIDE DEF result
    <2> QED BY <1>0, <2>1, <2>2 DEF Provider
  <1>3. PICK p \in {"responded", "fail", "unanswered"} : Goto(w, p)
    BY DEF send_custom_tool_result
  <1>4. /\ \A v \in Workers \ {w} : loc'[v] = loc[v]
        /\ loc'[w].pc = p /\ loc'[w].seen = loc[w].seen
    BY <1>0, <1>3, GotoLoc DEF Pcs
  <1>5. Len(cma'.results) <= 1 /\ \A i \in DOMAIN cma'.results : cma'.results[i].text = clar.answer
    <2>1. CASE cma'.results = <<>>
      BY <2>1
    <2>2. CASE cma'.results = <<result>>
      BY <2>2
    <2> QED BY <1>2, <2>1, <2>2
  <1>6. ClarInv'
    BY <1>0, <1>1, <1>5 DEF ClarInv
  <1>7. ReviewInv' /\ ConfirmInv' /\ OfferInv' /\ BasisInv' /\ StopInv'
    BY <1>1, <1>2, ReviewKept
  <1>8. \A c \in Clients : AnswerInv(c)'
    BY <1>1 DEF IInv, SharedInv, AnswerInv
  <1>9. ASSUME NEW v \in Workers \ {w} PROVE Keeps(v)
    <2>1. ~At(v, "respond")
      BY <1>0 DEF IInv, OneResponder
    <2> QED BY <1>0, <1>1, <1>2, <2>1 DEF Keeps
  <1>10. loc'[w].pc \notin Committed /\ clar'.attempted
    BY <1>0, <1>1, <1>4 DEF Committed
  <1> QED BY <1>4, <1>6, <1>7, <1>8, <1>9, <1>10, WriteStep DEF SharedInv

\* A clarification that is closed keeps its answer.
LEMMA ResolveAnswerStep ==
    ASSUME IInv, TypeOK', NEW w \in Workers, ResolveClarification(w)
    PROVE  IInv'
  <1>0. /\ TypeOK /\ WorkerInv(w) /\ clar \in ClarRow /\ review.id \in Nat
        /\ clar.attempted
    BY DEF IInv, TypeOK, ReviewRow, ResolveClarification, WorkerInv, RespondInv
  <1>1. UNCHANGED <<policy, task, review, store, offers, rulings, basis, cma, lease, cli, count>>
    BY DEF ResolveClarification
  <1>2. /\ \A v \in Workers \ {w} : loc'[v] = loc[v]
        /\ loc'[w].pc = "delete" /\ loc'[w].seen = loc[w].seen
    BY <1>0, GotoLoc DEF ResolveClarification, Pcs
  <1>3. /\ clar'.answer = clar.answer /\ clar'.attempted
        /\ clar' = clar \/ (clar.status = "resolving" /\ clar'.status = "resolved")
    BY <1>0 DEF ResolveClarification, ClarRow
  <1>4. ClarInv'
    BY <1>0, <1>1, <1>3 DEF IInv, SharedInv, ClarInv
  <1>5. \A c \in Clients : AnswerInv(c)'
    BY <1>1, <1>3 DEF IInv, SharedInv, AnswerInv
  <1>6. ReviewInv' /\ ConfirmInv' /\ OfferInv' /\ BasisInv' /\ StopInv'
    BY <1>1, ReviewKept
  <1>7. \A v \in Workers \ {w} : Keeps(v)
    BY <1>0, <1>1, <1>3 DEF Keeps
  <1> QED BY <1>2, <1>3, <1>4, <1>5, <1>6, <1>7, WriteStep DEF SharedInv, Committed

\* Only the text of an attempted answer is deleted by a worker that answered.
LEMMA DeleteStep ==
    ASSUME IInv, TypeOK', NEW w \in Workers, DeleteAnswer(w)
    PROVE  IInv'
  <1>0. /\ TypeOK /\ WorkerInv(w) /\ review.id \in Nat /\ clar.attempted
    BY DEF IInv, TypeOK, ReviewRow, DeleteAnswer, WorkerInv, RespondInv
  <1>1. /\ UNCHANGED <<policy, task, review, clar, offers, rulings, basis, cma, lease, cli, count>>
        /\ store' = store \ {clar.answer}
    BY DEF DeleteAnswer
  <1>2. /\ \A v \in Workers \ {w} : loc'[v] = loc[v]
        /\ loc'[w].pc = "settle" /\ loc'[w].seen = loc[w].seen
    BY <1>0, GotoLoc DEF DeleteAnswer, Pcs
  <1>3. ClarInv'
    BY <1>0, <1>1 DEF IInv, SharedInv, ClarInv
  <1>4. \A c \in Clients : AnswerInv(c)'
    BY <1>1 DEF IInv, SharedInv, AnswerInv
  <1>5. ReviewInv' /\ ConfirmInv' /\ OfferInv' /\ BasisInv' /\ StopInv'
    BY <1>1, ReviewKept
  <1>6. \A v \in Workers \ {w} : Keeps(v)
    BY <1>0, <1>1 DEF Keeps
  <1> QED BY <1>0, <1>1, <1>2, <1>3, <1>4, <1>5, <1>6, WriteStep
         DEF SharedInv, Committed, Answering

\* New rows have no decision and no answer.
LEMMA DiscoverStep ==
    ASSUME IInv, TypeOK', NEW w \in Workers, DiscoverRequests(w)
    PROVE  IInv'
  <1>0. /\ TypeOK /\ ClarInv /\ ReviewInv /\ WorkerInv(w) /\ loc[w] \in Local
        /\ review \in ReviewRow /\ clar \in ClarRow
    BY DEF IInv, SharedInv, TypeOK
  <1>1. /\ UNCHANGED <<policy, store, offers, rulings, basis, cma, lease, cli, count>>
        /\ task'.cancel = task.cancel /\ task'.marked = task.marked
    BY <1>0, TaskKeeps DEF DiscoverRequests
  <1>2. /\ \A v \in Workers \ {w} : loc'[v] = loc[v]
        /\ loc'[w].pc \in {"evaluate", "release"}
        /\ loc'[w].seen = loc[w].seen \/ loc'[w].seen = Listing
    <2>1. CASE loc' = [loc EXCEPT ![w] = [@ EXCEPT !.pc = "evaluate", !.seen = Listing]]
      <3> DEFINE l == [loc[w] EXCEPT !.pc = "evaluate", !.seen = Listing]
      <3>1. l.pc = "evaluate" /\ l.seen = Listing
        BY <1>0 DEF Local
      <3>2. loc' = [loc EXCEPT ![w] = l]
        BY <2>1
      <3> HIDE DEF l
      <3> QED BY <1>0, <3>1, <3>2 DEF TypeOK
    <2>2. CASE Fenced(w, "release")
      BY <1>0, <2>2, GotoLoc DEF Fenced, Pcs
    <2> QED BY <2>1, <2>2 DEF DiscoverRequests
  <1>3. \/ review' = review
        \/ /\ review = NoReview /\ review'.status = "pending" /\ review'.id = 1
           /\ review'.digest = None /\ review'.ruling = None /\ review'.decision = None
           /\ ~review'.attempted
    <2>1. CASE review.status = "absent" /\ review' = [review EXCEPT !.status = "pending", !.id = 1]
      <3>1. review = NoReview
        BY <1>0, <2>1 DEF ReviewInv
      <3> QED BY <2>1, <3>1 DEF NoReview
    <2> QED BY <2>1 DEF DiscoverRequests
  <1>4. /\ clar'.answer = clar.answer /\ clar'.attempted = clar.attempted
        /\ clar' = clar \/ (clar.status = "absent" /\ clar'.status = "pending")
    BY <1>0 DEF DiscoverRequests, ClarRow
  <1>5. ReviewInv' /\ ConfirmInv' /\ BasisInv' /\ StopInv'
    <2>1. CASE review' = review
      BY <1>1, <2>1 DEF IInv, SharedInv, ReviewInv, ConfirmInv, BasisInv, StopInv
    <2>2. CASE review' # review
      <3>1. cma.confirmations = <<>>
        BY <1>3, <2>2 DEF NoReview, IInv, SharedInv, ConfirmInv
      <3> QED BY <1>1, <1>3, <2>2, <3>1, ConstantsAssumption
             DEF ReviewInv, ConfirmInv, BasisInv, StopInv
    <2> QED BY <2>1, <2>2
  <1>6. OfferInv'
    <2>1. CASE review' = review
      BY <1>1, <2>1 DEF IInv, SharedInv, OfferInv
    <2>2. CASE review' # review
      <3>1. review.id = 0 /\ review'.id = 1 /\ review'.ruling = None
        BY <1>3, <2>2 DEF NoReview
      <3>2. \A o \in offers : o.id <= 0 /\ o.id \in Nat
        BY <1>0, <3>1 DEF IInv, SharedInv, OfferInv, TypeOK, Offer
      <3>3. \A g \in rulings : g.offer.id <= 0 /\ g.offer.id \in Nat
        BY <1>0, <3>1 DEF IInv, SharedInv, OfferInv, TypeOK, Offer
      <3> QED BY <1>1, <3>1, <3>2, <3>3 DEF OfferInv
    <2> QED BY <2>1, <2>2
  <1>7. ClarInv' /\ \A c \in Clients : AnswerInv(c)'
    BY <1>1, <1>4 DEF IInv, SharedInv, ClarInv, AnswerInv
  <1>8. \A v \in Workers \ {w} : Keeps(v)
    <2>1. review' = review \/ (review.id = 0 /\ review'.id = 1 /\ ~review.attempted)
      BY <1>3 DEF NoReview
    <2> QED BY <1>0, <1>1, <1>4, <2>1 DEF Keeps, ReviewRow
  <1>9. "answer" \in loc'[w].seen => clar'.attempted
    BY <1>0, <1>2, <1>4, AnswerListed DEF WorkerInv, RespondInv
  <1> QED BY <1>2, <1>5, <1>6, <1>7, <1>8, <1>9, WriteStep DEF SharedInv, Committed, Answering

----
\* Steps of a worker that decide the review

\* An outcome of the policy engine is what its document says, or the ruling that was
\* given under that document.
LEMMA DecideAllow ==
    ASSUME TypeOK
    PROVE  /\ Decide(review) \in Outcomes \ {"none"}
           /\ Decide(review) = "allow" =>
                 \/ review.ruling = None /\ Verdict[policy] = "allow"
                 \/ review.ruling = "allow" /\ review.digest = policy
  <1>1. /\ Verdict[policy] \in {"allow", "deny", "review", "unsupported"}
        /\ review.ruling \in Decisions \cup {None}
    BY ConstantsAssumption DEF TypeOK, ReviewRow
  <1>2. CASE review.ruling = None
    BY <1>1, <1>2 DEF Decide, evaluate, Outcomes
  <1>3. CASE review.ruling # None
    BY <1>1, <1>3 DEF Decide, evaluate, Outcomes, Decisions
  <1> QED BY <1>2, <1>3

LEMMA EvaluateStep ==
    ASSUME IInv, TypeOK', NEW w \in Workers, _evaluate_policy(w)
    PROVE  IInv'
  <1>0. TypeOK /\ WorkerInv(w) /\ loc[w] \in Local /\ review \in ReviewRow /\ policy \in Policies
    BY DEF IInv, TypeOK
  <1>1. Same
    BY DEF _evaluate_policy, Same
  <1>2. CASE \E p \in {"recheck", "wait"} : Goto(w, p)
    BY <1>1, <1>2, MoveStep DEF Pcs, Committed, Answering
  <1>3. ASSUME NEW out \in {Decide(review), "failed"},
               loc' = [loc EXCEPT ![w] = [@ EXCEPT !.pc = "publish", !.row = review,
                                                   !.out = out, !.under = policy]]
        PROVE  IInv'
    <2> DEFINE l == [loc[w] EXCEPT !.pc = "publish", !.row = review, !.out = out, !.under = policy]
    <2>1. /\ l.pc = "publish" /\ l.seen = loc[w].seen /\ l.row = review /\ l.out = out
          /\ l.under = policy
      BY <1>0 DEF Local
    <2>2. loc' = [loc EXCEPT ![w] = l]
      BY <1>3
    <2> HIDE DEF l
    <2>3. loc'[w] = l /\ \A v \in Workers \ {w} : loc'[v] = loc[v]
      BY <1>0, <2>2 DEF TypeOK
    <2>4. SharedInv'
      BY <1>1, SameShared DEF IInv
    <2>5. ASSUME NEW v \in Workers \ {w} PROVE WorkerInv(v)'
      BY <1>1, <2>3, SameKeeps, OthersKeep DEF IInv
    <2>6. WorkerInv(w)'
      <3>1. SendInv(w)' /\ CancelTextInv(w)'
        BY <2>1, <2>3 DEF SendInv, CancelTextInv, At
      <3>2. RespondInv(w)'
        BY <1>0, <1>1, <2>1, <2>3 DEF WorkerInv, RespondInv, At, Same
      <3>3. PublishInv(w)'
        <4>1. /\ out # "none"
              /\ out = "allow" => \/ review.ruling = None /\ Verdict[policy] = "allow"
                                  \/ review.ruling = "allow" /\ review.digest = policy
          BY <1>0, <1>3, DecideAllow
        <4>2. policy # None /\ review.id <= review.id /\ review' = review
          BY <1>0, <1>1, ConstantsAssumption DEF ReviewRow, Same
        <4> QED BY <2>1, <2>3, <4>1, <4>2 DEF PublishInv
      <3> QED BY <3>1, <3>2, <3>3 DEF WorkerInv
    <2>7. OneSender' /\ OneResponder'
      BY <2>1, <2>3, OneEach DEF IInv
    <2> QED BY <2>4, <2>5, <2>6, <2>7 DEF IInv
  <1> QED BY <1>2, <1>3 DEF _evaluate_policy

\* A new review, or none, takes a new request id.
LEMMA OfferStep ==
    ASSUME IInv, NEW d \in Policies \cup {None}, review.decision = None,
           review.status = "pending", ~review.attempted,
           review' = [review EXCEPT !.id = @ + 1, !.digest = d, !.ruling = None],
           UNCHANGED <<offers, rulings, basis, cma>>
    PROVE  /\ ReviewInv' /\ ConfirmInv' /\ OfferInv' /\ BasisInv' /\ StopInv'
           /\ review'.id > review.id
  <1>1. review \in ReviewRow /\ review.id \in Nat /\ review.id + 1 \in Nat
    BY DEF IInv, TypeOK, ReviewRow
  <1>2. /\ review'.id = review.id + 1 /\ review'.ruling = None /\ review'.decision = None
        /\ review'.status = "pending" /\ ~review'.attempted
    BY <1>1 DEF ReviewRow
  <1>3. ReviewInv' /\ ConfirmInv' /\ BasisInv' /\ StopInv'
    BY <1>2, ConstantsAssumption DEF IInv, SharedInv, ReviewInv, ConfirmInv, BasisInv, StopInv
  <1>4. OfferInv'
    <2>1. ASSUME NEW o \in offers PROVE o.id \in Nat /\ o.id <= review.id
      BY DEF IInv, TypeOK, Offer, SharedInv, OfferInv
    <2>2. ASSUME NEW g \in rulings PROVE g.offer.id \in Nat /\ g.offer.id <= review.id
      BY DEF IInv, TypeOK, Offer, SharedInv, OfferInv
    <2> QED BY <1>1, <1>2, <2>1, <2>2 DEF OfferInv
  <1> QED BY <1>1, <1>2, <1>3, <1>4

\* A decision rests on what the worker read, which is what the row still says.
LEMMA DecisionStep ==
    ASSUME IInv, TypeOK', NEW w \in Workers, At(w, "publish"), MayPublish(w),
           Publication(w) = "decide", record_policy_decision(w),
           UNCHANGED <<offers, rulings, cma>>
    PROVE  /\ ReviewInv' /\ ConfirmInv' /\ OfferInv' /\ BasisInv' /\ StopInv'
           /\ review'.id = review.id /\ review'.digest = review.digest
           /\ review'.ruling = review.ruling /\ ~review.attempted
  <1>1. /\ review \in ReviewRow /\ loc[w] \in Local /\ loc[w].row \in ReviewRow /\ PublishInv(w)
        /\ review.id = loc[w].row.id /\ review.status = "pending" /\ review.decision = None
        /\ ~review.attempted
    BY DEF IInv, TypeOK, Local, MayPublish, WorkerInv
  <1>2. /\ loc[w].out \in Decisions
        /\ loc[w].row.digest = None \/ loc[w].row.ruling # None
    BY <1>1 DEF Publication, PublishInv, Local, Outcomes, Decisions
  <1>3. /\ review'.id = review.id /\ review'.digest = review.digest
        /\ review'.ruling = review.ruling /\ review'.decision = loc[w].out
        /\ review'.status = "resolving" /\ ~review'.attempted
    BY <1>1 DEF record_policy_decision, ReviewRow
  <1>4. ReviewInv' /\ ConfirmInv' /\ OfferInv' /\ StopInv'
    BY <1>1, <1>2, <1>3, ConstantsAssumption
       DEF IInv, SharedInv, ReviewInv, ConfirmInv, OfferInv, StopInv, Decisions
  <1>5. BasisInv'
    <2> SUFFICES ASSUME loc[w].out = "allow"
                 PROVE  /\ basis'.id = review.id
                        /\ \/ Verdict[basis'.under] = "allow"
                           \/ [offer |-> [id |-> basis'.id, digest |-> basis'.under],
                               ruling |-> "allow"] \in rulings
                        /\ \A g \in rulings : g.offer.id = basis'.id => g.ruling # "deny"
      BY <1>3 DEF BasisInv
    <2>1. /\ basis'.id = review.id /\ basis'.under = loc[w].under
          /\ basis'.ruling = loc[w].row.ruling
      BY <1>1 DEF record_policy_decision
    <2>2. CASE loc[w].row.ruling = None /\ Verdict[loc[w].under] = "allow"
      <3>1. review.ruling = None
        BY <1>1, <1>2, <2>2 DEF PublishInv, IInv, SharedInv, ReviewInv
      <3>2. \A g \in rulings : g.offer.id = review.id => g.ruling = None
        BY <3>1 DEF IInv, SharedInv, OfferInv
      <3> QED BY <2>1, <2>2, <3>2, ConstantsAssumption
    <2>3. CASE loc[w].row.ruling = "allow" /\ loc[w].row.digest = loc[w].under
      <3>1. review.ruling = "allow" /\ review.digest = loc[w].under
        BY <1>1, <2>3, ConstantsAssumption DEF PublishInv
      <3>2. /\ [offer |-> [id |-> review.id, digest |-> review.digest], ruling |-> "allow"] \in rulings
            /\ \A g \in rulings : g.offer.id = review.id => g.ruling = "allow"
        BY <3>1, ConstantsAssumption DEF IInv, SharedInv, OfferInv
      <3> QED BY <2>1, <3>1, <3>2
    <2> QED BY <1>1, <2>2, <2>3 DEF PublishInv
  <1> QED BY <1>1, <1>3, <1>4, <1>5

LEMMA PublishStep ==
    ASSUME IInv, TypeOK', NEW w \in Workers, PublishDecision(w)
    PROVE  IInv'
  <1>0. /\ TypeOK /\ WorkerInv(w) /\ review \in ReviewRow /\ At(w, "publish")
        /\ loc[w].under \in Policies \cup {None}
    BY DEF IInv, TypeOK, Local, PublishDecision
  <1>1. UNCHANGED <<policy, clar, store, offers, rulings, cma, lease, cli, count>>
    BY DEF PublishDecision
  <1>2. task'.cancel = task.cancel /\ task'.marked = task.marked
    BY <1>0, TaskKeeps DEF PublishDecision
  <1>3. PICK p \in {"wait", "recheck", "release"} : Leave(w, p)
    BY DEF PublishDecision
  <1>4. /\ \A v \in Workers \ {w} : loc'[v] = loc[v]
        /\ loc'[w].pc = p /\ loc'[w].seen = loc[w].seen
    BY <1>0, <1>3, LeaveLoc DEF Pcs
  <1>5. loc'[w].pc \notin Committed \cup Answering
    BY <1>4 DEF Committed, Answering
  <1>6. "answer" \in loc'[w].seen => clar'.attempted
    BY <1>0, <1>1, <1>4 DEF WorkerInv, RespondInv
  <1>7. ClarInv' /\ \A c \in Clients : AnswerInv(c)'
    BY <1>1, ClarKept
  <1>8. CASE UNCHANGED <<review, basis>>
    BY <1>1, <1>2, <1>4, <1>5, <1>6, <1>8, QuietStep DEF Same
  <1>9. ASSUME MayPublish(w), NEW d \in Policies \cup {None}, record_human_review(w, d)
        PROVE  IInv'
    <2>1. review.status = "pending" /\ review.decision = None /\ ~review.attempted
      BY <1>9 DEF MayPublish
    <2>2. /\ ReviewInv' /\ ConfirmInv' /\ OfferInv' /\ BasisInv' /\ StopInv'
          /\ review'.id > review.id
      BY <1>1, <1>9, <2>1, OfferStep DEF record_human_review
    <2>3. review.id \in Nat /\ review'.id \in Nat
      BY <1>0 DEF TypeOK, ReviewRow
    <2>4. \A v \in Workers \ {w} : Keeps(v)
      BY <1>1, <2>1, <2>2, <2>3 DEF Keeps
    <2> QED BY <1>4, <1>5, <1>6, <1>7, <2>2, <2>4, WriteStep DEF SharedInv
  <1>10. CASE MayPublish(w) /\ Publication(w) = "decide" /\ record_policy_decision(w)
    <2>1. /\ ReviewInv' /\ ConfirmInv' /\ OfferInv' /\ BasisInv' /\ StopInv'
          /\ review'.id = review.id /\ review'.digest = review.digest
          /\ review'.ruling = review.ruling /\ ~review.attempted
      BY <1>0, <1>1, <1>10, DecisionStep
    <2>2. \A v \in Workers \ {w} : Keeps(v)
      BY <1>0, <1>1, <2>1 DEF Keeps, ReviewRow
    <2> QED BY <1>4, <1>5, <1>6, <1>7, <2>1, <2>2, WriteStep DEF SharedInv
  <1> QED BY <1>0, <1>8, <1>9, <1>10 DEF PublishDecision

----
\* Steps of a worker that cleans up after a stop

LEMMA DenyStep ==
    ASSUME IInv, TypeOK', NEW w \in Workers, DenyCancelled(w)
    PROVE  IInv'
  <1>0. TypeOK /\ ClarInv /\ WorkerInv(w) /\ review \in ReviewRow
    BY DEF IInv, SharedInv, TypeOK
  <1>1. UNCHANGED <<policy, task, clar, store, offers, rulings, basis, cma, lease, cli, count>>
    BY DEF DenyCancelled
  <1>2. \/ review' = review
        \/ /\ ~review.attempted /\ ~review'.attempted /\ review'.status = "resolving"
           /\ review'.decision = "deny" /\ review'.id = review.id
           /\ review'.digest = review.digest /\ review'.ruling = review.ruling
    BY <1>0 DEF DenyCancelled, ReviewRow
  <1>3. PICK p \in {"cancel_text", "confirm"} :
            Goto(w, p) /\ (p = "cancel_text" => clar.status = "pending")
    BY DEF DenyCancelled
  <1>4. /\ \A v \in Workers \ {w} : loc'[v] = loc[v]
        /\ loc'[w].pc = p /\ loc'[w].seen = loc[w].seen
    BY <1>0, <1>3, GotoLoc DEF Pcs
  <1>5. ClarInv' /\ \A c \in Clients : AnswerInv(c)'
    BY <1>1, ClarKept
  <1>6. ReviewInv' /\ ConfirmInv' /\ OfferInv' /\ BasisInv' /\ StopInv'
    <2>1. CASE review' = review
      BY <1>1, <2>1, ReviewKept
    <2>2. CASE review' # review
      BY <1>1, <1>2, <2>2, ConstantsAssumption
         DEF IInv, SharedInv, ReviewInv, ConfirmInv, OfferInv, BasisInv, StopInv
    <2> QED BY <2>1, <2>2
  <1>7. ASSUME NEW v \in Workers \ {w} PROVE WorkerInv(v)'
    <2>1. Keeps(v)
      BY <1>0, <1>1, <1>2 DEF Keeps, ReviewRow
    <2> QED BY <1>4, <2>1, OthersKeep DEF IInv
  <1>8. WorkerInv(w)'
    <2>1. clar.status = "pending" => clar.answer # w
      BY <1>0, ConstantsAssumption DEF ClarInv
    <2> QED BY <1>0, <1>1, <1>3, <1>4, <2>1
           DEF WorkerInv, SendInv, RespondInv, CancelTextInv, PublishInv, At
  <1>9. OneSender' /\ OneResponder'
    BY <1>4, OneEach DEF IInv
  <1> QED BY <1>5, <1>6, <1>7, <1>8, <1>9 DEF IInv, SharedInv

\* The text of the cancellation is stored, offered as the answer, and deleted when
\* another answer was first.
LEMMA CancelTextSteps ==
    ASSUME IInv, TypeOK', NEW w \in Workers,
           PutCancelText(w) \/ DecideCancelText(w) \/ DiscardCancelText(w)
    PROVE  IInv'
  <1>0. /\ TypeOK /\ ClarInv /\ WorkerInv(w) /\ clar \in ClarRow /\ review.id \in Nat
        /\ w # None /\ w \notin Clients
    BY ConstantsAssumption DEF IInv, SharedInv, TypeOK, ReviewRow
  <1>1. UNCHANGED <<policy, task, review, offers, rulings, basis, cma, lease, cli, count>>
    BY DEF PutCancelText, DecideCancelText, DiscardCancelText
  <1>2. ReviewInv' /\ ConfirmInv' /\ OfferInv' /\ BasisInv' /\ StopInv'
    BY <1>1, ReviewKept
  <1>3. clar.answer # w
    BY <1>0 DEF PutCancelText, DecideCancelText, DiscardCancelText, WorkerInv, CancelTextInv, At
  <1>4. PICK p \in {"cancel_decide", "cancel_discard", "confirm"} : Goto(w, p)
    BY DEF PutCancelText, DecideCancelText, DiscardCancelText
  <1>5. /\ \A v \in Workers \ {w} : loc'[v] = loc[v]
        /\ loc'[w].pc = p /\ loc'[w].seen = loc[w].seen
    BY <1>0, <1>4, GotoLoc DEF Pcs
  <1>6. /\ clar' = clar \/ (/\ clar.status = "pending" /\ clar'.status = "resolving"
                            /\ clar'.answer = w /\ clar'.attempted = clar.attempted
                            /\ w \in store /\ store' = store)
        /\ store' \in {store, store \cup {w}, store \ {w}}
    BY <1>0 DEF PutCancelText, DecideCancelText, DiscardCancelText, decide_clarification_request,
                ClarRow, WorkerInv, CancelTextInv, At
  <1>7. ClarInv'
    BY <1>0, <1>1, <1>3, <1>6 DEF ClarInv
  <1>8. ASSUME NEW c \in Clients PROVE AnswerInv(c)'
    BY <1>0, <1>1, <1>6 DEF IInv, SharedInv, AnswerInv
  <1>9. ASSUME NEW v \in Workers \ {w} PROVE WorkerInv(v)'
    <2>1. Keeps(v)
      BY <1>0, <1>1, <1>6 DEF Keeps, ClarInv
    <2> QED BY <1>5, <2>1, OthersKeep DEF IInv
  <1>10. CancelTextInv(w)'
    <2>1. CASE PutCancelText(w)
      BY <1>3, <2>1 DEF PutCancelText, CancelTextInv
    <2>2. CASE DecideCancelText(w)
      <3>1. loc'[w].pc = IF clar'.answer = w THEN "confirm" ELSE "cancel_discard"
        BY <1>0, <2>2, GotoLoc DEF DecideCancelText, Pcs
      <3> QED BY <3>1 DEF CancelTextInv, At
    <2>3. CASE DiscardCancelText(w)
      <3>1. loc'[w].pc = "confirm"
        BY <1>0, <2>3, GotoLoc DEF DiscardCancelText, Pcs
      <3> QED BY <3>1 DEF CancelTextInv, At
    <2> QED BY <2>1, <2>2, <2>3
  <1>11. WorkerInv(w)'
    <2>1. clar'.attempted = clar.attempted
      BY <1>6
    <2> QED BY <1>0, <1>5, <1>10, <2>1 DEF WorkerInv, SendInv, RespondInv, PublishInv, At
  <1>12. OneSender' /\ OneResponder'
    BY <1>5, OneEach DEF IInv
  <1> QED BY <1>2, <1>7, <1>8, <1>9, <1>11, <1>12 DEF IInv, SharedInv

----
\* The invariant of the specification

LEMMA WorkerStep ==
    ASSUME IInv, NEW w \in Workers, claim_scheduler(w) \/ Step(w) \/ Crash(w)
    PROVE  IInv'
  <1>1. TypeOK'
    BY WorkerTypes DEF IInv, SharedInv
  <1> QED BY <1>1, QuietSteps, MarkStep, ConfirmStep, ResolveStep, MarkAnswerStep, RespondStep,
             ResolveAnswerStep, DeleteStep, DiscoverStep, EvaluateStep, PublishStep, DenyStep,
             CancelTextSteps DEF Step

\* At the start nothing was published, asked, decided or heard.
LEMMA InitInv == Init => IInv
  <1> SUFFICES ASSUME Init PROVE IInv
    OBVIOUS
  <1>1. TypeOK
    BY InitType
  <1>2. SharedInv
    BY ConstantsAssumption DEF Init, NoReview, SharedInv, ReviewInv, ConfirmInv, ClarInv, AnswerInv,
           OfferInv, BasisInv, StopInv
  <1>3. \A w \in Workers : loc[w].pc = "idle" /\ loc[w].seen = {}
    BY DEF Init, IdleLocal
  <1>4. \A w \in Workers : WorkerInv(w)
    BY <1>3 DEF WorkerInv, SendInv, RespondInv, CancelTextInv, PublishInv, At
  <1>5. OneSender /\ OneResponder
    BY <1>3 DEF OneSender, OneResponder, At
  <1> QED BY <1>1, <1>2, <1>4, <1>5 DEF IInv

LEMMA StepInv == IInv /\ [Next]_vars => IInv'
  <1> SUFFICES ASSUME IInv, [Next]_vars PROVE IInv'
    OBVIOUS
  <1>1. CASE \E w \in Workers : claim_scheduler(w) \/ Step(w) \/ Crash(w)
    BY <1>1, WorkerStep
  <1>2. CASE get_task
    BY <1>2, ClientTypes, GetTaskStep DEF IInv
  <1>3. CASE \E o \in offers, r \in Decisions : Rule(o, r)
    BY <1>3, ClientTypes, RuleStep DEF IInv
  <1>4. CASE \E c \in Clients : AnswerStart(c) \/ AnswerStep(c)
    BY <1>4, ClientTypes, AnswerSteps DEF IInv
  <1>5. CASE Stop \/ LeaseExpires \/ \E p \in Policies : Deploy(p)
    BY <1>5, ClientTypes, OutsideSteps DEF IInv
  <1>6. CASE UNCHANGED vars
    <2>1. TypeOK' /\ Same /\ UNCHANGED loc
      BY <1>6 DEF vars, IInv, TypeOK, Same
    <2> QED BY <2>1, SameShared, SameKeeps, StillStep DEF IInv
  <1> QED BY <1>1, <1>2, <1>3, <1>4, <1>5, <1>6 DEF Next

\* Every reachable state satisfies the inductive invariant.
THEOREM HumanInvariant == Spec => []IInv
  <1>1. Init => IInv
    BY InitInv
  <1>2. IInv /\ [Next]_vars => IInv'
    BY StepInv
  <1> QED BY <1>1, <1>2, PTL DEF Spec

\* Every variable keeps its type: a request never has a decision, an answer or a
\* basis of another kind, whatever the order of workers, clients and deployments.
THEOREM HumanTypeCorrect == Spec => []TypeOK
  <1>1. IInv => TypeOK
    BY DEF IInv
  <1> QED BY <1>1, HumanInvariant, PTL

\* The provider hears at most one answer per request, the one that the row holds,
\* and the text that won the row is there until it was attempted: however many
\* workers run at once with stale reads and lost leases, and however many clients
\* answer and discard (mark_confirmation_attempted(), mark_clarification_attempted(),
\* decide_clarification_request()).
THEOREM OneAnswerHeard == Spec => []HeardAsDecided
  <1>1. IInv => HeardAsDecided
    BY DEF IInv, SharedInv, ConfirmInv, ClarInv, HeardAsDecided
  <1> QED BY <1>1, HumanInvariant, PTL

\* A decision that the provider lists is the decision of the row.
LEMMA AllowListed ==
    ASSUME IInv, "allow" \in Listing
    PROVE  review.attempted /\ review.decision = "allow"
  <1>1. \E i \in DOMAIN cma.confirmations : cma.confirmations[i] = "allow"
    BY DEF Listing
  <1>2. cma.confirmations # <<>>
    BY <1>1
  <1> QED BY <1>1, <1>2 DEF IInv, SharedInv, ConfirmInv, TypeOK, ReviewRow

\* A stop beats every allow that was not attempted before it, however late the worker
\* that decided it comes (mark_confirmation_attempted()).
THEOREM StopWins == Spec => []StopBeatsAllow
  <1>1. IInv => StopBeatsAllow
    BY AllowListed DEF IInv, SharedInv, StopInv, StopBeatsAllow
  <1> QED BY <1>1, HumanInvariant, PTL

\* An allow that reached the provider rests on a document that allows the call, or on
\* a person's allow of exactly the review the call was decided under, and on no
\* denial of it (record_human_review(), record_human_ruling(), resolve_tool_call()).
THEOREM ConsentHeard == Spec => []ConsentGiven
  <1>1. ASSUME IInv PROVE ConsentGiven
    <2> SUFFICES ASSUME "allow" \in Listing
                 PROVE  /\ \/ Verdict[basis.under] = "allow"
                           \/ \E g \in rulings :
                                 /\ g.ruling = "allow"
                                 /\ g.offer = [id |-> basis.id, digest |-> basis.under]
                        /\ \A g \in rulings : g.offer.id = basis.id => g.ruling # "deny"
      BY DEF ConsentGiven
    <2>1. BasisInv /\ review.decision = "allow"
      BY <1>1, AllowListed DEF IInv, SharedInv
    <2> QED BY <2>1 DEF BasisInv
  <1> QED BY <1>1, HumanInvariant, PTL

====
