---- MODULE ContextQueue ----
(***************************************************************************)
(* What a context promises the clients that send it messages.  A message is *)
(* admitted as a task, once.  One task at a time has the turn, and a turn   *)
(* that begins is that of the first task which waits, in the order of       *)
(* admission.  A task that is refused, leaves the queue or ends its turn    *)
(* never waits again, except that the operator may send the one whose turn  *)
(* it is back to its place.  CmaScheduler implements it.                    *)
(***************************************************************************)
EXTENDS Naturals, Sequences

CONSTANTS
    Tasks,      \* client messages
    None        \* nobody's turn

VARIABLES
    admitted,   \* the tasks in the order of their admission
    waiting,    \* those that wait for their turn
    turn        \* the task whose turn it is

queueVars == <<admitted, waiting, turn>>

Init ==
    /\ admitted = <<>>
    /\ waiting = {}
    /\ turn = None

Known(t) == \E n \in DOMAIN admitted : admitted[n] = t

Ahead(t, u) == \E m, n \in DOMAIN admitted : m < n /\ admitted[m] = t /\ admitted[n] = u

\* A task is admitted, to wait or to be refused.
Join(t) ==
    /\ ~Known(t)
    /\ admitted' = Append(admitted, t)
    /\ waiting' \in {waiting, waiting \cup {t}}
    /\ UNCHANGED turn

\* A task is canceled before its turn, or fails because the context failed.
Leave(t) ==
    /\ t \in waiting
    /\ waiting' = waiting \ {t}
    /\ UNCHANGED <<admitted, turn>>

Begin(t) ==
    /\ turn = None
    /\ t \in waiting
    /\ \A u \in waiting \ {t} : Ahead(t, u)
    /\ turn' = t
    /\ waiting' = waiting \ {t}
    /\ UNCHANGED admitted

\* The turn is over, or the operator retries its task later.
End ==
    /\ turn # None
    /\ turn' = None
    /\ waiting' \in {waiting, waiting \cup {turn}}
    /\ UNCHANGED admitted

Next == (\E t \in Tasks : Join(t) \/ Leave(t) \/ Begin(t)) \/ End

Spec == Init /\ [][Next]_queueVars

====
