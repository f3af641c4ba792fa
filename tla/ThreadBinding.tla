---- MODULE ThreadBinding ----
(***************************************************************************)
(* What the application promises about its threads: a thread gets one       *)
(* controller context, which no other thread has and which never changes,   *)
(* and a client message gets one controller task, which belongs to the       *)
(* context of its thread and never changes.  ThreadContext implements it.   *)
(***************************************************************************)
CONSTANTS
    Threads,    \* application threads
    Msgs,       \* client messages
    Contexts,   \* controller contexts
    None,       \* not bound yet
    ThreadOf    \* the thread of each message

VARIABLES
    context,    \* per thread: its context
    task        \* per message: <<context, message>>, the controller's task

abstractVars == <<context, task>>

AbstractInit ==
    /\ context = [t \in Threads |-> None]
    /\ task = [m \in Msgs |-> None]

\* The first turn of a thread binds the context the controller made for it.
BindThread(t, c) ==
    /\ context[t] = None
    /\ \A u \in Threads : context[u] # c
    /\ context' = [context EXCEPT ![t] = c]
    /\ UNCHANGED task

\* A turn binds the task the controller admitted for it, in the thread's context.
BindMessage(m) ==
    /\ task[m] = None
    /\ context[ThreadOf[m]] # None
    /\ task' = [task EXCEPT ![m] = <<context[ThreadOf[m]], m>>]
    /\ UNCHANGED context

AbstractNext ==
    \/ \E t \in Threads, c \in Contexts : BindThread(t, c)
    \/ \E m \in Msgs : BindMessage(m)

AbstractSpec == AbstractInit /\ [][AbstractNext]_abstractVars

====
