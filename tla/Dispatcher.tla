----------------------------- MODULE Dispatcher -----------------------------
(***************************************************************************)
(* What task.c promises to the rest of the kernel: one task runs at a      *)
(* time, a task that blocks or sleeps leaves the processor until somebody  *)
(* wakes it, and schedule() hands the processor to SOME other ready task,  *)
(* or to the idle task when there is none.  Which ready task is chosen     *)
(* (remaining slice, time of the last run) is left open here; module       *)
(* Scheduler models the choice and implements this specification.          *)
(*                                                                         *)
(* The kernel never preempts itself: interrupt gates and system calls run  *)
(* with IF = 0, so the modules built on this one execute everything        *)
(* between two calls of schedule() as one step.                            *)
(***************************************************************************)
EXTENDS Integers

CONSTANTS
    Tasks,  \* the slots of task_table that hold a task
    Idle,   \* idle_task
    Boot    \* the context that runs before the first schedule(), not in the table

ASSUME DispatcherAssumption == Idle \in Tasks /\ Boot \notin Tasks

VARIABLES
    current,  \* running_task(), the owner of the kernel stack in use
    state     \* task_t.state of every task

dispatchVars == <<current, state>>

\* The states in which a task's node is linked in a list.
Stopped == {"BLOCKED", "WAITING", "SLEEPING"}

TaskState == {"RUNNING", "READY", "DIED"} \cup Stopped

\* task_block, task_sleep and task_exit write the state of the caller,
Mark(t, s) == [state EXCEPT ![t] = s]

\* task_unblock makes tasks ready again.
Wake(st, W) == [t \in Tasks |-> IF t \in W THEN "READY" ELSE st[t]]

\* The tasks task_search(TASK_READY) looks at.
Ready(st) == {t \in Tasks \ {current} : st[t] = "READY"}

Eligible(st) == IF Ready(st) = {} THEN {Idle} ELSE Ready(st)

\* State table after schedule() has switched from current to next.
Switched(st, next) ==
    [t \in Tasks |-> IF t = next THEN "RUNNING"
                     ELSE IF t = current /\ st[t] = "RUNNING" THEN "READY"
                     ELSE st[t]]

\* schedule(), entered with the state table st.
Dispatch(st) ==
    \E next \in Eligible(st) :
        /\ current' = next
        /\ state' = Switched(st, next)

-----------------------------------------------------------------------------
DispatchInit ==
    /\ current = Boot
    /\ state = [t \in Tasks |-> "READY"]

\* A system call or an interrupt wakes tasks and the current task goes on.
WakeUp ==
    \E W \in SUBSET {t \in Tasks : state[t] \in Stopped} :
        /\ state' = Wake(state, W)
        /\ UNCHANGED current

\* The same followed by schedule(): clock_handler, task_yield, mutex_unlock.
Preempt ==
    \E W \in SUBSET {t \in Tasks : state[t] \in Stopped} :
        Dispatch(Wake(state, W))

\* The current task stops itself: task_block, task_sleep.
Stop ==
    /\ current \in Tasks \ {Idle}
    /\ \E s \in Stopped : Dispatch(Mark(current, s))

DispatchNext == WakeUp \/ Preempt \/ Stop

DispatchSpec == DispatchInit /\ [][DispatchNext]_dispatchVars
=============================================================================
