------------------------------ MODULE Scheduler ------------------------------
(***************************************************************************)
(* The scheduler of the kernel: task.c (task_search, schedule, task_block, *)
(* task_unblock, task_sleep, task_wakeup, task_yield) and the clock        *)
(* interrupt that drives it (clock.c).                                     *)
(*                                                                         *)
(* A step is one entry into the kernel that ends with interrupts enabled   *)
(* again or with a task switch.  task_t.ticks has two meanings in the code *)
(* and keeps both here: the remaining slice of a task, and the wake-up     *)
(* time of a sleeping one.                                                 *)
(***************************************************************************)
EXTENDS Integers, SequencesExt

CONSTANTS
    NTasks,      \* tasks 0 .. NTasks - 1 are in task_table, at that index
    Priority,    \* task_t.priority
    SleepTicks,  \* the sleep lengths, in ticks, asked for
    MaxJiffies   \* bound of the model: the clock stops there

Tasks == 0 .. NTasks - 1
Idle  == 0          \* idle_task is the first task created
Boot  == NTasks     \* the boot stack, which is no entry of task_table
None  == -1         \* NULL

ASSUME SchedulerAssumption ==
    /\ NTasks \in Nat \ {0}
    /\ Priority \in [Tasks -> Nat \ {0}]
    /\ SleepTicks \subseteq Nat \ {0}
    /\ MaxJiffies \in Nat

VARIABLES
    current,     \* running_task()
    state,       \* task_t.state
    ticks,       \* task_t.ticks
    last,        \* task_t.jiffies: when the clock last saw the task run
    jiffies,     \* clock.c: ticks since boot
    block_list,  \* the tasks linked in block_list or in a caller's list
    sleep_list   \* sleep_list, by wake-up time

vars == <<current, state, ticks, last, jiffies, block_list, sleep_list>>

TaskState == {"RUNNING", "READY", "BLOCKED", "WAITING", "SLEEPING"}

-----------------------------------------------------------------------------
(* task_search: one scan in index order.  A later task replaces the        *)
(* champion when it has more ticks OR ran longer ago.                      *)

Beats(t, c, tk) == tk[t] > tk[c] \/ last[t] < last[c]

CandidateAnyState(t, st) == t # current

Candidate(t, st) == t # current /\ st[t] = "READY"

Scan(st, tk) ==
    LET scan[i \in 0 .. NTasks] ==
            IF i = 0 THEN None
            ELSE IF /\ Candidate(i - 1, st)
                    /\ scan[i - 1] = None \/ Beats(i - 1, scan[i - 1], tk)
                 THEN i - 1
                 ELSE scan[i - 1]
    IN  scan

Champion(st, tk) == Scan(st, tk)[NTasks]

TaskSearch(st, tk) ==
    IF Champion(st, tk) = None THEN Idle ELSE Champion(st, tk)

Switched(st, next) ==
    [t \in Tasks |-> IF t = next THEN "RUNNING"
                     ELSE IF t = current /\ st[t] = "RUNNING" THEN "READY"
                     ELSE st[t]]

\* schedule(), entered with states st and ticks tk.  Only the task that
\* leaves, and only when its ticks are 0, gets a new slice.
Schedule(st, tk) ==
    /\ current' = TaskSearch(st, tk)
    /\ state' = Switched(st, TaskSearch(st, tk))
    /\ ticks' = [t \in Tasks |->
                    IF t = current /\ tk[t] = 0 THEN Priority[t] ELSE tk[t]]

-----------------------------------------------------------------------------
(* The sleep list.                                                         *)

\* list_insert_sort: before the first node with a greater key.
InsertPos(list, key, tk) ==
    CHOOSE p \in 1 .. Len(list) + 1 :
        /\ \A i \in 1 .. p - 1 : tk[list[i]] <= key
        /\ p <= Len(list) => tk[list[p]] > key

InsertAtHead(list, t, tk) == InsertAt(list, 1, t)

InsertSort(list, t, tk) == InsertAt(list, InsertPos(list, tk[t], tk), t)

\* task_wakeup walks the list up to the first task that is not due yet.
FirstNotDueEarly == InsertPos(sleep_list, jiffies + 1, ticks)

FirstNotDue == InsertPos(sleep_list, jiffies, ticks)

Due == {sleep_list[i] : i \in 1 .. FirstNotDue - 1}

NotDue == SubSeq(sleep_list, FirstNotDue, Len(sleep_list))

-----------------------------------------------------------------------------
Init ==
    /\ current = Boot
    /\ state = [t \in Tasks |-> "READY"]
    /\ ticks = Priority
    /\ last = [t \in Tasks |-> 0]
    /\ jiffies = 0
    /\ block_list = {}
    /\ sleep_list = <<>>

\* The decrement in clock_handler reaches 0.  The boot context has one tick
\* (task_setup), so its first clock interrupt switches to a task, and it
\* never runs again.
SliceOverOnlyAtBoot == current = Boot

SliceOver == current = Boot \/ (current \in Tasks /\ ticks[current] = 1)

TicksAfterWakeup ==
    [t \in Tasks |-> IF t \in Due THEN 0
                     ELSE IF t = current THEN ticks[t] - 1
                     ELSE ticks[t]]

StateAfterWakeup == [t \in Tasks |-> IF t \in Due THEN "READY" ELSE state[t]]

\* clock_handler: task_wakeup, jiffies++, then the slice of the running task.
ClockTick ==
    /\ jiffies < MaxJiffies
    /\ jiffies' = jiffies + 1
    /\ sleep_list' = NotDue
    /\ last' = [t \in Tasks |-> IF t = current THEN jiffies + 1 ELSE last[t]]
    /\ IF SliceOver
       THEN Schedule(StateAfterWakeup, TicksAfterWakeup)
       ELSE /\ state' = StateAfterWakeup
            /\ ticks' = TicksAfterWakeup
            /\ UNCHANGED current
    /\ UNCHANGED block_list

\* task_block(running_task(), list, s): every caller but the idle task may.
TaskBlock(s) ==
    /\ current \in Tasks \ {Idle}
    /\ block_list' = block_list \cup {current}
    /\ Schedule([state EXCEPT ![current] = s], ticks)
    /\ UNCHANGED <<last, jiffies, sleep_list>>

TaskUnblockLeavesNode(t) ==
    /\ t \in block_list
    /\ state' = [state EXCEPT ![t] = "READY"]
    /\ UNCHANGED <<current, ticks, last, jiffies, block_list, sleep_list>>

\* task_unblock(t), by the running task or by a device interrupt.
TaskUnblock(t) ==
    /\ t \in block_list
    /\ block_list' = block_list \ {t}
    /\ state' = [state EXCEPT ![t] = "READY"]
    /\ UNCHANGED <<current, ticks, last, jiffies, sleep_list>>

\* task_sleep(ms), with n = max(ms / jiffy, 1).
TaskSleep(n) ==
    /\ current \in Tasks \ {Idle}
    /\ LET tk == [ticks EXCEPT ![current] = jiffies + n]
       IN  /\ sleep_list' = InsertSort(sleep_list, current, tk)
           /\ Schedule([state EXCEPT ![current] = "SLEEPING"], tk)
    /\ UNCHANGED <<last, jiffies, block_list>>

\* task_yield: sys_yield, mutex_unlock, and the loop of the idle thread.
TaskYield ==
    /\ current \in Tasks
    /\ Schedule(state, ticks)
    /\ UNCHANGED <<last, jiffies, block_list, sleep_list>>

Next ==
    \/ ClockTick
    \/ \E s \in {"BLOCKED", "WAITING"} : TaskBlock(s)
    \/ \E t \in Tasks : TaskUnblock(t)
    \/ \E n \in SleepTicks : TaskSleep(n)
    \/ TaskYield

\* The timer keeps interrupting; nothing is assumed of the tasks.
Spec == Init /\ [][Next]_vars /\ WF_vars(ClockTick)

-----------------------------------------------------------------------------
(* Properties.                                                             *)

\* Every variable has its type.
TypeOK ==
    /\ current \in Tasks \cup {Boot}
    /\ state \in [Tasks -> TaskState]
    /\ ticks \in [Tasks -> Int]
    /\ last \in [Tasks -> Nat]
    /\ jiffies \in Nat
    /\ block_list \subseteq Tasks
    /\ sleep_list \in Seq(Tasks)

\* The task on whose stack the processor runs is the only one marked
\* TASK_RUNNING: schedule() moves the mark and the stack together.
OneRunning == \A t \in Tasks : state[t] = "RUNNING" <=> t = current

\* task_search falls back on the idle task without looking at its state, so
\* the idle task may never be on a list.
IdleNeverStops == state[Idle] \in {"RUNNING", "READY"}

\* A task's one list node is linked exactly while its state says so: the
\* asserts on node.next and node.prev in task_block and task_unblock, and
\* no task is left on a list it was woken from.
NodeDiscipline ==
    /\ \A i, j \in 1 .. Len(sleep_list) :
            sleep_list[i] = sleep_list[j] => i = j
    /\ \A t \in Tasks :
            /\ state[t] = "SLEEPING" <=> \E i \in 1 .. Len(sleep_list) : t = sleep_list[i]
            /\ state[t] \in {"BLOCKED", "WAITING"} <=> t \in block_list

\* list_insert_sort keeps sleep_list in the order task_wakeup relies on when
\* it stops at the first task that is not due.
SleepSorted ==
    \A i, j \in 1 .. Len(sleep_list) :
        i < j => ticks[sleep_list[i]] <= ticks[sleep_list[j]]

\* No sleeper is passed over: task_wakeup, which runs before jiffies is
\* advanced, leaves nobody whose time has come.
NoOversleep == \A t \in Tasks : state[t] = "SLEEPING" => ticks[t] >= jiffies

\* The wake-up time stored in ticks never survives as a time slice.
DeadlineIsNoSlice ==
    \A t \in Tasks : state[t] # "SLEEPING" => ticks[t] <= Priority[t]

\* A sleeper is woken only when jiffies has reached its wake-up time.
NoEarlyWake ==
    [][\A t \in Tasks :
          state[t] = "SLEEPING" /\ state'[t] # "SLEEPING" => ticks[t] <= jiffies]_vars

\* A task that still has a slice and computes without end loses the
\* processor when the slice is used up (clock_handler).
SlicePreempts ==
    \A t \in Tasks \ {Idle} :
        (current = t /\ ticks[t] > 0 /\ jiffies + ticks[t] <= MaxJiffies)
            ~> current # t

\* task.c is an instance of what the other modules assume of it.
D == INSTANCE Dispatcher

ImplementsDispatcher == D!DispatchSpec
=============================================================================
