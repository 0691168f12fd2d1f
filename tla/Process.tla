------------------------------- MODULE Process -------------------------------
(***************************************************************************)
(* The life of a process: task_fork, task_exit and task_waitpid of task.c. *)
(*                                                                         *)
(* task_table is the set Tasks of slots; a slot number is the pid of the   *)
(* task in it, and is used again as soon as the task has been waited for.  *)
(* task_exit gives back inodes and closes files, which may wait for a busy *)
(* disk: that wait is a task_block in the middle of the exit.  When the    *)
(* disk is not busy, the dying task drives it itself, and mutex_unlock     *)
(* yields if another task waits for the drive: a task that is marked DIED  *)
(* by then never gets the processor back, in the middle of task_exit.      *)
(***************************************************************************)
EXTENDS Dispatcher

CONSTANTS
    InitTask,  \* the slot of "init", which starts the others and never exits
    Any        \* the pid -1 of waitpid

ASSUME ProcessAssumption ==
    /\ Tasks \subseteq Nat
    /\ InitTask \in Tasks \ {Idle}
    /\ Any \notin Tasks

VARIABLES
    ppid,     \* task_t.ppid
    waitpid,  \* task_t.waitpid
    pc,       \* where a task goes on when it gets the processor
    torn      \* history: task_waitpid has freed a task in the middle of its task_exit

vars == <<current, state, ppid, waitpid, pc, torn>>

\* The places: "user", "waiting" inside task_block of task_waitpid, "exiting" where
\* task_exit waits for the disk or yields, "exited" behind the schedule() that ends it.

\* The slots the loops of task_exit and task_waitpid look at.
Slots == Tasks \ {Idle, InitTask}

First(S) == CHOOSE i \in S : \A j \in S : i <= j

Running(t) == current = t /\ state[t] = "RUNNING"

InterruptsOn == current \in Tasks => pc[current] \in {"user", "exited"}

-----------------------------------------------------------------------------
\* task_init; "test" is not modelled.
Init ==
    /\ current = Boot
    /\ state = [t \in Tasks |-> IF t \in {Idle, InitTask} THEN "READY" ELSE "FREE"]
    /\ ppid = [t \in Tasks |-> Idle]
    /\ waitpid = [t \in Tasks |-> Idle]
    /\ pc = [t \in Tasks |-> "user"]
    /\ torn = FALSE

\* The entries of task_table that are NULL.
Free == {t \in Tasks : state[t] = "FREE"}

ChildState == "READY"

\* task_fork copies the task of the parent.  Without a free slot the kernel
\* panics.
Fork(t) ==
    /\ Running(t)
    /\ pc[t] = "user"
    /\ Free # {}
    /\ state' = [state EXCEPT ![First(Free)] = ChildState]
    /\ ppid' = [ppid EXCEPT ![First(Free)] = t]
    /\ waitpid' = [waitpid EXCEPT ![First(Free)] = waitpid[t]]
    /\ UNCHANGED <<current, pc, torn>>

-----------------------------------------------------------------------------
ChildrenOfAnyone(t, pid) ==
    {c \in Slots : state[c] # "FREE" /\ (ppid[c] = t \/ c = pid) /\ pid \in {Any, c}}

\* The tasks that task_waitpid of t for pid does not pass over.
Children(t, pid) ==
    {c \in Slots : state[c] # "FREE" /\ ppid[c] = t /\ pid \in {Any, c}}

Dead(t, pid) == {c \in Children(t, pid) : state[c] = "DIED"}

\* The first dead child gives its slot back.
Reap(t, c) ==
    /\ state' = [state EXCEPT ![c] = "FREE"]
    /\ ppid' = [ppid EXCEPT ![c] = Idle]
    /\ waitpid' = [waitpid EXCEPT ![c] = Idle]
    /\ pc' = [pc EXCEPT ![c] = "user", ![t] = "user"]
    /\ torn' = (torn \/ pc[c] # "exited")
    /\ UNCHANGED current

WaitForChild(t, pid) ==
    /\ waitpid' = [waitpid EXCEPT ![t] = pid]
    /\ pc' = [pc EXCEPT ![t] = "waiting"]
    /\ Dispatch(Mark(t, "WAITING"))
    /\ UNCHANGED <<ppid, torn>>

\* One round of the loop of task_waitpid.
Search(t, pid) ==
    IF Dead(t, pid) # {} THEN Reap(t, First(Dead(t, pid)))
    ELSE IF Children(t, pid) # {} THEN WaitForChild(t, pid)
    ELSE /\ pc' = [pc EXCEPT ![t] = "user"]
         /\ UNCHANGED <<current, state, ppid, waitpid, torn>>

WaitPid(t, pid) == Running(t) /\ pc[t] = "user" /\ Search(t, pid)

WaitResume(t) == Running(t) /\ pc[t] = "waiting" /\ Search(t, waitpid[t])

-----------------------------------------------------------------------------
NotReparented(t) == ppid

\* The children of t become children of its parent.
Reparented(t) ==
    [c \in Tasks |-> IF c \in Slots /\ state[c] # "FREE" /\ ppid[c] = t
                     THEN ppid[t] ELSE ppid[c]]

WaitersForAnyOf(t) ==
    {p \in Tasks : p = ppid[t] /\ state[p] = "WAITING" /\ waitpid[p] = Any}

\* The parent, when it waits for t or for any child.
WaitersFor(t) ==
    {p \in Tasks : p = ppid[t] /\ state[p] = "WAITING" /\ waitpid[p] \in {Any, t}}

\* The rest of task_exit once the files are closed, with the states st.  The
\* parent's state is read: page 0 is not mapped, a parent that is gone is a
\* fault that stops the kernel.
FinishExit(t, st) ==
    /\ state[ppid[t]] # "FREE"
    /\ ppid' = Reparented(t)
    /\ pc' = [pc EXCEPT ![t] = "exited"]
    /\ Dispatch(Wake(st, WaitersFor(t)))
    /\ UNCHANGED <<waitpid, torn>>

\* iput or close gives up the processor, with the states st.
LeaveExit(t, st) ==
    /\ pc' = [pc EXCEPT ![t] = "exiting"]
    /\ Dispatch(st)
    /\ UNCHANGED <<ppid, waitpid, torn>>

\* They find a request queue or a lock busy: task_block overwrites the state
\* that task_exit has set.
WaitForDisk(t) == LeaveExit(t, Mark(t, "BLOCKED"))

\* They have used the drive themselves and mutex_unlock yields to a task that
\* waits for it: as DIED the task is not chosen again.
YieldDrive(t, st) == LeaveExit(t, st)

Exit(t) ==
    /\ Running(t)
    /\ pc[t] = "user"
    /\ t # InitTask
    /\ LET dead == Mark(t, "DIED")
       IN  FinishExit(t, dead) \/ WaitForDisk(t) \/ YieldDrive(t, dead)

ExitResume(t) ==
    /\ Running(t)
    /\ pc[t] = "exiting"
    /\ FinishExit(t, state) \/ WaitForDisk(t) \/ YieldDrive(t, state)

DiskDone(t) ==
    /\ InterruptsOn
    /\ state[t] = "BLOCKED"
    /\ pc[t] = "exiting"
    /\ state' = Wake(state, {t})
    /\ UNCHANGED <<current, ppid, waitpid, pc, torn>>

\* The timer, or any call that gives up the processor without a wait.
TimerPreempts ==
    /\ InterruptsOn
    /\ Dispatch(state)
    /\ UNCHANGED <<ppid, waitpid, pc, torn>>

Next ==
    \/ \E t \in Tasks \ {Idle} :
        \/ Fork(t)
        \/ \E pid \in Slots \cup {Any} : WaitPid(t, pid)
        \/ WaitResume(t)
        \/ Exit(t) \/ ExitResume(t) \/ DiskDone(t)
    \/ TimerPreempts

Spec == Init /\ [][Next]_vars

-----------------------------------------------------------------------------
\* No task waits for a child that has come to the end of task_exit, however
\* exits, waits for other pids and the adoption of orphans interleave.  (One
\* that lost the processor before wakes nobody, and its parent waits on.)
NoMissedExit ==
    \A t \in Tasks : state[t] = "WAITING" =>
        \A c \in Dead(t, waitpid[t]) : pc[c] # "exited"

\* A task that waits has a child that it waits for: nobody else takes the
\* child away, and its pid is not given to a stranger meanwhile.
WaitHasChild ==
    \A t \in Tasks : state[t] = "WAITING" =>
        \E c \in Slots : state[c] # "FREE" /\ ppid[c] = t /\ waitpid[t] \in {Any, c}

\* A task that has finished task_exit has no children left, so ppid always
\* names a task whose page is still there when task_exit reads its state:
\* until task_waitpid frees a task in the middle of its exit, whose children
\* then belong to nobody, or to the next task in the slot.
NoOrphans ==
    ~torn => \A c \in Tasks : state[c] # "FREE" =>
        /\ state[ppid[c]] # "FREE"
        /\ c # Idle => pc[ppid[c]] # "exited"

\* The comment at the end of task_exit: waitpid frees the last page of the
\* task.  A task that has finished task_exit stays dead until then.
ExitedStaysDead == \A t \in Tasks : pc[t] = "exited" => state[t] = "DIED"
=============================================================================
