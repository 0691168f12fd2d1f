----------------------------- MODULE BlockRequest -----------------------------
(***************************************************************************)
(* Block requests (device.c) and the IDE controller that serves them       *)
(* (ide.c): the request list of each disk, the elevator that picks the     *)
(* next request, the controller's lock, its waiter and its interrupt.      *)
(*                                                                         *)
(* The task that makes a request serves it.  It gives up the processor     *)
(* while another request of the disk is served, while the controller is    *)
(* locked, for each sector, and when mutex_unlock yields; everything       *)
(* between two such places is one step with interrupts off.  A task that   *)
(* task_exit has marked DIED makes requests too, and polls the controller  *)
(* instead of waiting for the interrupt.                                   *)
(***************************************************************************)
EXTENDS Dispatcher, SequencesExt

CONSTANTS
    Disks,        \* the disks of one controller
    Positions,    \* request_t.idx
    Sectors,      \* BLOCK_SECS
    DirectUsers,  \* the tasks that read or write a disk's device file
    Exiters,      \* the tasks that may exit
    None          \* NULL

ASSUME BlockRequestAssumption ==
    /\ Positions \subseteq Nat
    /\ Sectors \in Nat \ {0}
    /\ DirectUsers \cup Exiters \subseteq Tasks \ {Idle}
    /\ None \notin Tasks \cup Disks

VARIABLES
    request_list,  \* of each disk: the tasks whose requests are linked
    direct,        \* device_t.direct of each disk: "UP" or "DOWN"
    idx,           \* request_t.idx of each task's request
    exiting,       \* the tasks inside task_exit
    disk,          \* the disk of each task's request, or None when the
                   \* task called the controller without a request
    lock,          \* ide_ctrl_t.lock: its holder
    lock_waiters,  \* the tasks in lock_acquire, head first
    waiter,        \* ide_ctrl_t.waiter
    busy,          \* the drive works on a sector
    irq,           \* its interrupt is pending
    pc,            \* where a task goes on when it gets the processor
    left           \* sectors of the transfer in progress

requests   == <<request_list, direct, idx, disk>>
controller == <<lock, lock_waiters, waiter, busy, irq>>
vars == <<current, state, requests, controller, exiting, pc, left>>

\* The places: "user", "exit" inside task_exit between two requests, "queued" in task_block
\* of device_request, "lock" in lock_acquire, "sector" in the loop of
\* ide_pio_read and ide_pio_write, "finish" behind do_request, "gone".

Clients == Tasks \ {Idle}

OnCpu(t, place) ==
    current = t /\ state[t] \in {"RUNNING", "DIED"} /\ pc[t] = place

InterruptsOn == current \in Tasks => pc[current] \in {"user", "gone"}

Moves(t, place) == pc' = [pc EXCEPT ![t] = place]

Blocked(t, st) == [st EXCEPT ![t] = "BLOCKED"]

-----------------------------------------------------------------------------
Init ==
    /\ DispatchInit
    /\ request_list = [d \in Disks |-> << >>]
    /\ direct = [d \in Disks |-> "UP"]
    /\ idx = [t \in Tasks |-> 0]
    /\ disk = [t \in Tasks |-> None]
    /\ lock = None
    /\ lock_waiters = << >>
    /\ waiter = None
    /\ busy = FALSE
    /\ irq = FALSE
    /\ pc = [t \in Tasks |-> "user"]
    /\ left = [t \in Tasks |-> 0]
    /\ exiting = {}

-----------------------------------------------------------------------------
(* ide_pio_read and ide_pio_write, with the states st.                     *)

\* The wait for a sector: for the interrupt, or, when the state of the task
\* is not RUNNING, for nothing but ide_busy_wait.
AwaitSector(t, st) ==
    IF st[t] = "RUNNING"
    THEN waiter' = t /\ Dispatch(Blocked(t, st))
    ELSE state' = st /\ UNCHANGED <<current, waiter>>

\* The command goes to the drive.
Command(t, st) ==
    /\ lock' = t
    /\ busy' = TRUE
    /\ left' = [left EXCEPT ![t] = Sectors]
    /\ Moves(t, "sector")
    /\ AwaitSector(t, st)
    /\ UNCHANGED <<lock_waiters, irq>>

WaitForLock(t, st) ==
    /\ lock_waiters' = <<t>> \o lock_waiters
    /\ Moves(t, "lock")
    /\ Dispatch(Blocked(t, st))
    /\ UNCHANGED <<lock, waiter, busy, irq, left>>

Transfer(t, st) ==
    IF lock = None THEN Command(t, st) ELSE WaitForLock(t, st)

LockResume(t) ==
    /\ OnCpu(t, "lock")
    /\ Transfer(t, state)
    /\ UNCHANGED <<requests, exiting>>

\* ide_busy_wait returns: the drive is done, and has raised its interrupt if
\* it was busy until now.
SectorReady == irq' = (irq \/ busy)

NextSector(t) ==
    /\ OnCpu(t, "sector")
    /\ left[t] > 1
    /\ SectorReady
    /\ busy' = TRUE
    /\ left' = [left EXCEPT ![t] = @ - 1]
    /\ AwaitSector(t, state)
    /\ UNCHANGED <<requests, exiting, lock, lock_waiters, pc>>

\* The last sector and lock_release, which yields when others wait.
LastSector(t) ==
    /\ OnCpu(t, "sector")
    /\ left[t] = 1
    /\ SectorReady
    /\ busy' = FALSE
    /\ left' = [left EXCEPT ![t] = 0]
    /\ lock' = None
    /\ Moves(t, "finish")
    /\ IF lock_waiters = << >>
       THEN UNCHANGED <<current, state, lock_waiters>>
       ELSE /\ lock_waiters' = Front(lock_waiters)
            /\ Dispatch(Wake(state, {Last(lock_waiters)}))
    /\ UNCHANGED <<requests, exiting, waiter>>

-----------------------------------------------------------------------------
(* device_request.                                                         *)

\* list_insert_sort: before the first request of a greater idx.
Anchor(list, k) ==
    Min({i \in DOMAIN list : idx[list[i]] > k} \cup {Len(list) + 1})

InsertAtTail(list, t, k) == Append(list, t)

InsertSort(list, t, k) == InsertAt(list, Anchor(list, k), t)

\* A request of t, whose state is st: it is served at once when it is the
\* only one of its disk.
RequestNeverWaits(t, d, k, st) ==
    /\ request_list' = [request_list EXCEPT ![d] = InsertSort(@, t, k)]
    /\ idx' = [idx EXCEPT ![t] = k]
    /\ disk' = [disk EXCEPT ![t] = d]
    /\ Transfer(t, st)
    /\ UNCHANGED direct

Request(t, d, k, st) ==
    /\ request_list' = [request_list EXCEPT ![d] = InsertSort(@, t, k)]
    /\ idx' = [idx EXCEPT ![t] = k]
    /\ disk' = [disk EXCEPT ![t] = d]
    /\ IF request_list[d] = << >>
       THEN Transfer(t, st)
       ELSE /\ Moves(t, "queued")
            /\ Dispatch(Blocked(t, st))
            /\ UNCHANGED <<controller, left>>
    /\ UNCHANGED direct

DeviceRequest(t, d, k) ==
    /\ OnCpu(t, "user") \/ OnCpu(t, "exit")
    /\ Request(t, d, k, state)
    /\ UNCHANGED exiting

\* task_exit marks the task DIED and may then write blocks.
ExitRequest(t, d, k) ==
    /\ t \in Exiters
    /\ OnCpu(t, "user")
    /\ exiting' = exiting \cup {t}
    /\ Request(t, d, k, [state EXCEPT ![t] = "DIED"])

\* task_block of device_request returns.
RequestResume(t) ==
    /\ OnCpu(t, "queued")
    /\ Transfer(t, state)
    /\ UNCHANGED <<requests, exiting>>

\* sys_read and sys_write of a block device: no request is made.
DirectTransfer(t) ==
    /\ t \in DirectUsers
    /\ OnCpu(t, "user")
    /\ disk' = [disk EXCEPT ![t] = None]
    /\ Transfer(t, state)
    /\ UNCHANGED <<request_list, direct, idx, exiting>>

Position(t) == CHOOSE i \in DOMAIN request_list[disk[t]] : request_list[disk[t]][i] = t

\* request_nextreq: the head turns round at the end of the list.
Turns(t) ==
    IF direct[disk[t]] = "UP" /\ Position(t) = Len(request_list[disk[t]]) THEN "DOWN"
    ELSE IF direct[disk[t]] = "DOWN" /\ Position(t) = 1 THEN "UP"
    ELSE direct[disk[t]]

NextRequest(t) ==
    LET list == request_list[disk[t]]
        i == IF Turns(t) = "UP" THEN Position(t) + 1 ELSE Position(t) - 1
    IN  {list[j] : j \in DOMAIN list \cap {i}}

\* The caller goes on.
Returns(t) == Moves(t, IF t \in exiting THEN "exit" ELSE "user")

\* The end of device_request: the next request is woken.
FinishRequest(t) ==
    /\ OnCpu(t, "finish")
    /\ disk[t] # None
    /\ direct' = [direct EXCEPT ![disk[t]] = Turns(t)]
    /\ request_list' = [request_list EXCEPT ![disk[t]] = RemoveAt(@, Position(t))]
    /\ state' = Wake(state, NextRequest(t))
    /\ Returns(t)
    /\ UNCHANGED <<current, idx, disk, controller, exiting, left>>

FinishDirect(t) ==
    /\ OnCpu(t, "finish")
    /\ disk[t] = None
    /\ Returns(t)
    /\ UNCHANGED <<current, state, requests, controller, exiting, left>>

\* The schedule() at the end of task_exit.
Exit(t) ==
    /\ OnCpu(t, "exit")
    /\ Moves(t, "gone")
    /\ Dispatch(state)
    /\ UNCHANGED <<requests, controller, exiting, left>>

-----------------------------------------------------------------------------
(* The drive, ide_handler and the timer.                                   *)

DriveReady ==
    /\ busy
    /\ busy' = FALSE
    /\ irq' = TRUE
    /\ UNCHANGED <<current, state, requests, exiting, lock, lock_waiters, waiter, pc, left>>

HandlerKeepsWaiter ==
    /\ InterruptsOn
    /\ irq
    /\ irq' = FALSE
    /\ state' = IF waiter = None THEN state ELSE Wake(state, {waiter})
    /\ UNCHANGED <<current, requests, exiting, lock, lock_waiters, waiter, busy, pc, left>>

IdeHandler ==
    /\ InterruptsOn
    /\ irq
    /\ irq' = FALSE
    /\ waiter' = None
    /\ state' = IF waiter = None THEN state ELSE Wake(state, {waiter})
    /\ UNCHANGED <<current, requests, exiting, lock, lock_waiters, busy, pc, left>>

TimerPreempts ==
    /\ InterruptsOn
    /\ Dispatch(state)
    /\ UNCHANGED <<requests, controller, exiting, pc, left>>

Next ==
    \/ \E t \in Clients :
        \/ \E d \in Disks, k \in Positions : DeviceRequest(t, d, k) \/ ExitRequest(t, d, k)
        \/ DirectTransfer(t) \/ RequestResume(t) \/ LockResume(t)
        \/ NextSector(t) \/ LastSector(t)
        \/ FinishRequest(t) \/ FinishDirect(t) \/ Exit(t)
    \/ DriveReady \/ IdeHandler \/ TimerPreempts

Spec == Init /\ [][Next]_vars

-----------------------------------------------------------------------------
Asleep(t) == pc[t] = "queued" /\ state[t] = "BLOCKED"

\* t runs or may be given the processor, or the interrupt will wake it.
Proceeds(t) ==
    \/ current = t
    \/ state[t] = "READY"
    \/ waiter = t /\ (busy \/ irq)

\* Or it waits for the lock, which is held by a task that proceeds, or left to
\* one that is on its way to it.
GoesOn(t) ==
    \/ Proceeds(t)
    \/ /\ \E i \in 1 .. Len(lock_waiters) : lock_waiters[i] = t
       /\ \E u \in Clients : /\ lock = u \/ (lock = None /\ pc[u] = "lock")
                            /\ Proceeds(u)

\* A task that task_exit has marked DIED has lost the processor in the yield of
\* lock_release, behind its transfer: it is never chosen again.
Stranded(t) == state[t] = "DIED" /\ current # t /\ pc[t] = "finish"

\* Of the requests of a disk one is served, the others sleep: a task that
\* finds the list not empty, a task that is woken and has not run yet, and a
\* finished one that has not left the list never serve at once.  The one that
\* is served goes on, through the lock, the sectors and the elevator, and so
\* the queue does: unless it is stranded behind its transfer, which stops the
\* disk and is the only way in which that happens.
OneServed ==
    \A d \in Disks : request_list[d] # << >> =>
        \E i \in 1 .. Len(request_list[d]) :
            /\ \A j \in 1 .. Len(request_list[d]) : ~Asleep(request_list[d][j]) <=> j = i
            /\ GoesOn(request_list[d][i]) \/ Stranded(request_list[d][i])

\* The task that the next interrupt wakes is the one asleep for its sector,
\* and it is woken: the drive is at work or its interrupt is pending, also
\* after a stale interrupt, which a polling task has left behind, has woken
\* it too early.
WaiterIsWoken ==
    /\ \A t \in Tasks : waiter = t <=> pc[t] = "sector" /\ state[t] = "BLOCKED"
    /\ waiter # None => busy \/ irq

\* The elevator: the next request served is the nearest one on the side the
\* head moves to, and the head turns only when nothing is left on that side.
ElevatorOrder ==
    [][\A d \in Disks, t, n \in Clients :
        (/\ pc[t] = "finish" /\ disk[t] = d /\ pc'[t] # "finish"
         /\ Asleep(n) /\ disk[n] = d /\ state'[n] = "READY")
            => \A u \in Clients \ {t, n} : (Asleep(u) /\ disk[u] = d) =>
                /\ ~ (idx[t] < idx[u] /\ idx[u] < idx[n])
                /\ ~ (idx[n] < idx[u] /\ idx[u] < idx[t])
                /\ direct[d] = "UP" /\ idx[n] < idx[t] => idx[u] <= idx[t]
                /\ direct[d] = "DOWN" /\ idx[n] > idx[t] => idx[u] >= idx[t]]_vars
=============================================================================
