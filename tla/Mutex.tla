-------------------------------- MODULE Mutex --------------------------------
(***************************************************************************)
(* mutex_t and the reentrant lock_t of mutex.c, used by tasks inside       *)
(* system calls.                                                           *)
(*                                                                         *)
(* A system call runs with IF = 0, so it loses the processor only where it *)
(* calls schedule(): in task_block, when the mutex is taken or when the    *)
(* owner waits for a device, and in the task_yield of mutex_unlock.  A     *)
(* step is everything between two such places.  Interrupts arrive only     *)
(* while the current task is in user mode or idle.                         *)
(***************************************************************************)
EXTENDS Dispatcher, SequencesExt

CONSTANTS
    None,     \* NULL as a holder
    MaxDepth  \* bound of the model: how often one task acquires the lock

ASSUME MutexAssumption == None \notin Tasks /\ MaxDepth \in Nat \ {0}

VARIABLES
    value,    \* mutex_t.value
    waiters,  \* mutex_t.waiters, head first
    holder,   \* lock_t.holder
    repeat,   \* lock_t.repeat
    pc        \* where a task goes on when it gets the processor

vars == <<current, state, value, waiters, holder, repeat, pc>>

\* "locking" is inside task_block of mutex_lock, "critical" between
\* lock_acquire and lock_release, "user" anywhere outside.
Place == {"user", "locking", "critical"}

Clients == Tasks \ {Idle}

Running(t) == current = t /\ state[t] = "RUNNING"

\* The interrupt flag is set: timer and device interrupts are taken.
InterruptsOn == current \in Tasks => pc[current] = "user"

-----------------------------------------------------------------------------
\* mutex_init, lock_init
Init ==
    /\ DispatchInit
    /\ value = 0
    /\ waiters = << >>
    /\ holder = None
    /\ repeat = 0
    /\ pc = [t \in Tasks |-> "user"]

\* task_block(current, &mutex->waiters, TASK_BLOCKED)
WaitForMutex(t) ==
    /\ waiters' = <<t>> \o waiters
    /\ pc' = [pc EXCEPT ![t] = "locking"]
    /\ Dispatch(Mark(t, "BLOCKED"))
    /\ UNCHANGED <<value, holder, repeat>>

TakeMutex(t) ==
    /\ value' = value + 1
    /\ holder' = t
    /\ repeat' = 1
    /\ pc' = [pc EXCEPT ![t] = "critical"]
    /\ UNCHANGED <<current, state, waiters>>

\* One round of the loop of mutex_lock, with the rest of lock_acquire.
MutexLock(t) == IF value = 1 THEN WaitForMutex(t) ELSE TakeMutex(t)

LockAcquire(t) ==
    /\ Running(t)
    /\ pc[t] = "user"
    /\ holder # t
    /\ MutexLock(t)

LockAcquireAgain(t) ==
    /\ Running(t)
    /\ pc[t] # "locking"
    /\ holder = t
    /\ repeat < MaxDepth
    /\ repeat' = repeat + 1
    /\ UNCHANGED <<current, state, value, waiters, holder, pc>>

LockResumeUnchecked(t) == Running(t) /\ pc[t] = "locking" /\ TakeMutex(t)

\* task_block of mutex_lock returns and the loop tests the mutex again.
LockResume(t) ==
    /\ Running(t)
    /\ pc[t] = "locking"
    /\ MutexLock(t)

-----------------------------------------------------------------------------
UnlockForgetsWaiters ==
    value' = value - 1 /\ UNCHANGED <<current, state, waiters>>

\* The longest waiter becomes ready, and schedule() picks the next task.
MutexUnlock ==
    /\ value' = value - 1
    /\ IF waiters = << >>
       THEN UNCHANGED <<current, state, waiters>>
       ELSE /\ waiters' = Front(waiters)
            /\ Dispatch(Wake(state, {Last(waiters)}))

LockReleaseAtAnyDepth(t) ==
    /\ Running(t)
    /\ pc[t] = "critical"
    /\ holder' = None
    /\ repeat' = 0
    /\ pc' = [pc EXCEPT ![t] = "user"]
    /\ MutexUnlock

LockRelease(t) ==
    /\ Running(t)
    /\ pc[t] = "critical"
    /\ repeat = 1
    /\ holder' = None
    /\ repeat' = 0
    /\ pc' = [pc EXCEPT ![t] = "user"]
    /\ MutexUnlock

LockReleaseInner(t) ==
    /\ Running(t)
    /\ pc[t] = "critical"
    /\ repeat > 1
    /\ repeat' = repeat - 1
    /\ UNCHANGED <<current, state, value, waiters, holder, pc>>

-----------------------------------------------------------------------------
(* The holder waits for the device it locked, and is woken by its          *)
(* interrupt; the timer preempts user mode and the idle task.              *)

DeviceWait(t) ==
    /\ Running(t)
    /\ pc[t] = "critical"
    /\ Dispatch(Mark(t, "BLOCKED"))
    /\ UNCHANGED <<value, waiters, holder, repeat, pc>>

DeviceDone(t) ==
    /\ InterruptsOn
    /\ state[t] = "BLOCKED"
    /\ pc[t] = "critical"
    /\ state' = Wake(state, {t})
    /\ UNCHANGED <<current, value, waiters, holder, repeat, pc>>

TimerPreempts ==
    /\ InterruptsOn
    /\ Dispatch(state)
    /\ UNCHANGED <<value, waiters, holder, repeat, pc>>

Next ==
    \/ \E t \in Clients :
        \/ LockAcquire(t) \/ LockAcquireAgain(t) \/ LockResume(t)
        \/ LockRelease(t) \/ LockReleaseInner(t)
        \/ DeviceWait(t) \/ DeviceDone(t)
    \/ TimerPreempts

Spec == Init /\ [][Next]_vars

-----------------------------------------------------------------------------
\* Every variable has its type.
TypeOK ==
    /\ current \in Tasks \cup {Boot}
    /\ state \in [Tasks -> TaskState]
    /\ value \in 0 .. 1
    /\ waiters \in Seq(Clients)
    /\ holder \in Clients \cup {None}
    /\ repeat \in 0 .. MaxDepth
    /\ pc \in [Tasks -> Place]

\* Two tasks are never between lock_acquire and lock_release at once, even
\* while the owner is blocked on its device and others come and go.
MutualExclusion ==
    \A t, u \in Tasks : pc[t] = "critical" /\ pc[u] = "critical" => t = u

\* The mutex, the holder and the depth tell the same story, which is that of
\* the tasks: this is what the assertions on value and repeat rely on, and
\* what makes the test holder == current of lock_acquire trustworthy.
HolderAgrees ==
    /\ value = 1 <=> holder # None
    /\ repeat > 0 <=> holder # None
    /\ \A t \in Tasks : pc[t] = "critical" <=> holder = t

\* The waiters list holds every task blocked in mutex_lock, once, and no
\* other: mutex_unlock can neither wake the wrong task nor lose one.
WaitersBlocked ==
    /\ \A i, j \in 1 .. Len(waiters) : waiters[i] = waiters[j] => i = j
    /\ \A t \in Tasks :
        (\E i \in 1 .. Len(waiters) : waiters[i] = t)
            <=> pc[t] = "locking" /\ state[t] = "BLOCKED"

\* When the mutex is free while tasks wait for it, a woken one is on its way
\* to take it: however unlock, newcomers that overtake the woken task, and
\* its second attempt interleave, the list is not left asleep.
NoLostWakeup ==
    value = 0 /\ waiters # << >> =>
        \E t \in Tasks : pc[t] = "locking" /\ state[t] \in {"READY", "RUNNING"}

\* lock_acquire and lock_release implement a reentrant lock.
L == INSTANCE AbstractLock WITH owner <- holder, depth <- repeat

ImplementsLock == L!LockSpec
=============================================================================
