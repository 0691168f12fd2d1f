----------------------------- MODULE CharDevice -----------------------------
(***************************************************************************)
(* The reading side that keyboard.c and serial.c share: an interrupt puts  *)
(* bytes into a fifo, and tasks read them under a lock that a reader keeps *)
(* while it waits.                                                         *)
(*                                                                         *)
(* Bytes are numbered in the order the interrupt handler put them.  The    *)
(* lock is lock_t without nesting, as AbstractLock describes it, with its  *)
(* queue; module Mutex has it in full.                                     *)
(***************************************************************************)
EXTENDS Dispatcher, Fifo, SequencesExt

CONSTANTS
    Readers,  \* the tasks that may read the device
    None,     \* NULL
    MaxCount  \* the counts asked for are 1 .. MaxCount

\* What the constants are; an instance assumes it.
CharDeviceAssumption ==
    /\ Idle \in Tasks /\ Boot \notin Tasks
    /\ Readers \subseteq Tasks \ {Idle}
    /\ None \notin Tasks
    /\ MaxCount \in Nat

VARIABLES
    ring,     \* the fifo_t
    rxwaiter, \* waiter of keyboard.c, rx_waiter of serial_t
    rlock,    \* lock of keyboard.c, rlock of serial_t: its holder and waiters
    pc,       \* where a task goes on when it gets the processor
    left,     \* count - nr of the call in progress
    sent,     \* how many bytes the handler has put
    received  \* the bytes the read calls got, in order

readVars == <<ring, rxwaiter, rlock, pc, left, sent, received>>

Running(t, place) == current = t /\ state[t] = "RUNNING" /\ pc[t] = place

\* System calls run with IF = 0, user programs and the idle task with IF = 1.
InterruptsOn == current \in Tasks => pc[current] = "user"

-----------------------------------------------------------------------------
FreeLock == [holder |-> None, waiters |-> << >>]

\* lock_acquire: the loop of mutex_lock finds the lock free and the task goes
\* on at place, or queues it.
Acquire(lock, t, place, queued) ==
    IF lock.holder = None
    THEN /\ pc' = [pc EXCEPT ![t] = place]
         /\ UNCHANGED <<current, state>>
    ELSE /\ pc' = [pc EXCEPT ![t] = queued]
         /\ Dispatch(Mark(t, "BLOCKED"))

Acquired(lock, t) ==
    IF lock.holder = None THEN [lock EXCEPT !.holder = t]
    ELSE [lock EXCEPT !.waiters = <<t>> \o @]

\* lock_release wakes the longest waiter and yields to it, if there is one.
Release(lock) ==
    IF lock.waiters = << >> THEN UNCHANGED <<current, state>>
    ELSE Dispatch(Wake(state, {Last(lock.waiters)}))

Released(lock) ==
    [holder |-> None,
     waiters |-> IF lock.waiters = << >> THEN << >> ELSE Front(lock.waiters)]

-----------------------------------------------------------------------------
ReadInit ==
    /\ DispatchInit
    /\ ring = fifo_init
    /\ rxwaiter = None
    /\ rlock = FreeLock
    /\ pc = [t \in Tasks |-> "user"]
    /\ left = [t \in Tasks |-> 0]
    /\ sent = 0
    /\ received = << >>

ReceiveKeepsWaiter ==
    /\ sent' = sent + 1
    /\ ring' = AfterPut(ring, sent + 1)
    /\ state' = IF rxwaiter = None THEN state ELSE Wake(state, {rxwaiter})
    /\ UNCHANGED <<current, rxwaiter, rlock, pc, left, received>>

\* What the handlers do with a byte: fifo_put, and the wakeup of the reader.
Receive ==
    /\ sent' = sent + 1
    /\ ring' = AfterPut(ring, sent + 1)
    /\ state' = IF rxwaiter = None THEN state ELSE Wake(state, {rxwaiter})
    /\ rxwaiter' = None
    /\ UNCHANGED <<current, rlock, pc, left, received>>

Read(t, n) ==
    /\ Running(t, "user")
    /\ left' = [left EXCEPT ![t] = n]
    /\ Acquire(rlock, t, "reading", "rlocking")
    /\ rlock' = Acquired(rlock, t)
    /\ UNCHANGED <<ring, rxwaiter, sent, received>>

\* Back from task_block in mutex_lock.
ReadRelock(t) ==
    /\ Running(t, "rlocking")
    /\ Acquire(rlock, t, "reading", "rlocking")
    /\ rlock' = Acquired(rlock, t)
    /\ UNCHANGED <<ring, rxwaiter, left, sent, received>>

\* The inner loop, entered and, as the fifo is tested again, gone on with.
ReadBlocks(t) ==
    /\ Running(t, "reading")
    /\ fifo_empty(ring)
    /\ rxwaiter' = t
    /\ Dispatch(Mark(t, "BLOCKED"))
    /\ UNCHANGED <<ring, rlock, pc, left, sent, received>>

\* fifo_get, and lock_release after the last byte.
ReadByte(t) ==
    /\ Running(t, "reading")
    /\ ~fifo_empty(ring)
    /\ ring' = AfterGet(ring)
    /\ received' = Append(received, FirstByte(ring))
    /\ left' = [left EXCEPT ![t] = @ - 1]
    /\ IF left[t] > 1 THEN UNCHANGED <<current, state, rlock, pc>>
       ELSE /\ pc' = [pc EXCEPT ![t] = "user"]
            /\ rlock' = Released(rlock)
            /\ Release(rlock)
    /\ UNCHANGED <<rxwaiter, sent>>

ReadNext ==
    \E t \in Readers :
        \/ \E n \in 1 .. MaxCount : Read(t, n)
        \/ ReadRelock(t) \/ ReadBlocks(t) \/ ReadByte(t)

\* The clock preempts a task in user mode.
TimerPreempts == InterruptsOn /\ Dispatch(state) /\ UNCHANGED readVars

-----------------------------------------------------------------------------
\* A task that sleeps in the read call holds the lock and finds nothing to
\* read, it is the waiter that the next byte wakes, and no second one ever
\* overwrites it: the assertion of serial_read, which keyboard_read does
\* without.  Whoever is inside the loop has the lock.
ReaderWaits ==
    /\ \A t \in Tasks :
        pc[t] = "reading" =>
            /\ rlock.holder = t
            /\ state[t] = "BLOCKED" => rxwaiter = t /\ fifo_empty(ring)
            /\ state[t] = "RUNNING" => rxwaiter = None
    /\ rxwaiter # None => state[rxwaiter] = "BLOCKED" /\ pc[rxwaiter] = "reading"

\* Bytes are read at most once and in order, and one is lost only when the
\* fifo was full of later ones: as many as it holds came after it.
DropsOldest ==
    LET kept == received \o Contents(ring)
    IN  /\ \A i \in 1 .. Len(kept) - 1 : kept[i] < kept[i + 1]
        /\ \A b \in 1 .. sent :
            b \in Range(kept) \/ sent >= b + Length - 1
=============================================================================
