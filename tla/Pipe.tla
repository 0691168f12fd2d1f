-------------------------------- MODULE Pipe --------------------------------
(***************************************************************************)
(* pipe_read and pipe_write (pipe.c) of the tasks that share a pipe after  *)
(* a fork.                                                                 *)
(*                                                                         *)
(* The loops are steps of one byte each.  System calls are not preempted,  *)
(* so other tasks run only after a task_block or between two calls.        *)
(***************************************************************************)
EXTENDS Dispatcher, Fifo, SequencesExt

CONSTANTS
    Readers, Writers,  \* the tasks that may have each end open
    None,              \* NULL
    MaxCount,          \* the counts asked for are 1 .. MaxCount
    MaxBytes           \* bound of the model: no write goes beyond this byte

ASSUME PipeAssumption ==
    /\ Readers \subseteq Tasks \ {Idle}
    /\ Writers \subseteq Tasks \ {Idle}
    /\ None \notin Tasks
    /\ MaxCount \in Nat /\ MaxBytes \in Nat

VARIABLES
    ring,                \* the fifo_t in inode->desc
    rxwaiter, txwaiter,  \* inode_t
    readers, \* the tasks that have inherited the read end
    pc,      \* where a task goes on when it gets the processor
    left,    \* count - nr of the call in progress
    sent,    \* how many bytes were put into the fifo
    received, \* every byte fifo_get returned to pipe_read, in order
    failed   \* the line of the assertion at which the kernel spins, or 0

vars == <<current, state, ring, rxwaiter, txwaiter, readers, pc, left, sent, received, failed>>

\* The places: "user", "read" and "write" at the head of the loops, "rxblocked"
\* and "txblocked" inside their task_block.

Running(t, place) ==
    failed = 0 /\ current = t /\ state[t] = "RUNNING" /\ pc[t] = place

InterruptsOn == current \in Tasks => pc[current] = "user"

-----------------------------------------------------------------------------
Init ==
    /\ DispatchInit
    /\ ring = fifo_init
    /\ rxwaiter = None
    /\ txwaiter = None
    /\ readers \in SUBSET Readers \ {{}}
    /\ pc = [t \in Tasks |-> "user"]
    /\ left = [t \in Tasks |-> 0]
    /\ sent = 0
    /\ received = << >>
    /\ failed = 0

Call(t, place, n) ==
    /\ Running(t, "user")
    /\ pc' = [pc EXCEPT ![t] = place]
    /\ left' = [left EXCEPT ![t] = n]
    /\ UNCHANGED <<readers, current, state, ring, rxwaiter, txwaiter, sent, received, failed>>

Read(t, n) == t \in readers /\ Call(t, "read", n)

Write(t, n) == t \in Writers /\ sent + n <= MaxBytes /\ Call(t, "write", n)

Fail(line) ==
    /\ failed' = line
    /\ UNCHANGED <<readers, current, state, ring, rxwaiter, txwaiter, pc, left, sent, received>>

\* The call returns with its last byte.
Advance(t, place) ==
    /\ left' = [left EXCEPT ![t] = @ - 1]
    /\ pc' = [pc EXCEPT ![t] = IF left[t] = 1 THEN "user" ELSE place]

\* task_unblock, when somebody waits at the other end.
WakeOther(waiter) == state' = IF waiter = None THEN state ELSE Wake(state, {waiter})

-----------------------------------------------------------------------------
\* fifo_get with its assertion, and the wakeup of the writer.
GetByte(t) ==
    IF fifo_empty(ring) THEN Fail(30)
    ELSE /\ received' = Append(received, FirstByte(ring))
         /\ ring' = AfterGet(ring)
         /\ WakeOther(txwaiter)
         /\ txwaiter' = None
         /\ Advance(t, "read")
         /\ UNCHANGED <<readers, current, rxwaiter, sent, failed>>

ReadBlocks(t) ==
    /\ Running(t, "read")
    /\ fifo_empty(ring)
    /\ IF rxwaiter # None THEN Fail(23)
       ELSE /\ rxwaiter' = t
            /\ pc' = [pc EXCEPT ![t] = "rxblocked"]
            /\ Dispatch(Mark(t, "BLOCKED"))
            /\ UNCHANGED <<readers, ring, txwaiter, left, sent, received, failed>>

ReadByte(t) == Running(t, "read") /\ ~fifo_empty(ring) /\ GetByte(t)

\* task_block returns; the fifo is not tested again.
ReadResume(t) == Running(t, "rxblocked") /\ GetByte(t)

-----------------------------------------------------------------------------
PutByteKeepsWaiter(t) ==
    /\ sent' = sent + 1
    /\ ring' = AfterPut(ring, sent + 1)
    /\ WakeOther(rxwaiter)
    /\ Advance(t, "write")
    /\ UNCHANGED <<readers, current, rxwaiter, txwaiter, received, failed>>

\* fifo_put and the wakeup of the reader.  The bytes are numbered in the
\* order they are put.
PutByte(t) ==
    /\ sent' = sent + 1
    /\ ring' = AfterPut(ring, sent + 1)
    /\ WakeOther(rxwaiter)
    /\ rxwaiter' = None
    /\ Advance(t, "write")
    /\ UNCHANGED <<readers, current, txwaiter, received, failed>>

WriteBlocks(t) ==
    /\ Running(t, "write")
    /\ fifo_full(ring)
    /\ IF txwaiter # None THEN Fail(45)
       ELSE /\ txwaiter' = t
            /\ pc' = [pc EXCEPT ![t] = "txblocked"]
            /\ Dispatch(Mark(t, "BLOCKED"))
            /\ UNCHANGED <<readers, ring, rxwaiter, left, sent, received, failed>>

WriteByte(t) == Running(t, "write") /\ ~fifo_full(ring) /\ PutByte(t)

WriteResume(t) == Running(t, "txblocked") /\ PutByte(t)

-----------------------------------------------------------------------------
TimerPreempts ==
    /\ failed = 0
    /\ InterruptsOn
    /\ Dispatch(state)
    /\ UNCHANGED <<readers, ring, rxwaiter, txwaiter, pc, left, sent, received, failed>>

Next ==
    \/ \E t \in Tasks \ {Idle} :
        \/ \E n \in 1 .. MaxCount : Read(t, n) \/ Write(t, n)
        \/ ReadBlocks(t) \/ ReadByte(t) \/ ReadResume(t)
        \/ WriteBlocks(t) \/ WriteByte(t) \/ WriteResume(t)
    \/ TimerPreempts

Spec == Init /\ [][Next]_vars

-----------------------------------------------------------------------------
\* With one writer no byte is lost, repeated or reordered, although the
\* fifo drops bytes when it is full and the writer does not look again
\* whether it still is when it goes on after a wait.
NothingLost == received \o Contents(ring) = [i \in 1 .. sent |-> i]

\* A task that sleeps in pipe_read is the rxwaiter and the fifo is empty, one
\* that sleeps in pipe_write is the txwaiter and the fifo is full: nobody
\* sleeps with work to do, and the wakeup goes to a task that sleeps.
WaitersSleep ==
    /\ \A t \in Tasks :
        state[t] = "BLOCKED" => t \in {rxwaiter, txwaiter}
    /\ rxwaiter # None =>
        state[rxwaiter] = "BLOCKED" /\ pc[rxwaiter] = "rxblocked" /\ fifo_empty(ring)
    /\ txwaiter # None =>
        state[txwaiter] = "BLOCKED" /\ pc[txwaiter] = "txblocked" /\ fifo_full(ring)

\* With one task at each end no assertion fails, neither on rxwaiter and
\* txwaiter nor in the fifo: a task that goes on after a wait finds what it
\* waited for, and calls that overlap leave no waiter behind.
PairNeverFails == Cardinality(readers) = 1 => failed = 0
=============================================================================
