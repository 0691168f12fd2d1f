----------------------------- MODULE BufferCache -----------------------------
(***************************************************************************)
(* The block buffer cache, buffer.c: bread, bwrite and brelse of several   *)
(* tasks that share buffers.                                               *)
(*                                                                         *)
(* The tasks are in system calls, which are not preempted; other tasks get *)
(* in where the code may block: in get_free_buffer, in lock_acquire and in *)
(* device_request.  A step lies between two of these places.  The lock of  *)
(* a buffer is the lock of AbstractLock, which Mutex implements, and a     *)
(* transfer is one step of the requests that device.c serialises.          *)
(***************************************************************************)
EXTENDS Integers, FiniteSets, Lists

CONSTANTS
    Tasks, None,
    Blocks,    \* the pairs of dev and block that are read
    Data,      \* contents of a block
    Blank,     \* contents of every block of the disk at boot
    NBuffers,  \* how many buffers fit in KERNEL_BUFFER_SIZE
    MaxHeld    \* bound of the model: buffers a task has not released

\* What the constants are; an instance assumes it.
BufferAssumption ==
    /\ None \notin Tasks \cup Blocks \cup Data
    /\ Blank \in Data
    /\ NBuffers \in Nat \ {0}
    /\ MaxHeld \in Nat \ {0}
    /\ IsFiniteSet(Tasks)

Buffers == 1 .. NBuffers

VARIABLES
    buffer_count,                     \* the buffers made by get_new_buffer
    block, count, dirty, valid, data, \* fields of buffer_t
    lock,                             \* buffer_t.lock: its holder
    free_list,                        \* head first
    wait_list,                        \* tasks in get_free_buffer, head first
    disk,
    pc,      \* "run", or the place where the task is blocked
    cur,     \* the buffer of the call in progress
    want,    \* the block asked for by the bread in progress
    held,    \* what each task got from bread and has not given to brelse
    halted   \* an assertion failed and the kernel spins

fields  == <<block, count, dirty, valid, data>>
lists   == <<free_list, wait_list>>
callers == <<pc, cur, want, held>>
vars == <<buffer_count, fields, lock, lists, disk, callers, halted>>

Made == 1 .. buffer_count

-----------------------------------------------------------------------------
Init ==
    /\ buffer_count = 0
    /\ block = [b \in Buffers |-> None]
    /\ count = [b \in Buffers |-> 0]
    /\ dirty = [b \in Buffers |-> FALSE]
    /\ valid = [b \in Buffers |-> FALSE]
    /\ data = [b \in Buffers |-> None]
    /\ lock = [b \in Buffers |-> None]
    /\ free_list = << >>
    /\ wait_list = << >>
    /\ disk = [k \in Blocks |-> Blank]
    /\ pc = [t \in Tasks |-> "run"]
    /\ cur = [t \in Tasks |-> None]
    /\ want = [t \in Tasks |-> None]
    /\ held = [t \in Tasks |-> << >>]
    /\ halted = FALSE

MayRead(t) == ~halted /\ pc[t] = "run" /\ Len(held[t]) < MaxHeld

CachedIfValid(k) == {b \in Made : block[b] = k /\ valid[b]}

\* get_from_hash_table: the buffers that cache block k.
Cached(k) == {b \in Made : block[b] = k}

\* bread returns buffer b.
Returns(t, k, b) ==
    /\ pc' = [pc EXCEPT ![t] = "run"]
    /\ cur' = [cur EXCEPT ![t] = None]
    /\ want' = [want EXCEPT ![t] = None]
    /\ held' = [held EXCEPT ![t] = Append(@, <<k, b>>)]

\* lock_acquire and the start of device_request, or a wait for the lock.
StartReadUnlocked(t, k, b) ==
    /\ cur' = [cur EXCEPT ![t] = b]
    /\ want' = [want EXCEPT ![t] = k]
    /\ pc' = [pc EXCEPT ![t] = "reading"]
    /\ UNCHANGED <<lock, held>>

StartRead(t, k, b) ==
    /\ cur' = [cur EXCEPT ![t] = b]
    /\ want' = [want EXCEPT ![t] = k]
    /\ IF lock[b] = None
       THEN /\ lock' = [lock EXCEPT ![b] = t]
            /\ pc' = [pc EXCEPT ![t] = "reading"]
       ELSE /\ pc' = [pc EXCEPT ![t] = "lock"]
            /\ UNCHANGED lock
    /\ UNCHANGED held

\* bread of a block that getblk finds in the hash table.
BreadHit(t, k) ==
    /\ MayRead(t)
    /\ \E b \in Cached(k) :
        /\ count' = [count EXCEPT ![b] = @ + 1]
        /\ free_list' = Without(free_list, b)
        /\ IF valid[b]
           THEN Returns(t, k, b) /\ UNCHANGED lock
           ELSE StartRead(t, k, b)
    /\ UNCHANGED <<buffer_count, block, dirty, valid, data, wait_list, disk, halted>>

\* get_free_buffer: a new buffer while there is memory, else the buffer that
\* was released longest ago.
FreeBufferIgnoresUse ==
    IF buffer_count < NBuffers THEN {buffer_count + 1} ELSE {1}

FreeBuffer ==
    IF buffer_count < NBuffers THEN {buffer_count + 1}
    ELSE IF free_list # << >> THEN {Last(free_list)}
    ELSE {}

\* bread of a block that is not cached and gets a buffer.
BreadMiss(t, k) ==
    /\ MayRead(t)
    /\ Cached(k) = {}
    /\ \E b \in FreeBuffer :
        /\ buffer_count' = IF b > buffer_count THEN b ELSE buffer_count
        /\ free_list' = IF b > buffer_count THEN free_list ELSE Front(free_list)
        /\ block' = [block EXCEPT ![b] = k]
        /\ count' = [count EXCEPT ![b] = 1]
        /\ valid' = [valid EXCEPT ![b] = FALSE]
        /\ StartRead(t, k, b)
    /\ UNCHANGED <<dirty, data, wait_list, disk, halted>>

\* bread finds every buffer in use and sleeps.  The only wakeup is that of
\* Release, which fails, so the loop of get_free_buffer is never resumed.
BreadWait(t, k) ==
    /\ MayRead(t)
    /\ Cached(k) = {}
    /\ FreeBuffer = {}
    /\ wait_list' = <<t>> \o wait_list
    /\ pc' = [pc EXCEPT ![t] = "wait"]
    /\ want' = [want EXCEPT ![t] = k]
    /\ UNCHANGED <<buffer_count, fields, lock, free_list, disk, cur, held, halted>>

\* lock_acquire returns after a wait; the usual case is that the task that
\* had the lock has read the block.
BreadLocked(t) ==
    /\ ~halted
    /\ pc[t] = "lock"
    /\ lock[cur[t]] = None
    /\ IF valid[cur[t]]
       THEN Returns(t, want[t], cur[t]) /\ UNCHANGED lock
       ELSE StartRead(t, want[t], cur[t])
    /\ UNCHANGED <<buffer_count, fields, lists, disk, halted>>

\* The transfer is over: the rest of bread.
BreadDone(t) ==
    /\ ~halted
    /\ pc[t] = "reading"
    /\ LET b == cur[t] IN
        /\ data' = [data EXCEPT ![b] = disk[block[b]]]
        /\ dirty' = [dirty EXCEPT ![b] = FALSE]
        /\ valid' = [valid EXCEPT ![b] = TRUE]
        /\ lock' = [lock EXCEPT ![b] = None]
        /\ Returns(t, want[t], b)
    /\ UNCHANGED <<buffer_count, block, count, lists, disk, halted>>

-----------------------------------------------------------------------------
\* A file system routine changes a buffer it holds and marks it dirty.
Modify(t, i, d) ==
    /\ ~halted
    /\ pc[t] = "run"
    /\ LET b == held[t][i][2] IN
        /\ data' = [data EXCEPT ![b] = d]
        /\ dirty' = [dirty EXCEPT ![b] = TRUE]
    /\ UNCHANGED <<buffer_count, block, count, valid, lock, lists, disk, callers, halted>>

\* bwrite of a dirty buffer; of a clean one it does nothing.
Bwrite(t, i) ==
    /\ ~halted
    /\ pc[t] = "run"
    /\ dirty[held[t][i][2]]
    /\ pc' = [pc EXCEPT ![t] = "writing"]
    /\ cur' = [cur EXCEPT ![t] = held[t][i][2]]
    /\ UNCHANGED <<buffer_count, fields, lock, lists, disk, want, held, halted>>

\* device_request writes the block and blocks until the device is done.
Transfer(t) ==
    /\ ~halted
    /\ pc[t] \in {"writing", "flushing"}
    /\ disk' = [disk EXCEPT ![block[cur[t]]] = data[cur[t]]]
    /\ pc' = [pc EXCEPT ![t] = IF @ = "writing" THEN "written" ELSE "flushed"]
    /\ UNCHANGED <<buffer_count, fields, lock, lists, cur, want, held, halted>>

Written(b) ==
    /\ dirty' = [dirty EXCEPT ![b] = FALSE]
    /\ valid' = [valid EXCEPT ![b] = TRUE]

BwriteDone(t) ==
    /\ ~halted
    /\ pc[t] = "written"
    /\ Written(cur[t])
    /\ pc' = [pc EXCEPT ![t] = "run"]
    /\ cur' = [cur EXCEPT ![t] = None]
    /\ UNCHANGED <<buffer_count, block, count, data, lock, lists, disk, want, held, halted>>

-----------------------------------------------------------------------------
\* The end of brelse.  list_pop_back unlinks the waiter and task_unblock
\* unlinks it again: the assertion of list_remove (list.c:83) fails.
Release(b) ==
    /\ count' = [count EXCEPT ![b] = @ - 1]
    /\ IF count[b] = 1
       THEN /\ free_list' = <<b>> \o free_list
            /\ IF wait_list = << >>
               THEN UNCHANGED <<wait_list, halted>>
               ELSE wait_list' = Front(wait_list) /\ halted' = TRUE
       ELSE UNCHANGED <<lists, halted>>

\* brelse: a dirty buffer is written before its count goes down.
Brelse(t, i) ==
    /\ ~halted
    /\ pc[t] = "run"
    /\ held' = [held EXCEPT ![t] = RemoveAt(@, i)]
    /\ LET b == held[t][i][2] IN
        IF dirty[b]
        THEN /\ pc' = [pc EXCEPT ![t] = "flushing"]
             /\ cur' = [cur EXCEPT ![t] = b]
             /\ UNCHANGED <<count, lists, halted>>
        ELSE Release(b) /\ UNCHANGED <<pc, cur>>
    /\ UNCHANGED <<buffer_count, block, dirty, valid, data, lock, disk, want>>

BrelseDone(t) ==
    /\ ~halted
    /\ pc[t] = "flushed"
    /\ Written(cur[t])
    /\ Release(cur[t])
    /\ pc' = [pc EXCEPT ![t] = "run"]
    /\ cur' = [cur EXCEPT ![t] = None]
    /\ UNCHANGED <<buffer_count, block, data, lock, disk, want, held>>

Next ==
    \E t \in Tasks :
        \/ \E k \in Blocks : BreadHit(t, k) \/ BreadMiss(t, k) \/ BreadWait(t, k)
        \/ BreadLocked(t) \/ BreadDone(t)
        \/ \E i \in DOMAIN held[t] :
            \/ \E d \in Data : Modify(t, i, d)
            \/ Bwrite(t, i) \/ Brelse(t, i)
        \/ Transfer(t) \/ BwriteDone(t) \/ BrelseDone(t)

Spec == Init /\ [][Next]_vars

-----------------------------------------------------------------------------
\* Task t refers to buffer b by the i-th buffer it holds, or, if i is 0, by
\* the bread or the brelse of it that is blocked.
Refers(t, i, b) ==
    IF i = 0
    THEN cur[t] = b /\ pc[t] \in {"lock", "reading", "flushing", "flushed"}
    ELSE i \in DOMAIN held[t] /\ held[t][i][2] = b

References(b) == {r \in Tasks \X (0 .. MaxHeld) : Refers(r[1], r[2], b)}

\* buffer_t.count is the number of references, through every wait: no task
\* keeps a buffer it is not counted for, and none is pinned for ever.
CountIsReferences == \A b \in Buffers : count[b] = Cardinality(References(b))

\* free_list holds each buffer without references once and no other, and
\* such a buffer has nothing to write: getblk asserts count = 0, dirty = 0.
FreeIsUnused ==
    /\ \A i, j \in 1 .. Len(free_list) : free_list[i] = free_list[j] => i = j
    /\ \A b \in Buffers :
        (\E i \in 1 .. Len(free_list) : free_list[i] = b) <=> b \in Made /\ count[b] = 0
    /\ \A b \in Buffers : count[b] = 0 => ~dirty[b]

\* No block is cached twice, although other tasks run between the lookup of
\* a block and the end of its read: two copies would diverge.
OneBufferPerBlock == \A b, c \in Made : block[b] = block[c] => b = c

\* What a task holds is a buffer with valid data of the block it asked for,
\* until it releases it: the buffer is not recycled under it.
HeldIsAsked ==
    /\ \A t \in Tasks : \A i \in DOMAIN held[t] :
        block[held[t][i][2]] = held[t][i][1] /\ valid[held[t][i][2]]
    /\ \A t \in Tasks :
        pc[t] \in {"lock", "reading"} => block[cur[t]] = want[t]

\* A buffer in use keeps its block and its data: they change only under a
\* task that marks the buffer dirty, never because another bread reads the
\* disk over it.
InUseIsKept ==
    \A b \in Buffers :
        count[b] > 0 /\ valid[b] =>
            /\ valid'[b]
            /\ block'[b] = block[b]
            /\ data'[b] # data[b] => dirty'[b]
=============================================================================
