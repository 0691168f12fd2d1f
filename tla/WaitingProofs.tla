---------------------------- MODULE WaitingProofs ----------------------------
(***************************************************************************)
(* Proofs about tasks that wait for each other.                            *)
(*                                                                         *)
(* Mutex, for any number of tasks and any nesting depth.  None of the      *)
(* safety properties is inductive alone: that a task blocked in mutex_lock *)
(* stays blocked needs to know that schedule() only hands the processor to *)
(* ready tasks or to the idle task, which takes no lock, and that a woken  *)
(* task stays on its way needs to know which tasks are running.  IInv is   *)
(* their conjunction with these two facts.                                 *)
(*                                                                         *)
(* Pipe, for any ring length, any calls and any readers, with one writer:  *)
(* no byte is lost, a task sleeps only when it has nothing to do, and with *)
(* one reader no assertion fails.  First the ring without the remainder    *)
(* operation: how many bytes it holds and where the i-th of them is.  Then *)
(* the calls; the point is that a writer goes on after its wait without    *)
(* looking again, so that the ring must have stayed not full since it was  *)
(* woken (Woken).                                                          *)
(*                                                                         *)
(* CharDevice: the side of a character device at which tasks wait under a  *)
(* lock, and the bytes that a handler puts and a task reads, for keyboard  *)
(* and serial port alike.                                                  *)
(***************************************************************************)
EXTENDS Mutex, SequenceTheorems, FiniteSetTheorems, TLAPS

CONSTANTS
    Length, NoByte, Readers, Writers, MaxCount, MaxBytes

VARIABLES
    ring, rxwaiter, txwaiter, readers, left, sent, received, failed, rlock

P == INSTANCE Pipe

D == INSTANCE CharDevice

OneRunning == \A t \in Tasks : state[t] = "RUNNING" <=> t = current

IdleTakesNoLock == pc[Idle] = "user"

IInv ==
    /\ TypeOK
    /\ OneRunning
    /\ IdleTakesNoLock
    /\ HolderAgrees
    /\ WaitersBlocked
    /\ NoLostWakeup

Awake == {"READY", "RUNNING"}

-----------------------------------------------------------------------------
\* schedule(): exactly one task runs afterwards, and no client is stopped or
\* woken by it.
LEMMA DispatchStep ==
    ASSUME NEW st \in [Tasks -> TaskState],
           \A t \in Tasks : st[t] = "RUNNING" => t = current,
           Dispatch(st)
    PROVE  /\ current' \in Tasks
           /\ state' \in [Tasks -> TaskState]
           /\ OneRunning'
           /\ \A t \in Clients : state'[t] = "BLOCKED" <=> st[t] = "BLOCKED"
           /\ \A t \in Clients : state'[t] \in Awake <=> st[t] \in Awake
<1>1. PICK next \in Eligible(st) : current' = next /\ state' = Switched(st, next)
  BY DEF Dispatch
<1>2. next \in Tasks /\ (next = Idle \/ st[next] = "READY")
  BY <1>1, DispatcherAssumption DEF Eligible, Ready
<1>3. \A t \in Tasks : state'[t] = IF t = next THEN "RUNNING"
                                   ELSE IF t = current /\ st[t] = "RUNNING"
                                   THEN "READY" ELSE st[t]
  BY <1>1 DEF Switched
<1>4. state' \in [Tasks -> TaskState]
  BY <1>1 DEF Switched, TaskState, Stopped
<1>5. OneRunning'
  BY <1>1, <1>3 DEF OneRunning
<1>6. ASSUME NEW t \in Clients
      PROVE  /\ state'[t] = "BLOCKED" <=> st[t] = "BLOCKED"
             /\ state'[t] \in Awake <=> st[t] \in Awake
  BY <1>2, <1>3 DEF Clients, Awake
<1> QED
  BY <1>1, <1>2, <1>4, <1>5, <1>6

\* list_push_front adds the task to the waiters.
LEMMA PushFront ==
    ASSUME NEW S, NEW s \in Seq(S), NEW x \in S
    PROVE  /\ <<x>> \o s \in Seq(S)
           /\ Len(<<x>> \o s) = Len(s) + 1
           /\ (<<x>> \o s)[1] = x
           /\ \A i \in 2 .. Len(s) + 1 : (<<x>> \o s)[i] = s[i - 1]
OBVIOUS

\* Removing the node before the tail takes the last task off the waiters.
LEMMA RemoveLast ==
    ASSUME NEW S, NEW s \in Seq(S), s # << >>
    PROVE  /\ Front(s) \in Seq(S)
           /\ Len(s) \in Nat \ {0}
           /\ Len(Front(s)) = Len(s) - 1
           /\ \A i \in 1 .. Len(s) - 1 : Front(s)[i] = s[i]
           /\ Last(s) = s[Len(s)]
           /\ Last(s) \in S
<1>1. Len(s) \in Nat \ {0}
  BY EmptySeq
<1>2. SubSeq(s, 1, Len(s) - 1) \in Seq(S)
  BY <1>1
<1>3. Len(SubSeq(s, 1, Len(s) - 1)) = Len(s) - 1
  <2> DEFINE n == Len(s) - 1
  <2>1. n \in Nat /\ \A i \in 1 .. n : s[i] \in S
    BY <1>1
  <2> HIDE DEF n
  <2>2. n = IF 1 <= n THEN n - 1 + 1 ELSE 0
    BY <2>1
  <2>3. Len(SubSeq(s, 1, n)) = IF 1 <= n THEN n - 1 + 1 ELSE 0
    BY <2>1, SubSeqProperties
  <2> QED
    BY <2>2, <2>3 DEF n
<1>4. \A i \in 1 .. Len(s) - 1 : SubSeq(s, 1, Len(s) - 1)[i] = s[i]
  BY <1>1
<1>5. s[Len(s)] \in S
  BY <1>1
<1> QED
  BY <1>1, <1>2, <1>3, <1>4, <1>5 DEF Front, Last

-----------------------------------------------------------------------------
LEMMA InitIInv == Init => IInv
<1> SUFFICES ASSUME Init PROVE IInv
  OBVIOUS
<1> USE DEF Init, DispatchInit
<1>1. TypeOK
  BY MutexAssumption, DispatcherAssumption DEF TypeOK, TaskState, Place
<1>2. OneRunning /\ IdleTakesNoLock
  BY DispatcherAssumption DEF OneRunning, IdleTakesNoLock
<1>3. HolderAgrees
  BY MutexAssumption, DispatcherAssumption DEF HolderAgrees
<1>4. WaitersBlocked /\ NoLostWakeup
  BY DEF WaitersBlocked, NoLostWakeup
<1> QED
  BY <1>1, <1>2, <1>3, <1>4 DEF IInv

-----------------------------------------------------------------------------
(* The two outcomes of a round of mutex_lock, for a task that comes from   *)
(* user mode or that was woken inside mutex_lock.                          *)

LEMMA WaitForMutexKeeps ==
    ASSUME IInv, NEW t \in Clients, Running(t), value = 1,
           pc[t] \in {"user", "locking"}, WaitForMutex(t)
    PROVE  IInv'
<1> DEFINE st == Mark(t, "BLOCKED")
<1>1. t \in Tasks /\ t # Idle /\ current = t /\ state[t] = "RUNNING"
  BY DEF Clients, Running
<1>2. st \in [Tasks -> TaskState]
      /\ (\A u \in Tasks : st[u] = "RUNNING" => u = current)
  BY <1>1 DEF IInv, TypeOK, OneRunning, Mark, TaskState, Stopped
<1>3. Dispatch(st)
  BY DEF WaitForMutex
<1> HIDE DEF st
<1>4. /\ current' \in Tasks
      /\ state' \in [Tasks -> TaskState]
      /\ OneRunning'
      /\ \A u \in Clients : state'[u] = "BLOCKED" <=> st[u] = "BLOCKED"
  BY <1>2, <1>3, DispatchStep
<1>5. /\ st[t] = "BLOCKED"
      /\ \A u \in Tasks \ {t} : st[u] = state[u]
  BY <1>1 DEF st, Mark, IInv, TypeOK
<1>6. /\ waiters' \in Seq(Clients)
      /\ Len(waiters') = Len(waiters) + 1
      /\ waiters'[1] = t
      /\ \A i \in 2 .. Len(waiters) + 1 : waiters'[i] = waiters[i - 1]
  BY PushFront DEF WaitForMutex, IInv, TypeOK
<1>7. /\ pc' \in [Tasks -> Place]
      /\ pc'[t] = "locking"
      /\ \A u \in Tasks \ {t} : pc'[u] = pc[u]
  BY <1>1 DEF WaitForMutex, IInv, TypeOK, Place
<1>8. value' = value /\ holder' = holder /\ repeat' = repeat
  BY DEF WaitForMutex
<1>9. TypeOK'
  BY <1>4, <1>6, <1>7, <1>8 DEF IInv, TypeOK
<1>10. IdleTakesNoLock'
  BY <1>1, <1>7, DispatcherAssumption DEF IInv, IdleTakesNoLock
<1>11. HolderAgrees'
  BY <1>1, <1>7, <1>8 DEF IInv, HolderAgrees
<1>12. \A i \in 1 .. Len(waiters) : waiters[i] # t
  BY <1>1 DEF IInv, WaitersBlocked
<1>13. Len(waiters) \in Nat
  BY DEF IInv, TypeOK
<1>14. \A i, j \in 1 .. Len(waiters') : waiters'[i] = waiters'[j] => i = j
  <2>1. \A i \in 2 .. Len(waiters') : waiters'[i] # waiters'[1]
    BY <1>6, <1>12, <1>13
  <2>2. \A i, j \in 2 .. Len(waiters') : waiters'[i] = waiters'[j] => i = j
    <3> SUFFICES ASSUME NEW i \in 2 .. Len(waiters'), NEW j \in 2 .. Len(waiters'),
                        waiters'[i] = waiters'[j]
                 PROVE  i = j
      OBVIOUS
    <3>1. i - 1 \in 1 .. Len(waiters) /\ j - 1 \in 1 .. Len(waiters)
      BY <1>6, <1>13
    <3>2. waiters[i - 1] = waiters[j - 1]
      BY <1>6, <1>13
    <3>3. i - 1 = j - 1
      BY <3>1, <3>2 DEF IInv, WaitersBlocked
    <3> QED
      BY <1>13, <3>3
  <2> QED
    BY <1>6, <1>13, <2>1, <2>2
<1>15. \A u \in Tasks : (\E i \in 1 .. Len(waiters') : waiters'[i] = u)
            <=> u = t \/ (\E i \in 1 .. Len(waiters) : waiters[i] = u)
  <2> SUFFICES ASSUME NEW u \in Tasks
               PROVE  (\E i \in 1 .. Len(waiters') : waiters'[i] = u)
                      <=> u = t \/ (\E i \in 1 .. Len(waiters) : waiters[i] = u)
    OBVIOUS
  <2>1. ASSUME NEW i \in 1 .. Len(waiters'), waiters'[i] = u, u # t
        PROVE  \E k \in 1 .. Len(waiters) : waiters[k] = u
    <3>1. i - 1 \in 1 .. Len(waiters) /\ waiters[i - 1] = u
      BY <1>6, <1>13, <2>1
    <3> QED
      BY <3>1
  <2>2. ASSUME NEW k \in 1 .. Len(waiters), waiters[k] = u
        PROVE  \E i \in 1 .. Len(waiters') : waiters'[i] = u
    <3>1. k + 1 \in 1 .. Len(waiters') /\ waiters'[k + 1] = u
      BY <1>6, <1>13, <2>2
    <3> QED
      BY <3>1
  <2>3. 1 \in 1 .. Len(waiters')
    BY <1>6, <1>13
  <2> QED
    BY <1>6, <2>1, <2>2, <2>3
<1>16. \A u \in Tasks : (u = t \/ (\E i \in 1 .. Len(waiters) : waiters[i] = u))
            <=> pc'[u] = "locking" /\ state'[u] = "BLOCKED"
  <2> SUFFICES ASSUME NEW u \in Tasks
               PROVE  (u = t \/ (\E i \in 1 .. Len(waiters) : waiters[i] = u))
                      <=> pc'[u] = "locking" /\ state'[u] = "BLOCKED"
    OBVIOUS
  <2>1. CASE u = t
    BY <1>4, <1>5, <1>7, <2>1
  <2>2. CASE u = Idle
    BY <1>1, <1>7, <1>10, <2>2 DEF IInv, IdleTakesNoLock, WaitersBlocked
  <2>3. CASE u # t /\ u # Idle
    BY <1>4, <1>5, <1>7, <2>3 DEF IInv, WaitersBlocked, Clients
  <2> QED
    BY <2>1, <2>2, <2>3
<1>17. WaitersBlocked'
  BY <1>14, <1>15, <1>16 DEF WaitersBlocked
<1>18. NoLostWakeup'
  BY <1>8 DEF NoLostWakeup
<1> QED
  BY <1>4, <1>9, <1>10, <1>11, <1>17, <1>18 DEF IInv

LEMMA TakeMutexKeeps ==
    ASSUME IInv, NEW t \in Clients, Running(t), value # 1,
           pc[t] \in {"user", "locking"}, TakeMutex(t)
    PROVE  IInv'
<1> USE DEF TakeMutex
<1>1. t \in Tasks /\ t # Idle /\ state[t] = "RUNNING" /\ value = 0
  BY DEF Clients, Running, IInv, TypeOK
<1>2. TypeOK'
  BY <1>1, MutexAssumption DEF IInv, TypeOK, Place
<1>3. OneRunning' /\ IdleTakesNoLock'
  BY <1>1 DEF IInv, TypeOK, OneRunning, IdleTakesNoLock
<1>4. HolderAgrees'
  BY <1>1, MutexAssumption DEF IInv, TypeOK, HolderAgrees
<1>5. WaitersBlocked'
  BY <1>1 DEF IInv, TypeOK, WaitersBlocked
<1>6. NoLostWakeup'
  BY <1>1 DEF NoLostWakeup
<1> QED
  BY <1>2, <1>3, <1>4, <1>5, <1>6 DEF IInv

\* device interrupts, the timer and waits for the device: nothing of the lock
\* changes, and no task is stopped or woken inside mutex_lock.
LEMMA OutsideKeeps ==
    ASSUME IInv,
           UNCHANGED <<value, waiters, holder, repeat, pc>>,
           current' \in Tasks \cup {Boot},
           state' \in [Tasks -> TaskState],
           OneRunning',
           \A t \in Clients : pc[t] = "locking" =>
               /\ state'[t] = "BLOCKED" <=> state[t] = "BLOCKED"
               /\ state'[t] \in Awake <=> state[t] \in Awake
    PROVE  IInv'
<1>1. TypeOK' /\ IdleTakesNoLock' /\ HolderAgrees'
  BY DEF IInv, TypeOK, IdleTakesNoLock, HolderAgrees
<1>2. \A t \in Tasks : pc[t] = "locking" => t \in Clients
  BY DEF IInv, IdleTakesNoLock, Clients
<1>3. WaitersBlocked'
  BY <1>2 DEF IInv, WaitersBlocked
<1>4. NoLostWakeup'
  BY <1>2 DEF IInv, NoLostWakeup, Awake
<1> QED
  BY <1>1, <1>3, <1>4 DEF IInv

\* mutex_unlock by the task that leaves the critical section.
LEMMA LockReleaseKeeps ==
    ASSUME IInv, NEW t \in Clients, LockRelease(t)
    PROVE  IInv'
<1>1. t \in Tasks /\ t # Idle /\ current = t /\ state[t] = "RUNNING" /\ pc[t] = "critical"
  BY DEF LockRelease, Clients, Running
<1>2. holder = t /\ value = 1
  BY <1>1, MutexAssumption DEF IInv, HolderAgrees
<1>3. value' = 0 /\ holder' = None /\ repeat' = 0
  BY <1>2 DEF LockRelease, MutexUnlock
<1>4. /\ pc' \in [Tasks -> Place]
      /\ pc'[t] = "user"
      /\ \A u \in Tasks \ {t} : pc'[u] = pc[u]
  BY <1>1 DEF LockRelease, IInv, TypeOK, Place
<1>5. IdleTakesNoLock'
  BY <1>1, <1>4, DispatcherAssumption DEF IInv, IdleTakesNoLock
<1>6. HolderAgrees'
  BY <1>1, <1>2, <1>3, <1>4, MutexAssumption DEF IInv, HolderAgrees
<1>7. CASE waiters = << >>
  <2>1. waiters' = waiters /\ current' = current /\ state' = state
    BY <1>7 DEF LockRelease, MutexUnlock
  <2>2. TypeOK' /\ OneRunning'
    BY <1>3, <1>4, <2>1, MutexAssumption DEF IInv, TypeOK, OneRunning
  <2>3. WaitersBlocked'
    BY <1>1, <1>4, <2>1 DEF IInv, WaitersBlocked
  <2>4. NoLostWakeup'
    BY <1>7, <2>1 DEF NoLostWakeup
  <2> QED
    BY <1>5, <1>6, <2>2, <2>3, <2>4 DEF IInv
<1>8. CASE waiters # << >>
  <2> DEFINE w == Last(waiters)
             st == Wake(state, {w})
  <2>1. waiters \in Seq(Clients)
    BY DEF IInv, TypeOK
  <2>2. /\ waiters' \in Seq(Clients)
        /\ Len(waiters) \in Nat \ {0}
        /\ Len(waiters') = Len(waiters) - 1
        /\ \A i \in 1 .. Len(waiters) - 1 : waiters'[i] = waiters[i]
        /\ w = waiters[Len(waiters)]
        /\ w \in Clients
    BY <1>8, <2>1, RemoveLast DEF LockRelease, MutexUnlock
  <2>3. w \in Tasks /\ pc[w] = "locking" /\ state[w] = "BLOCKED"
    BY <2>2 DEF IInv, WaitersBlocked, Clients
  <2>4. w # t
    BY <1>1, <2>3
  <2>5. Dispatch(st)
    BY <1>8 DEF LockRelease, MutexUnlock
  <2>6. st[w] = "READY" /\ \A u \in Tasks \ {w} : st[u] = state[u]
    BY <2>3 DEF Wake
  <2>7. st \in [Tasks -> TaskState]
        /\ (\A u \in Tasks : st[u] = "RUNNING" => u = current)
    BY <2>6 DEF IInv, TypeOK, OneRunning, Wake, TaskState, Stopped
  <2> HIDE DEF w, st
  <2>8. /\ current' \in Tasks
        /\ state' \in [Tasks -> TaskState]
        /\ OneRunning'
        /\ \A u \in Clients : state'[u] = "BLOCKED" <=> st[u] = "BLOCKED"
        /\ \A u \in Clients : state'[u] \in Awake <=> st[u] \in Awake
    BY <2>5, <2>7, DispatchStep
  <2>9. TypeOK'
    BY <1>3, <1>4, <2>2, <2>8, MutexAssumption DEF TypeOK
  <2>10. \A i, j \in 1 .. Len(waiters') : waiters'[i] = waiters'[j] => i = j
    BY <2>2 DEF IInv, WaitersBlocked
  <2>11. \A u \in Tasks : (\E i \in 1 .. Len(waiters') : waiters'[i] = u)
            <=> u # w /\ (\E i \in 1 .. Len(waiters) : waiters[i] = u)
    <3> SUFFICES ASSUME NEW u \in Tasks
                 PROVE  (\E i \in 1 .. Len(waiters') : waiters'[i] = u)
                        <=> u # w /\ (\E i \in 1 .. Len(waiters) : waiters[i] = u)
      OBVIOUS
    <3>1. ASSUME NEW i \in 1 .. Len(waiters'), waiters'[i] = u
          PROVE  u # w /\ (\E k \in 1 .. Len(waiters) : waiters[k] = u)
      <4>1. i \in 1 .. Len(waiters) /\ i # Len(waiters) /\ waiters[i] = u
        BY <2>2, <3>1
      <4>2. Len(waiters) \in 1 .. Len(waiters)
        BY <2>2
      <4>3. u # w
        BY <2>2, <4>1, <4>2 DEF IInv, WaitersBlocked
      <4> QED
        BY <4>1, <4>3
    <3>2. ASSUME u # w, NEW k \in 1 .. Len(waiters), waiters[k] = u
          PROVE  \E i \in 1 .. Len(waiters') : waiters'[i] = u
      <4>1. k # Len(waiters)
        BY <2>2, <3>2
      <4>2. k \in 1 .. Len(waiters') /\ waiters'[k] = u
        BY <2>2, <3>2, <4>1
      <4> QED
        BY <4>2
    <3> QED
      BY <3>1, <3>2
  <2>12. \A u \in Tasks : (u # w /\ (\E i \in 1 .. Len(waiters) : waiters[i] = u))
            <=> pc'[u] = "locking" /\ state'[u] = "BLOCKED"
    <3> SUFFICES ASSUME NEW u \in Tasks
                 PROVE  (u # w /\ (\E i \in 1 .. Len(waiters) : waiters[i] = u))
                        <=> pc'[u] = "locking" /\ state'[u] = "BLOCKED"
      OBVIOUS
    <3>1. CASE u = w
      BY <2>2, <2>6, <2>8, <3>1
    <3>2. CASE u = t
      BY <1>1, <1>4, <3>2 DEF IInv, WaitersBlocked
    <3>3. CASE u = Idle
      BY <1>1, <1>4, <3>3 DEF IInv, IdleTakesNoLock, WaitersBlocked
    <3>4. CASE u # w /\ u # t /\ u # Idle
      BY <1>4, <2>6, <2>8, <3>4 DEF IInv, WaitersBlocked, Clients
    <3> QED
      BY <3>1, <3>2, <3>3, <3>4
  <2>13. WaitersBlocked'
    BY <2>10, <2>11, <2>12 DEF WaitersBlocked
  <2>14. NoLostWakeup'
    <3>1. pc'[w] = "locking" /\ state'[w] \in Awake
      BY <1>4, <2>2, <2>3, <2>4, <2>6, <2>8 DEF Awake
    <3> QED
      BY <2>3, <3>1 DEF NoLostWakeup, Awake
  <2> QED
    BY <1>5, <1>6, <2>8, <2>9, <2>13, <2>14 DEF IInv
<1> QED
  BY <1>7, <1>8

-----------------------------------------------------------------------------
LEMMA StepIInv == IInv /\ [Next]_vars => IInv'
<1> SUFFICES ASSUME IInv, [Next]_vars PROVE IInv'
  OBVIOUS
<1>1. \A t \in Tasks : state[t] = "RUNNING" => t = current
  BY DEF IInv, OneRunning
<1>2. state \in [Tasks -> TaskState]
  BY DEF IInv, TypeOK
<1>3. ASSUME NEW t \in Clients, LockAcquire(t)
      PROVE  IInv'
  <2>1. Running(t) /\ pc[t] \in {"user", "locking"}
    BY <1>3 DEF LockAcquire
  <2>2. CASE value = 1 /\ WaitForMutex(t)
    BY <2>1, <2>2, WaitForMutexKeeps
  <2>3. CASE value # 1 /\ TakeMutex(t)
    BY <2>1, <2>3, TakeMutexKeeps
  <2> QED
    BY <1>3, <2>2, <2>3 DEF LockAcquire, MutexLock
<1>4. ASSUME NEW t \in Clients, LockResume(t)
      PROVE  IInv'
  <2>1. Running(t) /\ pc[t] \in {"user", "locking"}
    BY <1>4 DEF LockResume
  <2>2. CASE value = 1 /\ WaitForMutex(t)
    BY <2>1, <2>2, WaitForMutexKeeps
  <2>3. CASE value # 1 /\ TakeMutex(t)
    BY <2>1, <2>3, TakeMutexKeeps
  <2> QED
    BY <1>4, <2>2, <2>3 DEF LockResume, MutexLock
<1>5. ASSUME NEW t \in Clients, LockAcquireAgain(t) \/ LockReleaseInner(t)
      PROVE  IInv'
  <2>1. UNCHANGED <<current, state, value, waiters, holder, pc>>
    BY <1>5 DEF LockAcquireAgain, LockReleaseInner
  <2>2. holder # None /\ repeat' \in 1 .. MaxDepth
    BY <1>5, MutexAssumption
    DEF LockAcquireAgain, LockReleaseInner, IInv, TypeOK, HolderAgrees, Clients
  <2>3. TypeOK'
    BY <2>1, <2>2, MutexAssumption DEF IInv, TypeOK
  <2>4. HolderAgrees'
    BY <2>1, <2>2, MutexAssumption DEF IInv, HolderAgrees
  <2>5. OneRunning' /\ IdleTakesNoLock' /\ WaitersBlocked' /\ NoLostWakeup'
    BY <2>1 DEF IInv, OneRunning, IdleTakesNoLock, WaitersBlocked, NoLostWakeup
  <2> QED
    BY <2>3, <2>4, <2>5 DEF IInv
<1>6. ASSUME NEW t \in Clients, LockRelease(t)
      PROVE  IInv'
  BY <1>6, LockReleaseKeeps
<1>7. ASSUME NEW t \in Clients, DeviceWait(t)
      PROVE  IInv'
  <2> DEFINE st == Mark(t, "BLOCKED")
  <2>1. t \in Tasks /\ current = t /\ pc[t] = "critical"
    BY <1>7 DEF DeviceWait, Clients, Running
  <2>2. st[t] = "BLOCKED" /\ \A u \in Tasks \ {t} : st[u] = state[u]
    BY <1>2, <2>1 DEF Mark
  <2>3. st \in [Tasks -> TaskState]
    BY <1>2 DEF Mark, TaskState, Stopped
  <2>4. Dispatch(st) /\ UNCHANGED <<value, waiters, holder, repeat, pc>>
    BY <1>7 DEF DeviceWait
  <2> HIDE DEF st
  <2>5. \A u \in Tasks : st[u] = "RUNNING" => u = current
    BY <1>1, <2>1, <2>2
  <2>6. /\ current' \in Tasks
        /\ state' \in [Tasks -> TaskState]
        /\ OneRunning'
        /\ \A u \in Clients : state'[u] = "BLOCKED" <=> st[u] = "BLOCKED"
        /\ \A u \in Clients : state'[u] \in Awake <=> st[u] \in Awake
    BY <2>3, <2>4, <2>5, DispatchStep
  <2>7. \A u \in Clients : pc[u] = "locking" => st[u] = state[u]
    BY <2>1, <2>2 DEF Clients
  <2> QED
    BY <2>4, <2>6, <2>7, OutsideKeeps
<1>8. ASSUME NEW t \in Clients, DeviceDone(t)
      PROVE  IInv'
  <2>1. /\ UNCHANGED <<current, value, waiters, holder, repeat, pc>>
        /\ state[t] = "BLOCKED" /\ pc[t] = "critical"
        /\ state' = Wake(state, {t})
    BY <1>8 DEF DeviceDone
  <2>2. /\ state' \in [Tasks -> TaskState]
        /\ \A u \in Tasks : state'[u] = IF u = t THEN "READY" ELSE state[u]
    BY <1>2, <2>1 DEF Wake, TaskState, Stopped
  <2>3. current' \in Tasks \cup {Boot}
    BY <2>1 DEF IInv, TypeOK
  <2>4. OneRunning'
    BY <2>1, <2>2 DEF IInv, OneRunning
  <2>5. \A u \in Clients : pc[u] = "locking" => state'[u] = state[u]
    BY <2>1, <2>2 DEF Clients
  <2> QED
    BY <2>1, <2>2, <2>3, <2>4, <2>5, OutsideKeeps
<1>9. ASSUME TimerPreempts
      PROVE  IInv'
  <2>1. Dispatch(state) /\ UNCHANGED <<value, waiters, holder, repeat, pc>>
    BY <1>9 DEF TimerPreempts
  <2>2. /\ current' \in Tasks
        /\ state' \in [Tasks -> TaskState]
        /\ OneRunning'
        /\ \A u \in Clients : state'[u] = "BLOCKED" <=> state[u] = "BLOCKED"
        /\ \A u \in Clients : state'[u] \in Awake <=> state[u] \in Awake
    BY <1>1, <1>2, <2>1, DispatchStep
  <2> QED
    BY <2>1, <2>2, OutsideKeeps
<1>10. ASSUME UNCHANGED vars
       PROVE  IInv'
  BY <1>10
  DEF vars, IInv, TypeOK, OneRunning, IdleTakesNoLock, HolderAgrees, WaitersBlocked, NoLostWakeup
<1> QED
  BY <1>3, <1>4, <1>5, <1>6, <1>7, <1>8, <1>9, <1>10 DEF Next

-----------------------------------------------------------------------------
\* Every reachable state satisfies the inductive invariant.
THEOREM MutexInvariant == Spec => []IInv
  BY InitIInv, StepIInv, PTL DEF Spec

\* At most one task is between lock_acquire and lock_release, however many
\* compete for the lock.
THEOREM MutexMutualExclusion == Spec => []MutualExclusion
<1>1. IInv => MutualExclusion
  BY DEF IInv, HolderAgrees, MutualExclusion
<1> QED
  BY <1>1, MutexInvariant, PTL

\* The assertions of mutex.c on value, holder and repeat hold.
THEOREM MutexHolderAgrees == Spec => []HolderAgrees
<1>1. IInv => HolderAgrees
  BY DEF IInv
<1> QED
  BY <1>1, MutexInvariant, PTL

\* The waiters list is exactly the set of tasks blocked in mutex_lock.
THEOREM MutexWaitersBlocked == Spec => []WaitersBlocked
<1>1. IInv => WaitersBlocked
  BY DEF IInv
<1> QED
  BY <1>1, MutexInvariant, PTL

\* A free mutex with waiters has a woken task on its way to it.
THEOREM MutexNoLostWakeup == Spec => []NoLostWakeup
<1>1. IInv => NoLostWakeup
  BY DEF IInv
<1> QED
  BY <1>1, MutexInvariant, PTL

\* Every variable has its type.
THEOREM MutexTypeOK == Spec => []TypeOK
<1>1. IInv => TypeOK
  BY DEF IInv
<1> QED
  BY <1>1, MutexInvariant, PTL

\* lock_acquire and lock_release implement the reentrant lock.
THEOREM MutexImplementsLock == Spec => ImplementsLock
<1>1. Init => L!LockInit
  BY DEF Init, L!LockInit
<1>2. IInv /\ [Next]_vars => [L!LockNext]_(L!lockVars)
  <2> SUFFICES ASSUME IInv, [Next]_vars
               PROVE  L!LockNext \/ UNCHANGED <<holder, repeat>>
    BY DEF L!lockVars
  <2>1. \A t \in Clients : t \in Tasks /\ t # None
    BY MutexAssumption DEF Clients
  <2>2. ASSUME NEW t \in Clients, TakeMutex(t), value # 1
        PROVE  L!Acquire(t)
    <3>1. holder = None /\ repeat = 0
      BY <2>2, MutexAssumption DEF IInv, TypeOK, HolderAgrees
    <3> QED
      BY <2>2, <3>1 DEF TakeMutex, L!Acquire
  <2>3. ASSUME NEW t \in Clients, LockAcquire(t) \/ LockResume(t)
        PROVE  L!Acquire(t) \/ UNCHANGED <<holder, repeat>>
    BY <2>2, <2>3 DEF LockAcquire, LockResume, MutexLock, WaitForMutex
  <2>4. ASSUME NEW t \in Clients, LockAcquireAgain(t)
        PROVE  L!Acquire(t)
    BY <2>4 DEF LockAcquireAgain, L!Acquire
  <2>5. ASSUME NEW t \in Clients, LockRelease(t) \/ LockReleaseInner(t)
        PROVE  L!Release(t)
    <3>1. t \in Tasks /\ pc[t] = "critical"
      BY <2>5 DEF LockRelease, LockReleaseInner, Clients
    <3>2. holder = t /\ repeat \in Nat
      BY <3>1, MutexAssumption DEF IInv, TypeOK, HolderAgrees
    <3> QED
      BY <2>5, <3>2 DEF LockRelease, LockReleaseInner, L!Release
  <2>6. ASSUME NEW t \in Clients, DeviceWait(t) \/ DeviceDone(t)
        PROVE  UNCHANGED <<holder, repeat>>
    BY <2>6 DEF DeviceWait, DeviceDone
  <2>7. TimerPreempts \/ UNCHANGED vars => UNCHANGED <<holder, repeat>>
    BY DEF TimerPreempts, vars
  <2> QED
    BY <2>1, <2>3, <2>4, <2>5, <2>6, <2>7 DEF Next, L!LockNext
<1> QED
  BY <1>1, <1>2, MutexInvariant, PTL DEF Spec, ImplementsLock, L!LockSpec

-----------------------------------------------------------------------------
(* Tasks at a fifo.                                                        *)

FifosAssumed ==
    /\ Idle \in Tasks /\ Boot \notin Tasks
    /\ Length \in Nat /\ Length > 1
    /\ Readers \subseteq Tasks \ {Idle} /\ Writers \subseteq Tasks \ {Idle}
    /\ None \notin Tasks /\ MaxCount \in Nat /\ MaxBytes \in Nat

Bytes == Int \cup {NoByte}
Rings == [buf : [P!Cells -> Bytes], head : P!Cells, tail : P!Cells]

Used(f) == IF f.head <= f.tail THEN f.tail - f.head ELSE f.tail - f.head + Length

At(f, i) == IF f.head + i - 1 < Length THEN f.head + i - 1 ELSE f.head + i - 1 - Length

-----------------------------------------------------------------------------
(* The ring.                                                               *)

LEMMA NextCell ==
    ASSUME FifosAssumed, NEW c \in P!Cells
    PROVE  /\ P!fifo_next(c) = IF c + 1 = Length THEN 0 ELSE c + 1
           /\ P!fifo_next(c) \in P!Cells
<1>1. Length \in Nat /\ Length > 1 /\ c \in Int /\ 0 <= c /\ c < Length
  BY DEF FifosAssumed, P!Cells
<1>2. CASE c + 1 = Length
  <2>1. (c + 1) % Length = 0
    BY <1>1, <1>2
  <2> QED
    BY <1>1, <1>2, <2>1 DEF P!fifo_next, P!Cells
<1>3. CASE c + 1 # Length
  <2>1. (c + 1) % Length = c + 1
    BY <1>1, <1>3
  <2> QED
    BY <1>1, <1>3, <2>1 DEF P!fifo_next, P!Cells
<1> QED
  BY <1>2, <1>3

\* What the tests of the ring and its contents are.
LEMMA RingFacts ==
    ASSUME FifosAssumed, NEW f \in Rings
    PROVE  /\ Used(f) \in 0 .. Length - 1
           /\ P!fifo_empty(f) <=> Used(f) = 0
           /\ P!fifo_full(f) <=> Used(f) = Length - 1
           /\ \A i \in 1 .. Used(f) : At(f, i) \in P!Cells
           /\ P!Contents(f) = [i \in 1 .. Used(f) |-> f.buf[At(f, i)]]
<1>1. /\ Length \in Nat /\ Length > 1
      /\ f.head \in Int /\ 0 <= f.head /\ f.head < Length
      /\ f.tail \in Int /\ 0 <= f.tail /\ f.tail < Length
  BY DEF FifosAssumed, Rings, P!Cells
<1>2. Used(f) \in 0 .. Length - 1
  BY <1>1 DEF Used
<1>3. P!fifo_empty(f) <=> Used(f) = 0
  BY <1>1 DEF Used, P!fifo_empty
<1>4. P!fifo_full(f) <=> Used(f) = Length - 1
  <2>1. P!fifo_next(f.tail) = IF f.tail + 1 = Length THEN 0 ELSE f.tail + 1
    BY NextCell DEF Rings
  <2> QED
    BY <1>1, <2>1 DEF Used, P!fifo_full
<1>5. \A i \in 1 .. Used(f) : At(f, i) \in P!Cells
  BY <1>1, <1>2 DEF At, P!Cells
<1>6. (f.tail - f.head) % Length = Used(f)
  <2>1. CASE f.head <= f.tail
    BY <1>1, <2>1 DEF Used
  <2>2. CASE ~ (f.head <= f.tail)
    BY <1>1, <2>2 DEF Used
  <2> QED
    BY <2>1, <2>2
<1>7. ASSUME NEW i \in 1 .. Used(f)
      PROVE  (f.head + i - 1) % Length = At(f, i)
  <2>1. i \in Int /\ 1 <= i /\ i < Length
    BY <1>1, <1>2
  <2>2. CASE f.head + i - 1 < Length
    BY <1>1, <2>1, <2>2 DEF At
  <2>3. CASE ~ (f.head + i - 1 < Length)
    BY <1>1, <2>1, <2>3 DEF At
  <2> QED
    BY <2>2, <2>3
<1>8. P!Contents(f) = [i \in 1 .. Used(f) |-> f.buf[At(f, i)]]
  BY <1>6, <1>7 DEF P!Contents
<1> QED
  BY <1>2, <1>3, <1>4, <1>5, <1>8

\* A byte put into a ring that is not full is its last, the others stay.
LEMMA PutFacts ==
    ASSUME FifosAssumed, NEW f \in Rings, ~P!fifo_full(f), NEW byte \in Int, NEW g, g = P!AfterPut(f, byte)
    PROVE  /\ g \in Rings
           /\ Used(g) = Used(f) + 1
           /\ \A i \in 1 .. Used(f) : g.buf[At(g, i)] = f.buf[At(f, i)]
           /\ g.buf[At(g, Used(g))] = byte
<1>1. /\ Length \in Nat /\ Length > 1
      /\ f.head \in Int /\ 0 <= f.head /\ f.head < Length
      /\ f.tail \in Int /\ 0 <= f.tail /\ f.tail < Length
  BY DEF FifosAssumed, Rings, P!Cells
<1>2. /\ P!fifo_next(f.tail) = IF f.tail + 1 = Length THEN 0 ELSE f.tail + 1
      /\ P!fifo_next(f.tail) \in P!Cells
  BY NextCell DEF Rings
<1>3. g = [f EXCEPT !.buf[f.tail] = byte, !.tail = P!fifo_next(f.tail)]
  BY DEF P!AfterPut
<1>4. /\ g.head = f.head /\ g.tail = P!fifo_next(f.tail)
      /\ g.buf = [f.buf EXCEPT ![f.tail] = byte]
  BY <1>3 DEF Rings
<1>5. g \in Rings
  <2>1. g.buf \in [P!Cells -> Bytes]
    BY <1>4 DEF Rings, Bytes
  <2>2. g = [buf |-> g.buf, head |-> g.head, tail |-> g.tail]
    BY <1>3, <1>4 DEF Rings
  <2> QED
    BY <1>2, <1>4, <2>1, <2>2 DEF Rings
<1>6. Used(f) < Length - 1 /\ Used(f) \in Nat
  BY <1>1, RingFacts
<1>7. Used(g) = Used(f) + 1
  BY <1>1, <1>2, <1>4, <1>6 DEF Used
<1>8. \A i : At(g, i) = At(f, i)
  BY <1>4 DEF At
<1>9. \A i \in 1 .. Used(f) : At(f, i) # f.tail /\ At(f, i) \in P!Cells
  BY <1>1, <1>6 DEF At, Used, P!Cells
<1>10. At(f, Used(f) + 1) = f.tail
  BY <1>1 DEF At, Used
<1>11. \A c \in P!Cells : g.buf[c] = IF c = f.tail THEN byte ELSE f.buf[c]
  BY <1>4 DEF Rings
<1>12. f.tail \in P!Cells
  BY DEF Rings
<1> QED
  BY <1>5, <1>7, <1>8, <1>9, <1>10, <1>11, <1>12

\* The byte taken out is the first, the others move up.
LEMMA GetFacts ==
    ASSUME FifosAssumed, NEW f \in Rings, ~P!fifo_empty(f), NEW g, g = P!AfterGet(f)
    PROVE  /\ g \in Rings
           /\ Used(g) = Used(f) - 1 /\ ~P!fifo_full(g)
           /\ \A i \in 1 .. Used(g) : g.buf[At(g, i)] = f.buf[At(f, i + 1)]
           /\ P!FirstByte(f) = f.buf[At(f, 1)]
<1>1. /\ Length \in Nat /\ Length > 1
      /\ f.head \in Int /\ 0 <= f.head /\ f.head < Length
      /\ f.tail \in Int /\ 0 <= f.tail /\ f.tail < Length
  BY DEF FifosAssumed, Rings, P!Cells
<1>2. /\ P!fifo_next(f.head) = IF f.head + 1 = Length THEN 0 ELSE f.head + 1
      /\ P!fifo_next(f.head) \in P!Cells
  BY NextCell DEF Rings
<1>3. g = [f EXCEPT !.head = P!fifo_next(f.head)]
  BY DEF P!AfterGet
<1>4. g.head = P!fifo_next(f.head) /\ g.tail = f.tail /\ g.buf = f.buf
  BY <1>3 DEF Rings
<1>5. g \in Rings
  BY <1>2, <1>3 DEF Rings
<1>6. Used(f) \in 1 .. Length - 1
  BY <1>1, RingFacts
<1>7. Used(g) = Used(f) - 1
  BY <1>1, <1>2, <1>4, <1>6 DEF Used
<1>8. ~P!fifo_full(g)
  BY <1>1, <1>5, <1>6, <1>7, RingFacts
<1>9. \A i \in 1 .. Used(g) : At(g, i) = At(f, i + 1)
  BY <1>1, <1>2, <1>4, <1>6, <1>7 DEF At
<1>10. At(f, 1) = f.head
  BY <1>1 DEF At
<1> QED
  BY <1>4, <1>5, <1>7, <1>8, <1>9, <1>10 DEF P!FirstByte

-----------------------------------------------------------------------------
(* The invariant.                                                          *)

OneWriter == \A v, w \in Writers : v = w
OneReader == \A r, q \in readers : r = q

Calls == {"user", "read", "rxblocked", "write", "txblocked"}

PipeType ==
    /\ current \in Tasks \cup {Boot}
    /\ state \in [Tasks -> P!TaskState]
    /\ pc \in [Tasks -> Calls]
    /\ ring \in Rings
    /\ sent \in Nat /\ received \in Seq(Int)
    /\ readers \subseteq Readers

\* The bytes read, and after them those in the ring, are numbered from 1.
Numbered ==
    /\ Len(received) + Used(ring) = sent
    /\ \A i \in 1 .. Len(received) : received[i] = i
    /\ \A i \in 1 .. Used(ring) : ring.buf[At(ring, i)] = Len(received) + i

\* Who is inside which call.
Callers ==
    \A t \in Tasks :
        /\ pc[t] \in {"read", "rxblocked"} => t \in readers
        /\ pc[t] \in {"write", "txblocked"} => t \in Writers

Waiters ==
    /\ rxwaiter \in Tasks \cup {None} /\ txwaiter \in Tasks \cup {None}
    /\ P!WaitersSleep

\* A task that was woken finds what it waited for when it goes on.
Woken ==
    /\ \A t \in Tasks : pc[t] = "txblocked" /\ txwaiter # t => ~P!fifo_full(ring)
    /\ OneReader => \A t \in Tasks : pc[t] = "rxblocked" /\ rxwaiter # t => ~P!fifo_empty(ring)

NeverFails == OneReader => failed = 0

PipeInv == PipeType /\ Numbered /\ Callers /\ Waiters /\ Woken /\ NeverFails

LEMMA PipeStarts ==
    ASSUME FifosAssumed
    PROVE  P!Init => PipeInv
<1> SUFFICES ASSUME P!Init PROVE PipeInv
  OBVIOUS
<1>1. Idle \in Tasks /\ Length \in Nat /\ Length > 1
  BY DEF FifosAssumed
<1>2. ring \in Rings /\ ring.head = 0 /\ ring.tail = 0
  <2>1. 0 \in P!Cells
    BY <1>1 DEF P!Cells
  <2> QED
    BY <2>1 DEF P!Init, P!fifo_init, Rings, Bytes
<1>3. PipeType
  BY <1>2 DEF P!Init, P!DispatchInit, PipeType, P!TaskState, Calls
<1>4. Used(ring) = 0 /\ Len(received) = 0 /\ sent = 0
  BY <1>2 DEF Used, P!Init
<1>5. Numbered
  BY <1>4 DEF Numbered
<1>6. \A t \in Tasks : pc[t] = "user" /\ state[t] = "READY"
  BY DEF P!Init, P!DispatchInit
<1>7. rxwaiter = None /\ txwaiter = None /\ failed = 0
  BY DEF P!Init
<1> QED
  BY <1>3, <1>5, <1>6, <1>7 DEF PipeInv, Callers, Waiters, P!WaitersSleep, Woken, NeverFails

\* schedule() takes a ready task or the idle one: who is blocked stays so.
LEMMA SwitchStep ==
    ASSUME FifosAssumed, current \in Tasks \cup {Boot},
           NEW st \in [Tasks -> P!TaskState], st[Idle] # "BLOCKED", P!Dispatch(st)
    PROVE  /\ current' \in Tasks /\ state' \in [Tasks -> P!TaskState]
           /\ \A t \in Tasks : state'[t] = "BLOCKED" <=> st[t] = "BLOCKED"
<1>1. PICK next \in P!Eligible(st) : current' = next /\ state' = P!Switched(st, next)
  BY DEF P!Dispatch
<1>2. next \in Tasks /\ st[next] # "BLOCKED"
  BY DEF FifosAssumed, P!Eligible, P!Ready
<1>3. state' \in [Tasks -> P!TaskState]
  BY <1>1 DEF P!Switched, P!TaskState
<1>4. \A t \in Tasks : state'[t] = IF t = next THEN "RUNNING"
                                   ELSE IF t = current /\ st[t] = "RUNNING" THEN "READY"
                                   ELSE st[t]
  BY <1>1 DEF P!Switched
<1> QED
  BY <1>1, <1>2, <1>3, <1>4

\* The idle task makes no calls and never sleeps.
LEMMA IdleIsAwake ==
    ASSUME FifosAssumed, PipeInv
    PROVE  Idle \in Tasks /\ pc[Idle] = "user" /\ state[Idle] # "BLOCKED"
<1>1. Idle \in Tasks /\ Idle \notin readers /\ Idle \notin Writers
  BY DEF FifosAssumed, PipeInv, PipeType
<1>2. pc[Idle] = "user"
  BY <1>1 DEF PipeInv, PipeType, Callers, Calls
<1>3. None \notin Tasks
  BY DEF FifosAssumed
<1> QED
  BY <1>1, <1>2, <1>3 DEF PipeInv, Waiters, P!WaitersSleep
-----------------------------------------------------------------------------
(* The steps.                                                              *)

LEMMA CallKeeps ==
    ASSUME FifosAssumed, PipeInv, NEW t \in Tasks, NEW place, NEW n, P!Call(t, place, n),
           place \in {"read", "write"},
           place = "read" => t \in readers, place = "write" => t \in Writers
    PROVE  PipeInv'
<1>1. /\ pc[t] = "user" /\ pc' = [pc EXCEPT ![t] = place]
      /\ UNCHANGED <<readers, current, state, ring, rxwaiter, txwaiter, sent, received, failed>>
  BY DEF P!Call, P!Running
<1>2. \A u \in Tasks : pc'[u] = IF u = t THEN place ELSE pc[u]
  BY <1>1 DEF PipeInv, PipeType
<1>3. PipeType'
  BY <1>1 DEF PipeInv, PipeType, Calls
<1>4. Numbered'
  BY <1>1 DEF PipeInv, Numbered
<1>5. Callers'
  BY <1>1, <1>2 DEF PipeInv, Callers
<1>6. Waiters'
  BY <1>1, <1>2 DEF PipeInv, Waiters, P!WaitersSleep
<1>7. Woken'
  BY <1>1, <1>2 DEF PipeInv, Woken, OneReader
<1>8. NeverFails'
  BY <1>1 DEF PipeInv, NeverFails, OneReader
<1> QED
  BY <1>3, <1>4, <1>5, <1>6, <1>7, <1>8 DEF PipeInv

\* A failed assertion stops the kernel; with one reader there is none.
LEMMA FailKeeps ==
    ASSUME FifosAssumed, PipeInv, NEW line, P!Fail(line), ~OneReader
    PROVE  PipeInv'
<1>1. UNCHANGED <<readers, current, state, ring, rxwaiter, txwaiter, pc, sent, received>>
  BY DEF P!Fail
<1>2. PipeType' /\ Numbered' /\ Callers'
  BY <1>1 DEF PipeInv, PipeType, Numbered, Callers
<1>3. Waiters' /\ Woken'
  BY <1>1 DEF PipeInv, Waiters, P!WaitersSleep, Woken, OneReader
<1>4. NeverFails'
  BY <1>1 DEF NeverFails, OneReader
<1> QED
  BY <1>2, <1>3, <1>4 DEF PipeInv

\* task_block in pipe_read and in pipe_write: nobody else waits at that end.
LEMMA BlockKeeps ==
    ASSUME FifosAssumed, PipeInv, NEW t \in Tasks, NEW place \in {"rxblocked", "txblocked"},
           OneWriter,
           \/ /\ place = "rxblocked" /\ t \in readers /\ rxwaiter = None
              /\ rxwaiter' = t /\ txwaiter' = txwaiter /\ P!fifo_empty(ring)
           \/ /\ place = "txblocked" /\ t \in Writers /\ txwaiter = None
              /\ txwaiter' = t /\ rxwaiter' = rxwaiter /\ P!fifo_full(ring),
           pc[t] \in {"read", "write"},
           pc' = [pc EXCEPT ![t] = place],
           P!Dispatch(P!Mark(t, "BLOCKED")),
           UNCHANGED <<readers, ring, sent, received, failed>>
    PROVE  PipeInv'
<1>1. Idle \in Tasks /\ Idle # t /\ state[Idle] # "BLOCKED" /\ None \notin Tasks
  BY IdleIsAwake DEF FifosAssumed
<1>2. P!Mark(t, "BLOCKED") \in [Tasks -> P!TaskState]
  BY DEF PipeInv, PipeType, P!Mark, P!TaskState, P!Stopped
<1>3. \A u \in Tasks : P!Mark(t, "BLOCKED")[u] = IF u = t THEN "BLOCKED" ELSE state[u]
  BY DEF PipeInv, PipeType, P!Mark
<1>4. /\ current' \in Tasks /\ state' \in [Tasks -> P!TaskState]
      /\ \A u \in Tasks : state'[u] = "BLOCKED" <=> P!Mark(t, "BLOCKED")[u] = "BLOCKED"
  <2>1. current \in Tasks \cup {Boot} /\ P!Mark(t, "BLOCKED")[Idle] # "BLOCKED"
    BY <1>1, <1>3 DEF PipeInv, PipeType
  <2> QED
    BY <1>2, <2>1, SwitchStep
<1>5. \A u \in Tasks : state'[u] = "BLOCKED" <=> u = t \/ state[u] = "BLOCKED"
  BY <1>3, <1>4
<1>6. \A u \in Tasks : pc'[u] = IF u = t THEN place ELSE pc[u]
  BY DEF PipeInv, PipeType
<1>7. PipeType'
  BY <1>4 DEF PipeInv, PipeType, Calls
<1>8. Numbered'
  BY DEF PipeInv, Numbered
<1>9. Callers'
  BY <1>6 DEF PipeInv, Callers
<1>10. Waiters'
  <2>1. rxwaiter \in Tasks \cup {None} /\ txwaiter \in Tasks \cup {None} /\ P!WaitersSleep
    BY DEF PipeInv, Waiters
  <2>2. (rxwaiter # None => rxwaiter # t) /\ (txwaiter # None => txwaiter # t)
    BY <2>1 DEF P!WaitersSleep
  <2>3. rxwaiter' \in Tasks \cup {None} /\ txwaiter' \in Tasks \cup {None}
    BY <2>1
  <2>4. \A u \in Tasks : state'[u] = "BLOCKED" => u \in {rxwaiter', txwaiter'}
    BY <1>1, <1>5, <2>1 DEF P!WaitersSleep
  <2>5. rxwaiter' # None =>
          state'[rxwaiter'] = "BLOCKED" /\ pc'[rxwaiter'] = "rxblocked" /\ P!fifo_empty(ring)
    BY <1>5, <1>6, <2>1, <2>2 DEF P!WaitersSleep
  <2>6. txwaiter' # None =>
          state'[txwaiter'] = "BLOCKED" /\ pc'[txwaiter'] = "txblocked" /\ P!fifo_full(ring)
    BY <1>5, <1>6, <2>1, <2>2 DEF P!WaitersSleep
  <2> QED
    BY <2>3, <2>4, <2>5, <2>6 DEF Waiters, P!WaitersSleep
<1>11. Woken'
  <2>1. ASSUME NEW u \in Tasks, pc'[u] = "txblocked", txwaiter' # u
        PROVE  ~P!fifo_full(ring)
    <3>1. u # t
      BY <1>6, <2>1
    <3>2. pc[u] = "txblocked" /\ u \in Writers
      BY <1>6, <2>1, <3>1 DEF PipeInv, Callers
    <3>3. txwaiter' = txwaiter
      BY <3>1, <3>2 DEF OneWriter
    <3> QED
      BY <2>1, <3>2, <3>3 DEF PipeInv, Woken
  <2>2. ASSUME OneReader, NEW u \in Tasks, pc'[u] = "rxblocked", rxwaiter' # u
        PROVE  ~P!fifo_empty(ring)
    <3>1. u # t
      BY <1>6, <2>2
    <3>2. pc[u] = "rxblocked" /\ u \in readers
      BY <1>6, <2>2, <3>1 DEF PipeInv, Callers
    <3>3. rxwaiter' = rxwaiter
      BY <2>2, <3>1, <3>2 DEF OneReader
    <3> QED
      BY <2>2, <3>2, <3>3 DEF PipeInv, Woken
  <2> QED
    BY <2>1, <2>2 DEF Woken, OneReader
<1>12. NeverFails'
  BY DEF PipeInv, NeverFails, OneReader
<1> QED
  BY <1>7, <1>8, <1>9, <1>10, <1>11, <1>12 DEF PipeInv

LEMMA ReadBlocksKeeps ==
    ASSUME FifosAssumed, PipeInv, OneWriter, NEW t \in Tasks, P!ReadBlocks(t)
    PROVE  PipeInv'
<1>1. pc[t] = "read" /\ P!fifo_empty(ring) /\ t \in readers
  BY DEF P!ReadBlocks, P!Running, PipeInv, Callers
<1>2. CASE rxwaiter # None
  <2>1. P!Fail(23)
    BY <1>2 DEF P!ReadBlocks
  <2>2. rxwaiter \in Tasks /\ pc[rxwaiter] = "rxblocked"
    BY <1>2 DEF PipeInv, Waiters, P!WaitersSleep
  <2>3. rxwaiter \in readers /\ rxwaiter # t
    BY <1>1, <2>2 DEF PipeInv, Callers
  <2>4. ~OneReader
    BY <1>1, <2>3 DEF OneReader
  <2> QED
    BY <2>1, <2>4, FailKeeps
<1>3. CASE rxwaiter = None
  <2>1. /\ rxwaiter' = t /\ pc' = [pc EXCEPT ![t] = "rxblocked"]
        /\ P!Dispatch(P!Mark(t, "BLOCKED"))
        /\ UNCHANGED <<readers, ring, txwaiter, sent, received, failed>>
    BY <1>3 DEF P!ReadBlocks
  <2> QED
    BY <1>1, <1>3, <2>1, BlockKeeps
<1> QED
  BY <1>2, <1>3

LEMMA WriteBlocksKeeps ==
    ASSUME FifosAssumed, PipeInv, OneWriter, NEW t \in Tasks, P!WriteBlocks(t)
    PROVE  PipeInv'
<1>1. pc[t] = "write" /\ P!fifo_full(ring) /\ t \in Writers
  BY DEF P!WriteBlocks, P!Running, PipeInv, Callers
<1>2. txwaiter = None
  <2> SUFFICES ASSUME txwaiter # None
               PROVE  FALSE
    OBVIOUS
  <2>1. txwaiter \in Tasks /\ pc[txwaiter] = "txblocked"
    BY DEF PipeInv, Waiters, P!WaitersSleep
  <2>2. txwaiter \in Writers /\ txwaiter # t
    BY <1>1, <2>1 DEF PipeInv, Callers
  <2> QED
    BY <1>1, <2>2 DEF OneWriter
<1>3. /\ txwaiter' = t /\ pc' = [pc EXCEPT ![t] = "txblocked"]
      /\ P!Dispatch(P!Mark(t, "BLOCKED"))
      /\ UNCHANGED <<readers, ring, rxwaiter, sent, received, failed>>
  BY <1>2 DEF P!WriteBlocks
<1> QED
  BY <1>1, <1>2, <1>3, BlockKeeps

\* Waking the task at the other end, if there is one.
LEMMA WakeFacts ==
    ASSUME FifosAssumed, PipeInv, NEW w \in Tasks \cup {None}, P!WakeOther(w)
    PROVE  /\ state' \in [Tasks -> P!TaskState]
           /\ \A u \in Tasks : state'[u] = "BLOCKED" <=> u # w /\ state[u] = "BLOCKED"
<1>1. None \notin Tasks /\ state \in [Tasks -> P!TaskState]
  BY DEF FifosAssumed, PipeInv, PipeType
<1>2. CASE w = None
  BY <1>1, <1>2 DEF P!WakeOther
<1>3. CASE w # None
  BY <1>1, <1>3 DEF P!WakeOther, P!Wake, P!TaskState
<1> QED
  BY <1>2, <1>3

\* fifo_get, of a reader that has looked or of one that was woken.
LEMMA GetByteKeeps ==
    ASSUME FifosAssumed, PipeInv, NEW t \in Tasks, pc[t] \in {"read", "rxblocked"}, state[t] = "RUNNING",
           P!GetByte(t), P!fifo_empty(ring) => ~OneReader
    PROVE  PipeInv'
<1>1. CASE P!fifo_empty(ring)
  <2>1. P!Fail(30) /\ ~OneReader
    BY <1>1 DEF P!GetByte
  <2> QED
    BY <2>1, FailKeeps
<1>2. CASE ~P!fifo_empty(ring)
  <2>1. /\ received' = Append(received, P!FirstByte(ring)) /\ ring' = P!AfterGet(ring)
        /\ P!WakeOther(txwaiter) /\ txwaiter' = None
        /\ pc' = [pc EXCEPT ![t] = IF left[t] = 1 THEN "user" ELSE "read"]
        /\ UNCHANGED <<readers, current, rxwaiter, sent, failed>>
    BY <1>2 DEF P!GetByte, P!Advance
  <2>2. /\ ring \in Rings /\ received \in Seq(Int) /\ sent \in Nat
        /\ rxwaiter \in Tasks \cup {None} /\ txwaiter \in Tasks \cup {None} /\ None \notin Tasks
    BY DEF FifosAssumed, PipeInv, PipeType, Waiters
  <2>3. /\ ring' \in Rings /\ Used(ring') = Used(ring) - 1 /\ ~P!fifo_full(ring')
        /\ \A i \in 1 .. Used(ring') : ring'.buf[At(ring', i)] = ring.buf[At(ring, i + 1)]
        /\ P!FirstByte(ring) = ring.buf[At(ring, 1)]
    BY <1>2, <2>1, <2>2, GetFacts
  <2>4. Used(ring) \in Nat \ {0}
    <3>1. Used(ring) \in 0 .. Length - 1 /\ Used(ring) # 0 /\ Length \in Nat
      BY <1>2, <2>2, RingFacts DEF FifosAssumed
    <3> QED
      BY <3>1
  <2>5. P!FirstByte(ring) = Len(received) + 1
    BY <2>3, <2>4 DEF PipeInv, Numbered
  <2>6. /\ received' \in Seq(Int) /\ Len(received') = Len(received) + 1
        /\ \A i \in 1 .. Len(received) : received'[i] = received[i]
        /\ received'[Len(received) + 1] = Len(received) + 1
    BY <2>1, <2>2, <2>5
  <2>7. Numbered'
    <3>1. Len(received) + Used(ring) = sent /\ Len(received) \in Nat
      BY <2>2 DEF PipeInv, Numbered
    <3>2. Len(received') + Used(ring') = sent
      BY <2>3, <2>4, <2>6, <3>1
    <3>3. \A i \in 1 .. Len(received') : received'[i] = i
      BY <2>6, <3>1 DEF PipeInv, Numbered
    <3>4. ASSUME NEW i \in 1 .. Used(ring')
          PROVE  ring'.buf[At(ring', i)] = Len(received') + i
      <4>1. i \in Nat /\ i + 1 \in 1 .. Used(ring)
        BY <2>3, <2>4
      <4>2. ring.buf[At(ring, i + 1)] = Len(received) + (i + 1)
        BY <4>1 DEF PipeInv, Numbered
      <4> QED
        BY <2>3, <2>6, <3>1, <4>1, <4>2
    <3> QED
      BY <2>1, <3>2, <3>3, <3>4 DEF Numbered
  <2>8. /\ state' \in [Tasks -> P!TaskState]
        /\ \A u \in Tasks : state'[u] = "BLOCKED" <=> u # txwaiter /\ state[u] = "BLOCKED"
    BY <2>1, <2>2, WakeFacts
  <2>9. /\ \A u \in Tasks : u # t => pc'[u] = pc[u]
        /\ pc'[t] \in {"user", "read"}
    BY <2>1 DEF PipeInv, PipeType
  <2>10. PipeType'
    BY <2>1, <2>3, <2>6, <2>8 DEF PipeInv, PipeType, Calls
  <2>11. Callers'
    BY <2>1, <2>9 DEF PipeInv, Callers
  <2>12. rxwaiter = None
    BY <1>2 DEF PipeInv, Waiters, P!WaitersSleep
  <2>13. Waiters'
    BY <2>1, <2>2, <2>8, <2>12 DEF PipeInv, Waiters, P!WaitersSleep
  <2>14. Woken'
    <3>1. ASSUME OneReader, NEW u \in Tasks, pc'[u] = "rxblocked"
          PROVE  FALSE
      <4>1. u # t /\ pc[u] = "rxblocked"
        BY <2>9, <3>1
      <4>2. u \in readers /\ t \in readers
        BY <4>1 DEF PipeInv, Callers
      <4> QED
        BY <3>1, <4>1, <4>2 DEF OneReader
    <3> QED
      BY <2>1, <2>3, <3>1 DEF Woken, OneReader
  <2>15. NeverFails'
    BY <2>1 DEF PipeInv, NeverFails, OneReader
  <2> QED
    BY <2>7, <2>10, <2>11, <2>13, <2>14, <2>15 DEF PipeInv
<1> QED
  BY <1>1, <1>2

\* fifo_put: the ring is not full, whether the writer has looked or was woken.
LEMMA PutByteKeeps ==
    ASSUME FifosAssumed, PipeInv, OneWriter, NEW t \in Tasks, pc[t] \in {"write", "txblocked"},
           ~P!fifo_full(ring), P!PutByte(t)
    PROVE  PipeInv'
<1>1. /\ sent' = sent + 1 /\ ring' = P!AfterPut(ring, sent + 1)
      /\ P!WakeOther(rxwaiter) /\ rxwaiter' = None
      /\ pc' = [pc EXCEPT ![t] = IF left[t] = 1 THEN "user" ELSE "write"]
      /\ UNCHANGED <<readers, current, txwaiter, received, failed>>
  BY DEF P!PutByte, P!Advance
<1>2. /\ ring \in Rings /\ received \in Seq(Int) /\ sent \in Nat
      /\ rxwaiter \in Tasks \cup {None} /\ txwaiter \in Tasks \cup {None} /\ None \notin Tasks
  BY DEF FifosAssumed, PipeInv, PipeType, Waiters
<1>3. /\ ring' \in Rings /\ Used(ring') = Used(ring) + 1
      /\ \A i \in 1 .. Used(ring) : ring'.buf[At(ring', i)] = ring.buf[At(ring, i)]
      /\ ring'.buf[At(ring', Used(ring'))] = sent + 1
  <2>1. sent + 1 \in Int
    BY <1>2
  <2> QED
    BY <1>1, <1>2, <2>1, PutFacts
<1>4. Used(ring) \in Nat
  <2>1. Used(ring) \in 0 .. Length - 1 /\ Length \in Nat
    BY <1>2, RingFacts DEF FifosAssumed
  <2> QED
    BY <2>1
<1>5. Numbered'
  <2>1. Len(received) + Used(ring) = sent /\ Len(received) \in Nat
    BY <1>2 DEF PipeInv, Numbered
  <2>2. Len(received) + Used(ring') = sent + 1
    BY <1>3, <1>4, <2>1
  <2>3. ASSUME NEW i \in 1 .. Used(ring')
        PROVE  ring'.buf[At(ring', i)] = Len(received) + i
    <3>1. CASE i = Used(ring')
      BY <1>3, <2>2, <3>1
    <3>2. CASE i # Used(ring')
      <4>1. i \in 1 .. Used(ring)
        BY <1>3, <1>4, <3>2
      <4>2. ring.buf[At(ring, i)] = Len(received) + i
        BY <4>1 DEF PipeInv, Numbered
      <4> QED
        BY <1>3, <4>1, <4>2
    <3> QED
      BY <3>1, <3>2
  <2> QED
    BY <1>1, <2>2, <2>3 DEF PipeInv, Numbered
<1>6. /\ state' \in [Tasks -> P!TaskState]
      /\ \A u \in Tasks : state'[u] = "BLOCKED" <=> u # rxwaiter /\ state[u] = "BLOCKED"
  BY <1>1, <1>2, WakeFacts
<1>7. /\ \A u \in Tasks : u # t => pc'[u] = pc[u]
      /\ pc'[t] \in {"user", "write"}
  BY <1>1 DEF PipeInv, PipeType
<1>8. PipeType'
  <2>1. pc' \in [Tasks -> Calls]
    BY <1>1 DEF PipeInv, PipeType, Calls
  <2>2. sent' \in Nat /\ received' \in Seq(Int)
    BY <1>1, <1>2
  <2> QED
    BY <1>1, <1>3, <1>6, <2>1, <2>2 DEF PipeInv, PipeType
<1>9. Callers'
  BY <1>1, <1>7 DEF PipeInv, Callers
<1>10. txwaiter = None
  BY DEF PipeInv, Waiters, P!WaitersSleep
<1>11. Waiters'
  BY <1>1, <1>2, <1>6, <1>10 DEF PipeInv, Waiters, P!WaitersSleep
<1>12. Woken'
  <2>1. ASSUME NEW u \in Tasks, pc'[u] = "txblocked"
        PROVE  FALSE
    <3>1. u # t /\ pc[u] = "txblocked"
      BY <1>7, <2>1
    <3>2. u \in Writers /\ t \in Writers
      BY <3>1 DEF PipeInv, Callers
    <3> QED
      BY <3>1, <3>2 DEF OneWriter
  <2>2. ~P!fifo_empty(ring')
    <3>1. Used(ring') # 0
      BY <1>3, <1>4
    <3> QED
      BY <1>3, <3>1, RingFacts
  <2> QED
    BY <2>1, <2>2 DEF Woken, OneReader
<1>13. NeverFails'
  BY <1>1 DEF PipeInv, NeverFails, OneReader
<1> QED
  BY <1>5, <1>8, <1>9, <1>11, <1>12, <1>13 DEF PipeInv

LEMMA TimerPreemptsKeeps ==
    ASSUME FifosAssumed, PipeInv, P!TimerPreempts
    PROVE  PipeInv'
<1>1. P!Dispatch(state) /\ UNCHANGED <<readers, ring, rxwaiter, txwaiter, pc, sent, received, failed>>
  BY DEF P!TimerPreempts
<1>2. /\ current' \in Tasks /\ state' \in [Tasks -> P!TaskState]
      /\ \A u \in Tasks : state'[u] = "BLOCKED" <=> state[u] = "BLOCKED"
  <2>1. current \in Tasks \cup {Boot} /\ state \in [Tasks -> P!TaskState] /\ state[Idle] # "BLOCKED"
    BY IdleIsAwake DEF PipeInv, PipeType
  <2> QED
    BY <1>1, <2>1, SwitchStep
<1>3. PipeType' /\ Numbered' /\ Callers'
  BY <1>1, <1>2 DEF PipeInv, PipeType, Numbered, Callers
<1>4. Waiters'
  BY <1>1, <1>2 DEF PipeInv, Waiters, P!WaitersSleep
<1>5. Woken' /\ NeverFails'
  BY <1>1 DEF PipeInv, Woken, NeverFails, OneReader
<1> QED
  BY <1>3, <1>4, <1>5 DEF PipeInv

LEMMA PipeSteps ==
    ASSUME FifosAssumed, OneWriter
    PROVE  PipeInv /\ [P!Next]_(P!vars) => PipeInv'
<1> SUFFICES ASSUME PipeInv, [P!Next]_(P!vars)
             PROVE  PipeInv'
  OBVIOUS
<1>1. CASE UNCHANGED P!vars
  <2>1. PipeType' /\ Numbered' /\ Callers'
    BY <1>1 DEF P!vars, PipeInv, PipeType, Numbered, Callers
  <2>2. Waiters' /\ Woken' /\ NeverFails'
    BY <1>1 DEF P!vars, PipeInv, Waiters, P!WaitersSleep, Woken, NeverFails, OneReader
  <2> QED
    BY <2>1, <2>2 DEF PipeInv
<1>2. ASSUME NEW t \in Tasks, NEW n, P!Read(t, n)
      PROVE  PipeInv'
  <2>1. t \in readers /\ P!Call(t, "read", n)
    BY <1>2 DEF P!Read
  <2> QED
    BY <2>1, CallKeeps
<1>3. ASSUME NEW t \in Tasks, NEW n, P!Write(t, n)
      PROVE  PipeInv'
  <2>1. t \in Writers /\ P!Call(t, "write", n)
    BY <1>3 DEF P!Write
  <2> QED
    BY <2>1, CallKeeps
<1>4. ASSUME NEW t \in Tasks, P!ReadByte(t)
      PROVE  PipeInv'
  BY <1>4, GetByteKeeps DEF P!ReadByte, P!Running
<1>5. ASSUME NEW t \in Tasks, P!ReadResume(t)
      PROVE  PipeInv'
  <2>1. pc[t] = "rxblocked" /\ state[t] = "RUNNING" /\ P!GetByte(t)
    BY <1>5 DEF P!ReadResume, P!Running
  <2>2. rxwaiter # t
    BY <2>1 DEF FifosAssumed, PipeInv, Waiters, P!WaitersSleep
  <2>3. P!fifo_empty(ring) => ~OneReader
    BY <2>1, <2>2 DEF PipeInv, Woken
  <2> QED
    BY <2>1, <2>3, GetByteKeeps
<1>6. ASSUME NEW t \in Tasks, P!WriteByte(t)
      PROVE  PipeInv'
  BY <1>6, PutByteKeeps DEF P!WriteByte, P!Running
<1>7. ASSUME NEW t \in Tasks, P!WriteResume(t)
      PROVE  PipeInv'
  <2>1. pc[t] = "txblocked" /\ state[t] = "RUNNING" /\ P!PutByte(t)
    BY <1>7 DEF P!WriteResume, P!Running
  <2>2. txwaiter # t
    BY <2>1 DEF FifosAssumed, PipeInv, Waiters, P!WaitersSleep
  <2>3. ~P!fifo_full(ring)
    BY <2>1, <2>2 DEF PipeInv, Woken
  <2> QED
    BY <2>1, <2>3, PutByteKeeps
<1>8. ASSUME NEW t \in Tasks, P!ReadBlocks(t) \/ P!WriteBlocks(t)
      PROVE  PipeInv'
  BY <1>8, ReadBlocksKeeps, WriteBlocksKeeps
<1> QED
  BY <1>1, <1>2, <1>3, <1>4, <1>5, <1>6, <1>7, <1>8, TimerPreemptsKeeps DEF P!Next

LEMMA NumberedLosesNothing ==
    ASSUME FifosAssumed, PipeInv
    PROVE  P!NothingLost
<1>1. received \in Seq(Int) /\ ring \in Rings /\ Length \in Nat /\ sent \in Nat
  BY DEF FifosAssumed, PipeInv, PipeType
<1>2. /\ Used(ring) \in 0 .. Length - 1
      /\ P!Contents(ring) = [i \in 1 .. Used(ring) |-> ring.buf[At(ring, i)]]
  BY <1>1, RingFacts
<1>3. PICK k \in Nat, n \in Nat : k = Len(received) /\ n = Used(ring)
  BY <1>1, <1>2
<1>4. k + n = sent /\ \A i \in 1 .. k : received[i] = i
  BY <1>3 DEF PipeInv, Numbered
<1>5. P!Contents(ring) = [i \in 1 .. n |-> k + i]
  BY <1>2, <1>3 DEF PipeInv, Numbered
<1>6. PICK c : c = P!Contents(ring)
  OBVIOUS
<1>7. c \in Seq(Int) /\ Len(c) = n
  BY <1>5, <1>6
<1>8. \A i \in 1 .. n : c[i] = k + i
  BY <1>5, <1>6
<1>9. received \o c \in Seq(Int) /\ Len(received \o c) = sent
  BY <1>1, <1>3, <1>4, <1>7
<1>10. \A i \in 1 .. sent : (received \o c)[i] = i
  <2> SUFFICES ASSUME NEW i \in 1 .. sent
               PROVE  (received \o c)[i] = i
    OBVIOUS
  <2>1. CASE i <= k
    BY <1>1, <1>3, <1>4, <1>7, <2>1
  <2>2. CASE ~ (i <= k)
    <3>1. i - k \in 1 .. n
      BY <1>4, <2>2
    <3>2. (received \o c)[i] = c[i - k]
      BY <1>1, <1>3, <1>4, <1>7, <2>2
    <3> QED
      BY <1>8, <3>1, <3>2
  <2> QED
    BY <2>1, <2>2
<1>11. received \o c = [i \in 1 .. sent |-> i]
  <2>1. PICK z : z = received \o c
    OBVIOUS
  <2>2. z \in Seq(Int) /\ Len(z) = sent
    BY <1>9, <2>1
  <2>3. z = [i \in 1 .. sent |-> z[i]]
    BY <2>2
  <2> QED
    BY <1>10, <2>1, <2>3
<1> QED
  BY <1>6, <1>11 DEF P!NothingLost

LEMMA OneReaderNeverFails ==
    ASSUME FifosAssumed, PipeInv, IsFiniteSet(Readers)
    PROVE  P!PairNeverFails
<1> SUFFICES ASSUME Cardinality(readers) = 1
             PROVE  failed = 0
  BY DEF P!PairNeverFails, P!Cardinality, P!IsFiniteSet, Cardinality, IsFiniteSet
<1>1. IsFiniteSet(readers)
  BY FS_Subset DEF PipeInv, PipeType
<1>2. PICK r : readers = {r}
  BY <1>1, FS_Singleton
<1> QED
  BY <1>2 DEF PipeInv, NeverFails, OneReader

-----------------------------------------------------------------------------
\* The invariant of pipe_read and pipe_write, for any ring and any readers.
THEOREM PipeInvariant ==
    ASSUME FifosAssumed, OneWriter
    PROVE  P!Spec => []PipeInv
<1>1. P!Init => PipeInv
  BY PipeStarts
<1>2. PipeInv /\ [P!Next]_(P!vars) => PipeInv'
  BY PipeSteps
<1> QED
  BY <1>1, <1>2, PTL DEF P!Spec

\* With one writer the bytes read are those written, in order, and the rest is
\* in the ring, however short it is and however the calls overlap.
THEOREM PipeNothingLost ==
    ASSUME FifosAssumed, OneWriter
    PROVE  P!Spec => []P!NothingLost
BY NumberedLosesNothing, PipeInvariant, PTL

\* Whoever sleeps is the waiter of the end it is at, and has nothing to do.
THEOREM PipeWaitersSleep ==
    ASSUME FifosAssumed, OneWriter
    PROVE  P!Spec => []P!WaitersSleep
<1>1. PipeInv => P!WaitersSleep
  BY DEF PipeInv, Waiters
<1> QED
  BY <1>1, PipeInvariant, PTL

\* With one reader and one writer no assertion of pipe.c and fifo.c fails.
THEOREM PipePairNeverFails ==
    ASSUME FifosAssumed, OneWriter, IsFiniteSet(Readers)
    PROVE  P!Spec => []P!PairNeverFails
BY OneReaderNeverFails, PipeInvariant, PTL

-----------------------------------------------------------------------------
(* The reading side of the two drivers, CharDevice.  The lemmas are about  *)
(* values, so that they serve the two sides of a port, and states before   *)
(* and after a step.                                                       *)


Places == {"user", "reading", "rlocking", "writing", "wlocking"}

Locks == [holder : Tasks \cup {None}, waiters : Seq(Tasks)]

Blocked(st) == {t \in Tasks : st[t] = "BLOCKED"}

\* The tasks and where they are: nobody sleeps in user mode, the idle task
\* makes no calls.
World(who, st, p) ==
    /\ who \in Tasks \cup {Boot}
    /\ st \in [Tasks -> P!TaskState]
    /\ p \in [Tasks -> Places]
    /\ p[Idle] = "user"
    /\ \A t \in Blocked(st) : p[t] # "user"

\* One side of a device: whoever is inside has the lock and sleeps only as the
\* waiter, and whoever is queued sleeps in mutex_lock, once.
Side(B, p, lk, waiter, inside, queued) ==
    /\ lk \in Locks /\ waiter \in Tasks \cup {None}
    /\ \A t \in Tasks : p[t] = inside => lk.holder = t /\ (t \in B => waiter = t)
    /\ waiter # None => waiter \in B /\ p[waiter] = inside
    /\ \A i \in 1 .. Len(lk.waiters) : lk.waiters[i] \in B /\ p[lk.waiters[i]] = queued
    /\ \A i, j \in 1 .. Len(lk.waiters) : lk.waiters[i] = lk.waiters[j] => i = j

\* What a step of one side leaves alone: who is on the other.
Apart(B, p, C, q, mine) ==
    \A u \in Tasks : p[u] \notin mine \/ q[u] \notin mine => q[u] = p[u] /\ (u \in C <=> u \in B)

SidePlaces == {<<"reading", "rlocking">>, <<"writing", "wlocking">>}

\* A free lock is taken.
LEMMA SideEnters ==
    ASSUME None \notin Tasks, NEW t \in Tasks, NEW B, t \notin B,
           NEW p \in [Tasks -> Places], NEW q, NEW lk, NEW lk2, NEW waiter,
           NEW inside, NEW queued, <<inside, queued>> \in SidePlaces,
           Side(B, p, lk, waiter, inside, queued),
           lk.holder = None, lk2 = D!Acquired(lk, t), q = [p EXCEPT ![t] = inside]
    PROVE  Side(B, q, lk2, waiter, inside, queued)
<1>1. /\ lk2 \in Locks /\ lk2.holder = t /\ lk2.waiters = lk.waiters
  BY DEF Side, Locks, D!Acquired
<1>2. \A u \in Tasks : q[u] = IF u = t THEN inside ELSE p[u]
  OBVIOUS
<1>3. \A u \in Tasks : p[u] # inside
  BY DEF Side
<1>4. waiter = None
  BY <1>3 DEF Side
<1>5. \A i \in 1 .. Len(lk.waiters) : lk.waiters[i] \in Tasks /\ lk.waiters[i] # t
  BY DEF Side, Locks
<1>6. \A u \in Tasks : q[u] = inside => lk2.holder = u /\ (u \in B => waiter = u)
  BY <1>1, <1>2, <1>3
<1>7. \A i \in 1 .. Len(lk2.waiters) : lk2.waiters[i] \in B /\ q[lk2.waiters[i]] = queued
  BY <1>1, <1>2, <1>5 DEF Side
<1> QED
  BY <1>1, <1>4, <1>6, <1>7 DEF Side

\* A lock that is taken is waited for.
LEMMA SideQueues ==
    ASSUME None \notin Tasks, NEW t \in Tasks, NEW B, t \notin B,
           NEW p \in [Tasks -> Places], NEW q, NEW lk, NEW lk2, NEW waiter,
           NEW inside, NEW queued, <<inside, queued>> \in SidePlaces,
           Side(B, p, lk, waiter, inside, queued), p[t] # inside,
           lk.holder # None, lk2 = D!Acquired(lk, t), q = [p EXCEPT ![t] = queued]
    PROVE  Side(B \cup {t}, q, lk2, waiter, inside, queued)
<1>1. lk \in Locks /\ lk.waiters \in Seq(Tasks)
  BY DEF Side, Locks
<1>2. PICK w \in Seq(Tasks) : w = <<t>> \o lk.waiters
  <2>1. <<t>> \in Seq(Tasks)
    OBVIOUS
  <2>2. <<t>> \o lk.waiters \in Seq(Tasks)
    BY <1>1, <2>1
  <2> QED
    BY <2>2
<1>3. /\ Len(w) = Len(lk.waiters) + 1 /\ w[1] = t /\ Len(lk.waiters) \in Nat
      /\ \A i \in 2 .. Len(w) : w[i] = lk.waiters[i - 1] /\ i - 1 \in 1 .. Len(lk.waiters)
  BY <1>1, <1>2
<1>4. lk2 \in Locks /\ lk2.holder = lk.holder /\ lk2.waiters = w
  BY <1>1, <1>2 DEF Locks, D!Acquired
<1>5. \A u \in Tasks : q[u] = IF u = t THEN queued ELSE p[u]
  OBVIOUS
<1>6. inside # queued
  BY DEF SidePlaces
<1>7. \A i \in 1 .. Len(lk.waiters) : lk.waiters[i] \in Tasks /\ lk.waiters[i] # t
  BY <1>1 DEF Side
<1>8. \A i \in 1 .. Len(w) : w[i] \in B \cup {t} /\ q[w[i]] = queued
  <2> SUFFICES ASSUME NEW i \in 1 .. Len(w)
               PROVE  w[i] \in B \cup {t} /\ q[w[i]] = queued
    OBVIOUS
  <2>1. CASE i = 1
    BY <1>3, <1>5, <2>1
  <2>2. CASE i # 1
    <3>1. w[i] = lk.waiters[i - 1] /\ i - 1 \in 1 .. Len(lk.waiters)
      BY <1>3, <2>2
    <3> QED
      BY <1>5, <1>7, <3>1 DEF Side
  <2> QED
    BY <2>1, <2>2
<1>9. \A i, j \in 1 .. Len(w) : w[i] = w[j] => i = j
  <2> SUFFICES ASSUME NEW i \in 1 .. Len(w), NEW j \in 1 .. Len(w), w[i] = w[j]
               PROVE  i = j
    OBVIOUS
  <2>1. CASE i = 1 /\ j = 1
    BY <2>1
  <2>2. CASE i # 1 /\ j # 1
    <3>1. /\ w[i] = lk.waiters[i - 1] /\ i - 1 \in 1 .. Len(lk.waiters)
          /\ w[j] = lk.waiters[j - 1] /\ j - 1 \in 1 .. Len(lk.waiters)
      BY <1>3, <2>2
    <3>2. i - 1 = j - 1
      BY <3>1 DEF Side
    <3> QED
      BY <3>2
  <2>3. \A k \in 1 .. Len(w) : k # 1 => w[k] # t
    <3> SUFFICES ASSUME NEW k \in 1 .. Len(w), k # 1
                 PROVE  w[k] # t
      OBVIOUS
    <3>1. w[k] = lk.waiters[k - 1] /\ k - 1 \in 1 .. Len(lk.waiters)
      BY <1>3
    <3> QED
      BY <1>7, <3>1
  <2> QED
    BY <1>3, <2>1, <2>2, <2>3
<1>10. \A u \in Tasks : q[u] = inside => lk2.holder = u /\ (u \in B \cup {t} => waiter = u)
  BY <1>4, <1>5, <1>6 DEF Side
<1>11. waiter \in Tasks \cup {None} /\ (waiter # None => waiter \in B \cup {t} /\ q[waiter] = inside)
  BY <1>5 DEF Side
<1> QED
  BY <1>4, <1>8, <1>9, <1>10, <1>11 DEF Side

\* The one inside sleeps.
LEMMA SideBlocks ==
    ASSUME None \notin Tasks, NEW t \in Tasks, NEW B, NEW p \in [Tasks -> Places],
           NEW lk, NEW waiter, NEW inside, NEW queued,
           Side(B, p, lk, waiter, inside, queued), p[t] = inside
    PROVE  Side(B \cup {t}, p, lk, t, inside, queued)
BY DEF Side

\* The waiter is woken.
LEMMA SideWakes ==
    ASSUME None \notin Tasks, NEW B, NEW p \in [Tasks -> Places], NEW lk, NEW waiter,
           NEW inside, NEW queued, <<inside, queued>> \in SidePlaces,
           Side(B, p, lk, waiter, inside, queued)
    PROVE  Side(B \ {waiter}, p, lk, None, inside, queued)
<1>1. inside # queued
  BY DEF SidePlaces
<1>2. \A t \in Tasks : p[t] = inside => lk.holder = t /\ (t \in B \ {waiter} => None = t)
  BY DEF Side
<1>3. \A i \in 1 .. Len(lk.waiters) : lk.waiters[i] \in B \ {waiter} /\ p[lk.waiters[i]] = queued
  <2> SUFFICES ASSUME NEW i \in 1 .. Len(lk.waiters)
               PROVE  lk.waiters[i] \in B \ {waiter} /\ p[lk.waiters[i]] = queued
    OBVIOUS
  <2>1. lk.waiters[i] \in B /\ p[lk.waiters[i]] = queued
    BY DEF Side
  <2>2. lk.waiters[i] \in Tasks
    BY DEF Side, Locks
  <2>3. waiter # None => p[waiter] = inside
    BY DEF Side
  <2> QED
    BY <1>1, <2>1, <2>2, <2>3
<1> QED
  BY <1>2, <1>3 DEF Side

\* Without the task that has waited longest for the lock.
WithoutLongest(B, lk) ==
    IF lk.waiters = << >> THEN B ELSE B \ {lk.waiters[Len(lk.waiters)]}

\* The one inside leaves, and the one that has waited longest is woken.
LEMMA SideLeaves ==
    ASSUME None \notin Tasks, NEW t \in Tasks, NEW B, t \notin B,
           NEW p \in [Tasks -> Places], NEW q, NEW C, NEW lk, NEW lk2, NEW waiter,
           NEW inside, NEW queued, <<inside, queued>> \in SidePlaces,
           Side(B, p, lk, waiter, inside, queued), p[t] = inside,
           q = [p EXCEPT ![t] = "user"], lk2 = D!Released(lk),
           C = WithoutLongest(B, lk)
    PROVE  Side(C, q, lk2, waiter, inside, queued)
<1>1. lk \in Locks /\ lk.waiters \in Seq(Tasks) /\ lk.holder = t
  BY DEF Side, Locks
<1>2. inside # queued /\ inside # "user" /\ queued # "user"
  BY DEF SidePlaces
<1>3. waiter = None
  BY <1>1 DEF Side
<1>4. \A u \in Tasks : q[u] # inside
  BY <1>1, <1>2 DEF Side
<1>5. \A u \in Tasks : u # t => q[u] = p[u]
  OBVIOUS
<1>6. \A i \in 1 .. Len(lk.waiters) : lk.waiters[i] \in Tasks /\ lk.waiters[i] # t
  BY <1>1, <1>2 DEF Side
<1>7. CASE lk.waiters = << >>
  <2>1. lk2 \in Locks /\ lk2.waiters = << >> /\ Len(lk2.waiters) = 0
    BY <1>7 DEF Locks, D!Released
  <2> QED
    BY <1>3, <1>4, <2>1 DEF Side
<1>8. CASE lk.waiters # << >>
  <2>1. PICK w \in Seq(Tasks), n \in Nat : w = lk.waiters /\ n = Len(w) /\ n # 0
    <3>1. Len(lk.waiters) \in Nat /\ Len(lk.waiters) # 0
      BY <1>1, <1>8
    <3> QED
      BY <1>1, <3>1
  <2>2. PICK v \in Seq(Tasks) : v = SubSeq(w, 1, n - 1) /\ Len(v) = n - 1
                                /\ \A i \in 1 .. n - 1 : v[i] = w[i]
    <3>1. n - 1 \in Nat /\ n - 1 <= Len(w) /\ 1 \in 1 .. Len(w) + 1
      BY <2>1
    <3>2. /\ SubSeq(w, 1, n - 1) \in Seq(Tasks)
          /\ Len(SubSeq(w, 1, n - 1)) = n - 1
          /\ \A i \in 1 .. n - 1 : SubSeq(w, 1, n - 1)[i] = w[i]
      BY <2>1, <3>1
    <3> QED
      BY <3>2
  <2>3. lk2 \in Locks /\ lk2.waiters = v
    BY <1>8, <2>1, <2>2 DEF Locks, D!Released, D!Front
  <2>4. C = B \ {w[n]}
    BY <1>8, <2>1 DEF WithoutLongest
  <2>5. \A i \in 1 .. n - 1 : v[i] \in C /\ q[v[i]] = queued
    <3> SUFFICES ASSUME NEW i \in 1 .. n - 1
                 PROVE  v[i] \in C /\ q[v[i]] = queued
      OBVIOUS
    <3>1. i \in 1 .. n /\ n \in 1 .. n /\ i # n
      BY <2>1
    <3>2. w[i] \in B /\ p[w[i]] = queued /\ w[i] # w[n] /\ w[i] \in Tasks /\ w[i] # t
      BY <1>6, <2>1, <3>1 DEF Side
    <3> QED
      BY <1>5, <2>2, <2>4, <3>2
  <2>6. \A i, j \in 1 .. n - 1 : v[i] = v[j] => i = j
    <3>1. \A i, j \in 1 .. n : w[i] = w[j] => i = j
      BY <2>1 DEF Side
    <3>2. \A i \in 1 .. n - 1 : i \in 1 .. n
      BY <2>1
    <3> QED
      BY <2>2, <3>1, <3>2
  <2> QED
    BY <1>3, <1>4, <2>2, <2>3, <2>5, <2>6 DEF Side
<1> QED
  BY <1>7, <1>8

\* A step on the other side.
LEMMA SideStays ==
    ASSUME NEW B, NEW C, NEW p, NEW q, NEW lk, NEW waiter, NEW mine,
           NEW inside, NEW queued, inside \notin mine, queued \notin mine,
           Side(B, p, lk, waiter, inside, queued), Apart(B, p, C, q, mine),
           C \subseteq Tasks, B \subseteq Tasks
    PROVE  Side(C, q, lk, waiter, inside, queued)
<1>1. \A t \in Tasks : q[t] = inside => lk.holder = t /\ (t \in C => waiter = t)
  BY DEF Side, Apart
<1>2. waiter \in Tasks \cup {None} /\ (waiter # None => waiter \in C /\ q[waiter] = inside)
  BY DEF Side, Apart
<1>3. \A i \in 1 .. Len(lk.waiters) : lk.waiters[i] \in C /\ q[lk.waiters[i]] = queued
  BY DEF Side, Apart
<1> QED
  BY <1>1, <1>2, <1>3 DEF Side

\* schedule() wakes nobody who sleeps.
LEMMA DispatchKeepsWorld ==
    ASSUME Idle \in Tasks, NEW st, NEW p, World(current, st, p), D!Dispatch(st)
    PROVE  World(current', state', p) /\ Blocked(state') = Blocked(st)
<1>1. PICK next \in D!Eligible(st) : current' = next /\ state' = D!Switched(st, next)
  BY DEF D!Dispatch
<1>2. st \in [Tasks -> P!TaskState] /\ st[Idle] # "BLOCKED"
  BY DEF World, Blocked
<1>3. next \in Tasks /\ st[next] # "BLOCKED"
  BY <1>2 DEF D!Eligible, D!Ready
<1>4. state' \in [Tasks -> P!TaskState]
  BY <1>1, <1>2 DEF D!Switched, P!TaskState
<1>5. \A t \in Tasks : state'[t] = IF t = next THEN "RUNNING"
                                   ELSE IF t = current /\ st[t] = "RUNNING" THEN "READY"
                                   ELSE st[t]
  BY <1>1 DEF D!Switched
<1>6. Blocked(state') = Blocked(st)
  BY <1>3, <1>5 DEF Blocked
<1> QED
  BY <1>1, <1>3, <1>4, <1>6 DEF World

\* lock_acquire, on either side.
LEMMA AcquireStep ==
    ASSUME None \notin Tasks, Idle \in Tasks, World(current, state, pc),
           NEW t \in Tasks \ {Idle}, state[t] = "RUNNING",
           NEW lk, NEW lk2, NEW waiter, NEW inside, NEW queued, <<inside, queued>> \in SidePlaces,
           Side(Blocked(state), pc, lk, waiter, inside, queued),
           pc[t] \in {"user", queued}, D!Acquire(lk, t, inside, queued), lk2 = D!Acquired(lk, t)
    PROVE  /\ World(current', state', pc')
           /\ Side(Blocked(state'), pc', lk2, waiter, inside, queued)
           /\ Apart(Blocked(state), pc, Blocked(state'), pc', {"user", inside, queued})
<1>1. /\ state \in [Tasks -> P!TaskState] /\ pc \in [Tasks -> Places]
      /\ t \notin Blocked(state) /\ pc[t] # inside
  BY DEF World, Blocked, SidePlaces
<1>2. inside \in Places \ {"user"} /\ queued \in Places \ {"user"}
  BY DEF SidePlaces, Places
<1>3. CASE lk.holder = None
  <2>1. pc' = [pc EXCEPT ![t] = inside] /\ UNCHANGED <<current, state>>
    BY <1>3 DEF D!Acquire
  <2>2. World(current', state', pc')
    BY <1>1, <1>2, <2>1 DEF World
  <2>3. Side(Blocked(state), pc', lk2, waiter, inside, queued)
    <3>1. PICK q : q = pc'
      OBVIOUS
    <3>2. Side(Blocked(state), q, lk2, waiter, inside, queued)
      BY <1>1, <1>3, <2>1, <3>1, SideEnters
    <3> QED
      BY <3>1, <3>2
  <2>4. Blocked(state') = Blocked(state)
    BY <2>1
  <2>5. Apart(Blocked(state), pc, Blocked(state'), pc', {"user", inside, queued})
    BY <1>1, <2>1, <2>4 DEF Apart
  <2> QED
    BY <2>2, <2>3, <2>4, <2>5
<1>4. CASE lk.holder # None
  <2>1. pc' = [pc EXCEPT ![t] = queued] /\ D!Dispatch(D!Mark(t, "BLOCKED"))
    BY <1>4 DEF D!Acquire
  <2>2. PICK q, st : q = pc' /\ st = D!Mark(t, "BLOCKED")
    OBVIOUS
  <2>3. st \in [Tasks -> P!TaskState] /\ Blocked(st) = Blocked(state) \cup {t}
    BY <1>1, <2>2 DEF D!Mark, Blocked, P!TaskState, P!Stopped
  <2>4. q \in [Tasks -> Places] /\ \A u \in Tasks : q[u] = IF u = t THEN queued ELSE pc[u]
    BY <1>1, <1>2, <2>1, <2>2
  <2>5. World(current, st, q)
    BY <1>2, <2>3, <2>4 DEF World, Blocked
  <2>6. World(current', state', q) /\ Blocked(state') = Blocked(state) \cup {t}
    BY <2>1, <2>2, <2>3, <2>5, DispatchKeepsWorld
  <2>7. Side(Blocked(state) \cup {t}, q, lk2, waiter, inside, queued)
    BY <1>1, <1>4, <2>1, <2>2, SideQueues
  <2>8. Apart(Blocked(state), pc, Blocked(state) \cup {t}, q, {"user", inside, queued})
    BY <2>4 DEF Apart
  <2> QED
    BY <2>2, <2>6, <2>7, <2>8
<1> QED
  BY <1>3, <1>4

\* task_block of the one inside.
LEMMA BlockStep ==
    ASSUME None \notin Tasks, Idle \in Tasks, World(current, state, pc),
           NEW t \in Tasks \ {Idle},
           NEW lk, NEW waiter, NEW inside, NEW queued, <<inside, queued>> \in SidePlaces,
           Side(Blocked(state), pc, lk, waiter, inside, queued),
           pc[t] = inside, D!Dispatch(D!Mark(t, "BLOCKED")), pc' = pc
    PROVE  /\ World(current', state', pc')
           /\ Side(Blocked(state'), pc', lk, t, inside, queued)
           /\ Apart(Blocked(state), pc, Blocked(state'), pc', {"user", inside, queued})
<1>1. state \in [Tasks -> P!TaskState] /\ pc \in [Tasks -> Places]
  BY DEF World
<1>2. inside # "user"
  BY DEF SidePlaces
<1>3. PICK st : st = D!Mark(t, "BLOCKED")
  OBVIOUS
<1>4. st \in [Tasks -> P!TaskState] /\ Blocked(st) = Blocked(state) \cup {t}
  BY <1>1, <1>3 DEF D!Mark, Blocked, P!TaskState, P!Stopped
<1>5. World(current, st, pc)
  BY <1>2, <1>4 DEF World
<1>6. World(current', state', pc) /\ Blocked(state') = Blocked(state) \cup {t}
  BY <1>3, <1>4, <1>5, DispatchKeepsWorld
<1>7. Side(Blocked(state) \cup {t}, pc, lk, t, inside, queued)
  BY <1>1, SideBlocks
<1>8. Apart(Blocked(state), pc, Blocked(state) \cup {t}, pc, {"user", inside, queued})
  BY DEF Apart
<1> QED
  BY <1>6, <1>7, <1>8

\* The call returns: lock_release.
LEMMA LeaveStep ==
    ASSUME None \notin Tasks, Idle \in Tasks, World(current, state, pc),
           NEW t \in Tasks \ {Idle}, state[t] = "RUNNING",
           NEW lk, NEW lk2, NEW waiter, NEW inside, NEW queued, <<inside, queued>> \in SidePlaces,
           Side(Blocked(state), pc, lk, waiter, inside, queued),
           pc[t] = inside, pc' = [pc EXCEPT ![t] = "user"], D!Release(lk), lk2 = D!Released(lk)
    PROVE  /\ World(current', state', pc')
           /\ Side(Blocked(state'), pc', lk2, waiter, inside, queued)
           /\ Apart(Blocked(state), pc, Blocked(state'), pc', {"user", inside, queued})
<1>1. /\ state \in [Tasks -> P!TaskState] /\ pc \in [Tasks -> Places]
      /\ t \notin Blocked(state)
  BY DEF World, Blocked
<1>2. PICK q : q = pc'
  OBVIOUS
<1>3. q \in [Tasks -> Places] /\ \A u \in Tasks : q[u] = IF u = t THEN "user" ELSE pc[u]
  BY <1>1, <1>2 DEF Places
<1>4. PICK C : C = WithoutLongest(Blocked(state), lk)
  OBVIOUS
<1>5. Side(C, q, lk2, waiter, inside, queued)
  <2>1. q = [pc EXCEPT ![t] = "user"]
    BY <1>2
  <2>2. t \in Tasks /\ t \notin Blocked(state) /\ pc \in [Tasks -> Places]
    BY <1>1
  <2> HIDE <1>2
  <2> QED
    BY <1>4, <2>1, <2>2, SideLeaves
<1>6. World(current', state', q) /\ Blocked(state') = C
  <2>1. CASE lk.waiters = << >>
    <3>1. UNCHANGED <<current, state>>
      BY <2>1 DEF D!Release
    <3> QED
      BY <1>1, <1>3, <1>4, <2>1, <3>1 DEF World, Blocked, WithoutLongest
  <2>2. CASE lk.waiters # << >>
    <3>1. PICK st : st = D!Wake(state, {lk.waiters[Len(lk.waiters)]})
      OBVIOUS
    <3>2. D!Dispatch(st)
      BY <2>2, <3>1 DEF D!Release, D!Last
    <3>3. st \in [Tasks -> P!TaskState] /\ Blocked(st) = C
      BY <1>1, <1>4, <2>2, <3>1 DEF D!Wake, P!TaskState, Blocked, WithoutLongest
    <3>4. World(current, st, q)
      <4>1. C \subseteq Blocked(state)
        BY <1>4 DEF WithoutLongest
      <4> QED
        BY <1>1, <1>3, <3>3, <4>1 DEF World, Blocked
    <3> QED
      BY <3>2, <3>3, <3>4, DispatchKeepsWorld
  <2> QED
    BY <2>1, <2>2
<1>7. Apart(Blocked(state), pc, C, q, {"user", inside, queued})
  <2>1. lk.waiters # << >> => /\ lk.waiters[Len(lk.waiters)] \in Tasks
                             /\ pc[lk.waiters[Len(lk.waiters)]] = queued
    <3>1. lk.waiters \in Seq(Tasks)
      BY DEF Side, Locks
    <3>2. lk.waiters # << >> => Len(lk.waiters) \in 1 .. Len(lk.waiters)
      BY <3>1
    <3> QED
      BY <3>1, <3>2 DEF Side
  <2>2. inside # queued
    BY DEF SidePlaces
  <2> QED
    BY <1>3, <1>4, <2>1, <2>2 DEF Apart, WithoutLongest
<1> QED
  BY <1>2, <1>5, <1>6, <1>7

-----------------------------------------------------------------------------
(* What is kept of the bytes: those that were read and those in the ring.  *)

Kept(got, f) ==
    [i \in 1 .. Len(got) + Used(f) |->
        IF i <= Len(got) THEN got[i] ELSE f.buf[At(f, i - Len(got))]]

\* n bytes of 1 .. last in order, and each that is missing was pushed out by as
\* many as the ring holds.
InOrder(k, n, last) ==
    /\ n \in Nat /\ last \in Nat
    /\ \A i \in 1 .. n : k[i] \in 1 .. last
    /\ \A i, j \in 1 .. n : i <= j => k[j] - k[i] >= j - i
    /\ \A b \in 1 .. last : (\E i \in 1 .. n : k[i] = b) \/ last >= b + Length - 1

KeptInOrder(got, f, last) == InOrder(Kept(got, f), Len(got) + Used(f), last)

\* The next byte behind the others.
LEMMA InOrderAppends ==
    ASSUME FifosAssumed, NEW k, NEW h, NEW n, NEW m, NEW last, InOrder(k, n, last), m = n + 1,
           \A i \in 1 .. n : h[i] = k[i], h[m] = last + 1
    PROVE  InOrder(h, m, last + 1)
<1>1. n \in Nat /\ last \in Nat /\ m \in Nat /\ Length \in Nat /\ Length > 1
  BY DEF FifosAssumed, InOrder
<1>2. \A i \in 1 .. n : h[i] = k[i] /\ h[i] \in 1 .. last
  BY DEF InOrder
<1>3. \A i \in 1 .. m : h[i] \in 1 .. last + 1
  <2> SUFFICES ASSUME NEW i \in 1 .. m PROVE h[i] \in 1 .. last + 1
    OBVIOUS
  <2>1. CASE i = m
    BY <1>1, <2>1
  <2>2. CASE i # m
    <3>1. i \in 1 .. n
      BY <1>1, <2>2
    <3> QED
      BY <1>1, <1>2, <3>1
  <2> QED
    BY <2>1, <2>2
<1>4. \A i, j \in 1 .. m : i <= j => h[j] - h[i] >= j - i
  <2> SUFFICES ASSUME NEW i \in 1 .. m, NEW j \in 1 .. m, i <= j
               PROVE  h[j] - h[i] >= j - i
    OBVIOUS
  <2>1. CASE j # m
    <3>1. i \in 1 .. n /\ j \in 1 .. n
      BY <1>1, <2>1
    <3> QED
      BY <1>2, <3>1 DEF InOrder
  <2>2. CASE j = m /\ i = m
    BY <1>1, <1>3, <2>2
  <2>3. CASE j = m /\ i # m
    <3>1. i \in 1 .. n /\ n \in 1 .. n
      BY <1>1, <2>3
    <3>2. i <= n /\ h[n] - h[i] >= n - i /\ h[n] \in 1 .. last /\ h[i] \in 1 .. last
      BY <1>1, <1>2, <3>1 DEF InOrder
    <3> QED
      BY <1>1, <2>3, <3>2
  <2> QED
    BY <2>1, <2>2, <2>3
<1>5. \A b \in 1 .. last + 1 : (\E i \in 1 .. m : h[i] = b) \/ last + 1 >= b + Length - 1
  <2> SUFFICES ASSUME NEW b \in 1 .. last + 1
               PROVE  (\E i \in 1 .. m : h[i] = b) \/ last + 1 >= b + Length - 1
    OBVIOUS
  <2>1. CASE b = last + 1
    <3>1. m \in 1 .. m
      BY <1>1
    <3> QED
      BY <2>1, <3>1
  <2>2. CASE b # last + 1
    <3>1. b \in 1 .. last
      BY <1>1, <2>2
    <3>2. CASE \E i \in 1 .. n : k[i] = b
      <4>1. PICK i \in 1 .. n : k[i] = b
        BY <3>2
      <4>2. i \in 1 .. m /\ h[i] = b
        BY <1>1, <1>2, <4>1
      <4> QED
        BY <4>2
    <3>3. CASE last >= b + Length - 1
      BY <1>1, <3>1, <3>3
    <3> QED
      BY <3>1, <3>2, <3>3 DEF InOrder
  <2> QED
    BY <2>1, <2>2
<1> QED
  BY <1>1, <1>3, <1>4, <1>5 DEF InOrder

\* A byte followed by Length - 2 others is pushed out by the next one.
LEMMA InOrderDrops ==
    ASSUME FifosAssumed, NEW k, NEW h, NEW n, NEW r \in Nat, NEW last, InOrder(k, n, last),
           n = r + Length - 1,
           \A i \in 1 .. r : h[i] = k[i],
           \A i \in r + 1 .. n - 1 : h[i] = k[i + 1],
           h[n] = last + 1
    PROVE  InOrder(h, n, last + 1)
<1>1. n \in Nat /\ last \in Nat /\ Length \in Nat /\ Length > 1 /\ r + 1 \in 1 .. n /\ n \in 1 .. n
  BY DEF FifosAssumed, InOrder
<1>2. \A i \in 1 .. n : k[i] \in 1 .. last
  BY DEF InOrder
<1>3. ASSUME NEW i \in 1 .. n, i # n
      PROVE  \E s \in 1 .. n : h[i] = k[s] /\ (IF i <= r THEN s = i ELSE s = i + 1)
  <2>1. CASE i <= r
    <3>1. i \in 1 .. r
      BY <2>1
    <3> QED
      BY <2>1, <3>1
  <2>2. CASE ~ (i <= r)
    <3>1. i \in r + 1 .. n - 1 /\ i + 1 \in 1 .. n
      BY <1>1, <1>3, <2>2
    <3> QED
      BY <2>2, <3>1
  <2> QED
    BY <2>1, <2>2
<1>4. \A i \in 1 .. n : h[i] \in 1 .. last + 1 /\ (i # n => h[i] \in 1 .. last)
  <2> SUFFICES ASSUME NEW i \in 1 .. n
               PROVE  h[i] \in 1 .. last + 1 /\ (i # n => h[i] \in 1 .. last)
    OBVIOUS
  <2>1. CASE i = n
    BY <1>1, <2>1
  <2>2. CASE i # n
    <3>1. PICK s \in 1 .. n : h[i] = k[s]
      BY <1>3, <2>2
    <3> QED
      BY <1>1, <1>2, <3>1
  <2> QED
    BY <2>1, <2>2
<1>5. \A i, j \in 1 .. n : i <= j => h[j] - h[i] >= j - i
  <2> SUFFICES ASSUME NEW i \in 1 .. n, NEW j \in 1 .. n, i <= j
               PROVE  h[j] - h[i] >= j - i
    OBVIOUS
  <2>1. CASE i = n
    <3>1. i = j
      BY <1>1, <2>1
    <3> QED
      BY <1>4, <3>1
  <2>2. CASE i # n /\ j # n
    <3>1. PICK s \in 1 .. n : h[i] = k[s] /\ (IF i <= r THEN s = i ELSE s = i + 1)
      BY <1>3, <2>2
    <3>2. PICK u \in 1 .. n : h[j] = k[u] /\ (IF j <= r THEN u = j ELSE u = j + 1)
      BY <1>3, <2>2
    <3>3. s <= u /\ u - s >= j - i
      BY <3>1, <3>2
    <3>4. k[u] - k[s] >= u - s /\ k[u] \in Int /\ k[s] \in Int
      BY <1>2, <3>3 DEF InOrder
    <3> QED
      BY <3>1, <3>2, <3>3, <3>4
  <2>3. CASE i # n /\ j = n
    <3>1. PICK s \in 1 .. n : h[i] = k[s] /\ (IF i <= r THEN s = i ELSE s = i + 1)
      BY <1>3, <2>3
    <3>2. k[n] - k[s] >= n - s /\ k[n] \in 1 .. last /\ k[s] \in 1 .. last /\ s >= i
      BY <1>1, <1>2, <3>1 DEF InOrder
    <3>3. s <= n
      OBVIOUS
    <3>4. CASE i <= r
      BY <1>1, <2>3, <3>1, <3>2, <3>4
    <3>5. CASE ~ (i <= r)
      BY <1>1, <2>3, <3>1, <3>2, <3>3, <3>5
    <3> QED
      BY <3>4, <3>5
  <2> QED
    BY <2>1, <2>2, <2>3
<1>6. \A b \in 1 .. last + 1 : (\E i \in 1 .. n : h[i] = b) \/ last + 1 >= b + Length - 1
  <2> SUFFICES ASSUME NEW b \in 1 .. last + 1
               PROVE  (\E i \in 1 .. n : h[i] = b) \/ last + 1 >= b + Length - 1
    OBVIOUS
  <2>1. CASE b = last + 1
    BY <1>1, <2>1
  <2>2. CASE b # last + 1
    <3>1. b \in 1 .. last
      BY <1>1, <2>2
    <3>2. CASE \E i \in 1 .. n : k[i] = b
      <4>1. PICK i \in 1 .. n : k[i] = b
        BY <3>2
      <4>2. CASE i <= r
        <5>1. i \in 1 .. r
          BY <4>2
        <5> QED
          BY <4>1, <5>1
      <4>3. CASE i = r + 1
        <5>1. k[n] - k[i] >= n - i /\ k[n] \in 1 .. last
          BY <1>1, <1>2, <4>3 DEF InOrder
        <5> QED
          BY <1>1, <4>1, <4>3, <5>1
      <4>4. CASE i > r + 1
        <5>1. i - 1 \in r + 1 .. n - 1 /\ i - 1 \in 1 .. n /\ (i - 1) + 1 = i
          BY <1>1, <4>4
        <5>2. h[i - 1] = k[(i - 1) + 1]
          BY <5>1
        <5> QED
          BY <4>1, <5>1, <5>2
      <4> QED
        BY <1>1, <4>2, <4>3, <4>4
    <3>3. CASE last >= b + Length - 1
      BY <1>1, <3>1, <3>3
    <3> QED
      BY <3>1, <3>2, <3>3 DEF InOrder
  <2> QED
    BY <2>1, <2>2
<1> QED
  BY <1>1, <1>4, <1>5, <1>6 DEF InOrder

LEMMA GetKeepsOrder ==
    ASSUME FifosAssumed, NEW got \in Seq(Int), NEW f \in Rings, NEW last, KeptInOrder(got, f, last),
           ~P!fifo_empty(f), NEW g, g = P!AfterGet(f), NEW more, more = Append(got, P!FirstByte(f))
    PROVE  /\ more \in Seq(Int) /\ g \in Rings
           /\ KeptInOrder(more, g, last)
<1>1. PICK r \in Nat, u \in Nat : r = Len(got) /\ u = Used(f) /\ u # 0
  <2>1. Used(f) \in 0 .. Length - 1 /\ Used(f) # 0 /\ Length \in Nat
    BY RingFacts DEF FifosAssumed
  <2> QED
    BY <2>1
<1>2. PICK k, n : k = Kept(got, f) /\ n = r + u /\ n \in Nat
  <2>1. r + u \in Nat
    OBVIOUS
  <2> QED
    BY <2>1
<1>3. InOrder(k, n, last)
  BY <1>1, <1>2 DEF KeptInOrder
<1>4. \A i \in 1 .. n : k[i] = IF i <= r THEN got[i] ELSE f.buf[At(f, i - r)]
  BY <1>1, <1>2 DEF Kept
<1>5. /\ g \in Rings /\ Used(g) = u - 1
      /\ \A i \in 1 .. Used(g) : g.buf[At(g, i)] = f.buf[At(f, i + 1)]
      /\ P!FirstByte(f) = f.buf[At(f, 1)]
  BY <1>1, GetFacts
<1>6. P!FirstByte(f) = k[r + 1] /\ P!FirstByte(f) \in Int
  <2>1. r + 1 \in 1 .. n /\ ~ (r + 1 <= r) /\ (r + 1) - r = 1
    BY <1>1, <1>2
  <2>2. k[r + 1] = f.buf[At(f, (r + 1) - r)]
    BY <1>4, <2>1
  <2>3. k[r + 1] \in 1 .. last /\ last \in Nat
    BY <1>3, <2>1 DEF InOrder
  <2> QED
    BY <1>5, <2>1, <2>2, <2>3
<1>7. /\ more \in Seq(Int) /\ Len(more) = r + 1 /\ more[r + 1] = k[r + 1]
      /\ \A i \in 1 .. r : more[i] = got[i]
  BY <1>1, <1>6
<1>8. \A i \in 1 .. n :
        k[i] = IF i <= Len(more) THEN more[i] ELSE g.buf[At(g, i - Len(more))]
  <2> SUFFICES ASSUME NEW i \in 1 .. n
               PROVE  k[i] = IF i <= Len(more) THEN more[i] ELSE g.buf[At(g, i - Len(more))]
    OBVIOUS
  <2>1. CASE i <= r
    BY <1>4, <1>7, <2>1
  <2>2. CASE i = r + 1
    BY <1>7, <2>2
  <2>3. CASE i > r + 1
    <3>1. i - (r + 1) \in 1 .. Used(g) /\ (i - (r + 1)) + 1 = i - r /\ ~ (i <= r) /\ ~ (i <= r + 1)
      BY <1>1, <1>2, <1>5, <2>3
    <3>2. g.buf[At(g, i - (r + 1))] = f.buf[At(f, (i - (r + 1)) + 1)]
      BY <1>5, <3>1
    <3>3. k[i] = f.buf[At(f, i - r)]
      BY <1>4, <3>1
    <3> QED
      BY <1>7, <3>1, <3>2, <3>3
  <2> QED
    BY <1>1, <2>1, <2>2, <2>3
<1>9. Kept(more, g) = k
  <2>1. Len(more) + Used(g) = n
    BY <1>1, <1>2, <1>5, <1>7
  <2>2. k = [i \in 1 .. n |-> k[i]]
    BY <1>1, <1>2 DEF Kept
  <2> QED
    BY <1>8, <2>1, <2>2 DEF Kept
<1>10. Len(more) + Used(g) = n
  BY <1>1, <1>2, <1>5, <1>7
<1> QED
  BY <1>3, <1>5, <1>7, <1>9, <1>10 DEF KeptInOrder

LEMMA PutKeepsOrder ==
    ASSUME FifosAssumed, NEW got \in Seq(Int), NEW f \in Rings, NEW last \in Nat, KeptInOrder(got, f, last),
           NEW g, g = P!AfterPut(f, last + 1)
    PROVE  g \in Rings /\ KeptInOrder(got, g, last + 1)
<1>1. PICK r \in Nat, u \in Nat : r = Len(got) /\ u = Used(f)
  <2>1. Used(f) \in 0 .. Length - 1 /\ Length \in Nat
    BY RingFacts DEF FifosAssumed
  <2> QED
    BY <2>1
<1>2. PICK k, n : k = Kept(got, f) /\ n = r + u /\ n \in Nat
  <2>1. r + u \in Nat
    OBVIOUS
  <2> QED
    BY <2>1
<1>3. InOrder(k, n, last)
  BY <1>1, <1>2 DEF KeptInOrder
<1>4. \A i \in 1 .. n : k[i] = IF i <= r THEN got[i] ELSE f.buf[At(f, i - r)]
  BY <1>1, <1>2 DEF Kept
<1>5. CASE ~P!fifo_full(f)
  <2>1. /\ g \in Rings /\ Used(g) = u + 1
        /\ \A i \in 1 .. u : g.buf[At(g, i)] = f.buf[At(f, i)]
        /\ g.buf[At(g, u + 1)] = last + 1
    <3>1. last + 1 \in Int
      OBVIOUS
    <3> QED
      BY <1>1, <1>5, <3>1, PutFacts
  <2>2. PICK h : h = Kept(got, g)
    OBVIOUS
  <2>3. \A i \in 1 .. n + 1 : h[i] = IF i <= r THEN got[i] ELSE g.buf[At(g, i - r)]
    BY <1>1, <1>2, <2>1, <2>2 DEF Kept
  <2>4. \A i \in 1 .. n : h[i] = k[i]
    <3> SUFFICES ASSUME NEW i \in 1 .. n
                 PROVE  h[i] = k[i]
      OBVIOUS
    <3>1. i \in 1 .. n + 1
      BY <1>2
    <3>2. CASE i <= r
      BY <1>4, <2>3, <3>1, <3>2
    <3>3. CASE ~ (i <= r)
      <4>1. i - r \in 1 .. u
        BY <1>2, <3>3
      <4> QED
        BY <1>4, <2>1, <2>3, <3>1, <3>3, <4>1
    <3> QED
      BY <3>2, <3>3
  <2>5. h[n + 1] = last + 1
    <3>1. n + 1 \in 1 .. n + 1 /\ ~ (n + 1 <= r) /\ (n + 1) - r = u + 1
      BY <1>2
    <3>2. h[n + 1] = g.buf[At(g, (n + 1) - r)]
      BY <2>3, <3>1
    <3> QED
      BY <2>1, <3>1, <3>2
  <2>6. InOrder(h, n + 1, last + 1)
    BY <1>3, <2>4, <2>5, InOrderAppends
  <2>7. Len(got) + Used(g) = n + 1
    BY <1>1, <1>2, <2>1
  <2> QED
    BY <2>1, <2>2, <2>6, <2>7 DEF KeptInOrder
<1>6. CASE P!fifo_full(f)
  <2>1. u = Length - 1 /\ u # 0 /\ Length \in Nat
    BY <1>1, <1>6, RingFacts DEF FifosAssumed
  <2>2. PICK e : e = P!AfterGet(f)
    OBVIOUS
  <2>3. ~P!fifo_empty(f)
    BY <1>1, <2>1, RingFacts
  <2>4. /\ e \in Rings /\ Used(e) = u - 1 /\ ~P!fifo_full(e)
        /\ \A i \in 1 .. u - 1 : e.buf[At(e, i)] = f.buf[At(f, i + 1)]
    BY <1>1, <2>2, <2>3, GetFacts
  <2>5. g = P!AfterPut(e, last + 1)
    BY <1>6, <2>2, <2>4 DEF P!AfterPut
  <2>6. /\ g \in Rings /\ Used(g) = u
        /\ \A i \in 1 .. u - 1 : g.buf[At(g, i)] = f.buf[At(f, i + 1)]
        /\ g.buf[At(g, u)] = last + 1
    <3>1. last + 1 \in Int
      OBVIOUS
    <3>2. /\ g \in Rings /\ Used(g) = Used(e) + 1
          /\ \A i \in 1 .. Used(e) : g.buf[At(g, i)] = e.buf[At(e, i)]
          /\ g.buf[At(g, Used(g))] = last + 1
      <4>1. e \in Rings /\ ~P!fifo_full(e)
        BY <2>4
      <4> QED
        BY <2>5, <3>1, <4>1, PutFacts
    <3>3. Used(g) = u
      BY <2>4, <3>2
    <3> QED
      BY <2>4, <3>2, <3>3
  <2>7. PICK h : h = Kept(got, g)
    OBVIOUS
  <2>8. \A i \in 1 .. n : h[i] = IF i <= r THEN got[i] ELSE g.buf[At(g, i - r)]
    BY <1>1, <1>2, <2>6, <2>7 DEF Kept
  <2>9. \A i \in 1 .. r : h[i] = k[i]
    <3>1. \A i \in 1 .. r : i \in 1 .. n /\ i <= r
      BY <1>2
    <3> QED
      BY <1>4, <2>8, <3>1
  <2>10. \A i \in r + 1 .. n - 1 : h[i] = k[i + 1]
    <3> SUFFICES ASSUME NEW i \in r + 1 .. n - 1
                 PROVE  h[i] = k[i + 1]
      OBVIOUS
    <3>1. /\ i \in 1 .. n /\ i + 1 \in 1 .. n /\ ~ (i <= r) /\ ~ (i + 1 <= r)
          /\ i - r \in 1 .. u - 1 /\ (i - r) + 1 = (i + 1) - r
      BY <1>2
    <3>2. h[i] = g.buf[At(g, i - r)] /\ k[i + 1] = f.buf[At(f, (i + 1) - r)]
      BY <1>4, <2>8, <3>1
    <3>3. g.buf[At(g, i - r)] = f.buf[At(f, (i - r) + 1)]
      BY <2>6, <3>1
    <3> QED
      BY <3>1, <3>2, <3>3
  <2>11. h[n] = last + 1
    <3>1. n \in 1 .. n /\ ~ (n <= r) /\ n - r = u
      BY <1>2, <2>1
    <3> QED
      BY <2>6, <2>8, <3>1
  <2>12. n = r + Length - 1
    BY <1>2, <2>1
  <2>13. InOrder(h, n, last + 1)
    BY <1>3, <2>9, <2>10, <2>11, <2>12, InOrderDrops
  <2> QED
    BY <1>1, <1>2, <2>6, <2>7, <2>13 DEF KeptInOrder
<1> QED
  BY <1>5, <1>6

-----------------------------------------------------------------------------
(* The invariant of the reading side and its steps.                        *)

DeviceInv ==
    /\ World(current, state, pc)
    /\ left \in [Tasks -> Int]
    /\ ring \in Rings /\ received \in Seq(Int) /\ sent \in Nat
    /\ Side(Blocked(state), pc, rlock, rxwaiter, "reading", "rlocking")
    /\ rxwaiter # None => P!fifo_empty(ring)
    /\ KeptInOrder(received, ring, sent)

LEMMA SameFifo ==
    ASSUME NEW f, NEW byte
    PROVE  /\ D!fifo_init = P!fifo_init
           /\ D!fifo_empty(f) = P!fifo_empty(f)
           /\ D!FirstByte(f) = P!FirstByte(f)
           /\ D!AfterGet(f) = P!AfterGet(f)
           /\ D!AfterPut(f, byte) = P!AfterPut(f, byte)
           /\ D!Contents(f) = P!Contents(f)
BY DEF D!fifo_init, D!fifo_empty, D!FirstByte, D!AfterGet, D!AfterPut, D!Contents, D!fifo_full,
       D!fifo_next, D!Cells, P!fifo_init, P!fifo_empty, P!FirstByte, P!AfterGet, P!AfterPut, P!Contents,
       P!fifo_full, P!fifo_next, P!Cells

LEMMA DeviceInit ==
    ASSUME FifosAssumed, D!CharDeviceAssumption, D!ReadInit
    PROVE  DeviceInv
<1>1. Idle \in Tasks /\ None \notin Tasks /\ Length \in Nat /\ Length > 1
  BY DEF FifosAssumed, D!CharDeviceAssumption
<1>2. /\ current = Boot /\ state = [t \in Tasks |-> "READY"]
      /\ ring = P!fifo_init /\ rxwaiter = None /\ rlock = D!FreeLock
      /\ pc = [t \in Tasks |-> "user"] /\ left = [t \in Tasks |-> 0]
      /\ sent = 0 /\ received = << >>
  BY SameFifo DEF D!ReadInit, D!DispatchInit
<1>3. ring \in Rings /\ ring.head = 0 /\ ring.tail = 0
  <2>1. 0 \in P!Cells
    BY <1>1 DEF P!Cells
  <2> QED
    BY <1>2, <2>1 DEF P!fifo_init, Rings, Bytes
<1>4. World(current, state, pc) /\ Blocked(state) = {}
  BY <1>1, <1>2 DEF World, Places, P!TaskState, Blocked
<1>5. Side(Blocked(state), pc, rlock, rxwaiter, "reading", "rlocking")
  <2>1. rlock \in Locks /\ Len(rlock.waiters) = 0
    BY <1>2 DEF D!FreeLock, Locks
  <2> QED
    BY <1>2, <2>1 DEF Side
<1>6. KeptInOrder(received, ring, sent)
  <2>1. Used(ring) = 0 /\ Len(received) = 0
    BY <1>2, <1>3 DEF Used
  <2>2. Len(received) + Used(ring) = 0
    BY <2>1
  <2>3. \A k : InOrder(k, 0, 0)
    BY DEF InOrder
  <2> QED
    BY <1>2, <2>2, <2>3 DEF KeptInOrder
<1> QED
  BY <1>2, <1>3, <1>4, <1>5, <1>6 DEF DeviceInv

\* The other side, or nobody, does something.
LEMMA DeviceOther ==
    ASSUME FifosAssumed, DeviceInv, World(current', state', pc'), left' \in [Tasks -> Int],
           NEW mine, "reading" \notin mine, "rlocking" \notin mine,
           Apart(Blocked(state), pc, Blocked(state'), pc', mine),
           UNCHANGED <<ring, rxwaiter, rlock, sent, received>>
    PROVE  DeviceInv'
<1>1. PICK B, C, p, q : /\ B = Blocked(state) /\ C = Blocked(state')
                        /\ p = pc /\ q = pc'
  OBVIOUS
<1>2. B \subseteq Tasks /\ C \subseteq Tasks
  BY <1>1 DEF Blocked
<1>3. Side(C, q, rlock, rxwaiter, "reading", "rlocking")
  <2>1. Side(B, p, rlock, rxwaiter, "reading", "rlocking") /\ Apart(B, p, C, q, mine)
    BY <1>1 DEF DeviceInv
  <2> QED
    BY <1>2, <2>1, SideStays
<1>4. Side(Blocked(state'), pc', rlock', rxwaiter', "reading", "rlocking")
  BY <1>1, <1>3
<1>5. ring' \in Rings /\ received' \in Seq(Int) /\ sent' \in Nat
  BY DEF DeviceInv
<1>6. (rxwaiter' # None => P!fifo_empty(ring')) /\ KeptInOrder(received', ring', sent')
  BY DEF DeviceInv
<1> QED
  BY <1>4, <1>5, <1>6 DEF DeviceInv

\* The handler takes a byte and wakes the reader; W are the tasks it wakes.
LEMMA DeviceReceives ==
    ASSUME FifosAssumed, DeviceInv, D!CharDeviceAssumption, NEW W,
           \A u \in Tasks : u \in W /\ u # rxwaiter => pc[u] \notin {"reading", "rlocking"},
           rxwaiter # None => rxwaiter \in W,
           sent' = sent + 1, ring' = D!AfterPut(ring, sent + 1),
           state' = D!Wake(state, W), rxwaiter' = None,
           UNCHANGED <<current, rlock, pc, left, received>>
    PROVE  DeviceInv'
<1>1. /\ World(current, state, pc) /\ state \in [Tasks -> P!TaskState] /\ None \notin Tasks
      /\ pc \in [Tasks -> Places]
      /\ Side(Blocked(state), pc, rlock, rxwaiter, "reading", "rlocking")
  BY DEF DeviceInv, World, D!CharDeviceAssumption
<1>2. state' \in [Tasks -> P!TaskState] /\ Blocked(state') = Blocked(state) \ W
  BY <1>1 DEF D!Wake, P!TaskState, Blocked
<1>3. World(current', state', pc')
  BY <1>1, <1>2 DEF World
<1>4. Side(Blocked(state'), pc', rlock', rxwaiter', "reading", "rlocking")
  <2>1. PICK B, C, E : /\ B = Blocked(state) /\ C = B \ {rxwaiter} /\ E = B \ W
    OBVIOUS
  <2>2. Side(C, pc, rlock, None, "reading", "rlocking")
    BY <1>1, <2>1, SideWakes DEF SidePlaces
  <2>3. B \subseteq Tasks /\ C \subseteq Tasks /\ E \subseteq Tasks
    BY <2>1 DEF Blocked
  <2>4. Apart(C, pc, E, pc, Places \ {"reading", "rlocking"})
    BY <1>1, <2>1, <2>3 DEF Apart
  <2>5. Side(E, pc, rlock, None, "reading", "rlocking")
    BY <2>2, <2>3, <2>4, SideStays
  <2> QED
    BY <1>2, <2>1, <2>5
<1>5. ring' \in Rings /\ KeptInOrder(received', ring', sent') /\ sent' \in Nat
  <2>1. /\ received \in Seq(Int) /\ ring \in Rings /\ sent \in Nat
        /\ KeptInOrder(received, ring, sent) /\ ring' = P!AfterPut(ring, sent + 1)
    BY SameFifo DEF DeviceInv
  <2>2. PICK g, last : g = ring' /\ last = sent
    OBVIOUS
  <2>3. g = P!AfterPut(ring, last + 1) /\ last \in Nat /\ KeptInOrder(received, ring, last)
    BY <2>1, <2>2
  <2>4. g \in Rings /\ KeptInOrder(received, g, last + 1)
    BY <2>1, <2>3, PutKeepsOrder
  <2> QED
    BY <2>2, <2>3, <2>4
<1>6. left' \in [Tasks -> Int] /\ received' \in Seq(Int)
  BY DEF DeviceInv
<1> QED
  BY <1>3, <1>4, <1>5, <1>6 DEF DeviceInv

\* The clock.
LEMMA DeviceTimer ==
    ASSUME FifosAssumed, DeviceInv, D!CharDeviceAssumption, D!TimerPreempts
    PROVE  /\ DeviceInv' /\ World(current', state', pc') /\ pc' = pc /\ left' = left
           /\ Blocked(state') = Blocked(state)
<1>1. D!Dispatch(state) /\ UNCHANGED <<ring, rxwaiter, rlock, pc, left, sent, received>>
  BY DEF D!TimerPreempts, D!readVars
<1>2. World(current, state, pc) /\ Idle \in Tasks
  BY DEF DeviceInv, D!CharDeviceAssumption
<1>3. World(current', state', pc) /\ Blocked(state') = Blocked(state)
  BY <1>1, <1>2, DispatchKeepsWorld
<1>4. Apart(Blocked(state), pc, Blocked(state'), pc', {})
  BY <1>1, <1>3 DEF Apart
<1>5. left' \in [Tasks -> Int]
  BY <1>1 DEF DeviceInv
<1>6. DeviceInv'
  BY <1>1, <1>3, <1>4, <1>5, DeviceOther
<1> QED
  BY <1>1, <1>3, <1>6

\* keyboard_read and serial_read leave the other side alone.
LEMMA DeviceReads ==
    ASSUME FifosAssumed, DeviceInv, D!CharDeviceAssumption, D!ReadNext
    PROVE  /\ DeviceInv'
           /\ Apart(Blocked(state), pc, Blocked(state'), pc', {"user", "reading", "rlocking"})
           /\ \A u \in Tasks : pc[u] \in {"writing", "wlocking"} => left'[u] = left[u]
<1>1. /\ World(current, state, pc) /\ None \notin Tasks /\ Idle \in Tasks
      /\ Side(Blocked(state), pc, rlock, rxwaiter, "reading", "rlocking")
      /\ left \in [Tasks -> Int] /\ pc \in [Tasks -> Places] /\ state \in [Tasks -> P!TaskState]
      /\ Readers \subseteq Tasks \ {Idle} /\ MaxCount \in Nat
      /\ <<"reading", "rlocking">> \in SidePlaces
  BY DEF DeviceInv, World, D!CharDeviceAssumption, SidePlaces
<1>2. PICK t \in Readers :
        \/ \E n \in 1 .. MaxCount : D!Read(t, n)
        \/ D!ReadRelock(t) \/ D!ReadBlocks(t) \/ D!ReadByte(t)
  BY DEF D!ReadNext
<1>3. t \in Tasks \ {Idle}
  BY <1>1
<1>4. CASE (\E n \in 1 .. MaxCount : D!Read(t, n)) \/ D!ReadRelock(t)
  <2>1. /\ state[t] = "RUNNING" /\ pc[t] \in {"user", "rlocking"}
        /\ D!Acquire(rlock, t, "reading", "rlocking") /\ rlock' = D!Acquired(rlock, t)
        /\ UNCHANGED <<ring, rxwaiter, sent, received>>
    BY <1>4 DEF D!Read, D!ReadRelock, D!Running
  <2>2. /\ left' \in [Tasks -> Int]
        /\ \A u \in Tasks : pc[u] \in {"writing", "wlocking"} => left'[u] = left[u]
    <3>1. left' = left \/ \E n \in 1 .. MaxCount : left' = [left EXCEPT ![t] = n] /\ pc[t] = "user"
      BY <1>4 DEF D!Read, D!ReadRelock, D!Running
    <3>2. CASE left' = left
      BY <1>1, <3>2
    <3>3. ASSUME NEW n \in 1 .. MaxCount, left' = [left EXCEPT ![t] = n], pc[t] = "user"
          PROVE  /\ left' \in [Tasks -> Int]
                 /\ \A u \in Tasks : pc[u] \in {"writing", "wlocking"} => left'[u] = left[u]
      BY <1>1, <1>3, <3>3
    <3> QED
      BY <3>1, <3>2, <3>3
  <2>3. /\ World(current', state', pc')
        /\ Side(Blocked(state'), pc', rlock', rxwaiter, "reading", "rlocking")
        /\ Apart(Blocked(state), pc, Blocked(state'), pc', {"user", "reading", "rlocking"})
    BY <1>1, <1>3, <2>1, AcquireStep
  <2>4. DeviceInv'
    BY <2>1, <2>2, <2>3 DEF DeviceInv
  <2> QED
    BY <2>2, <2>3, <2>4
<1>5. CASE D!ReadBlocks(t)
  <2>1. /\ pc[t] = "reading" /\ P!fifo_empty(ring) /\ rxwaiter' = t
        /\ D!Dispatch(D!Mark(t, "BLOCKED"))
        /\ UNCHANGED <<ring, rlock, pc, left, sent, received>>
    BY <1>5, SameFifo DEF D!ReadBlocks, D!Running
  <2>2. /\ World(current', state', pc')
        /\ Side(Blocked(state'), pc', rlock, t, "reading", "rlocking")
        /\ Apart(Blocked(state), pc, Blocked(state'), pc', {"user", "reading", "rlocking"})
    BY <1>1, <1>3, <2>1, BlockStep
  <2>3. DeviceInv'
    BY <2>1, <2>2 DEF DeviceInv
  <2> QED
    BY <2>1, <2>2, <2>3
<1>6. CASE D!ReadByte(t)
  <2>1. /\ state[t] = "RUNNING" /\ pc[t] = "reading" /\ ~P!fifo_empty(ring)
        /\ ring' = P!AfterGet(ring) /\ received' = Append(received, P!FirstByte(ring))
        /\ left' = [left EXCEPT ![t] = @ - 1]
        /\ UNCHANGED <<rxwaiter, sent>>
    BY <1>6, SameFifo DEF D!ReadByte, D!Running
  <2>2. /\ left' \in [Tasks -> Int]
        /\ \A u \in Tasks : pc[u] \in {"writing", "wlocking"} => left'[u] = left[u]
    BY <1>1, <2>1
  <2>3. received' \in Seq(Int) /\ ring' \in Rings /\ KeptInOrder(received', ring', sent)
    <3>1. received \in Seq(Int) /\ ring \in Rings /\ KeptInOrder(received, ring, sent)
      BY DEF DeviceInv
    <3>2. PICK g, more : g = ring' /\ more = received'
      OBVIOUS
    <3>3. g = P!AfterGet(ring) /\ more = Append(received, P!FirstByte(ring))
      BY <2>1, <3>2
    <3>4. more \in Seq(Int) /\ g \in Rings /\ KeptInOrder(more, g, sent)
      BY <2>1, <3>1, <3>3, GetKeepsOrder
    <3> QED
      BY <3>2, <3>4
  <2>4. rxwaiter = None
    BY <2>1 DEF DeviceInv
  <2>5. /\ World(current', state', pc')
        /\ Side(Blocked(state'), pc', rlock', rxwaiter, "reading", "rlocking")
        /\ Apart(Blocked(state), pc, Blocked(state'), pc', {"user", "reading", "rlocking"})
    <3>1. CASE left[t] > 1
      <4>1. UNCHANGED <<current, state, rlock, pc>>
        BY <1>6, <3>1 DEF D!ReadByte
      <4>2. Apart(Blocked(state), pc, Blocked(state'), pc', {"user", "reading", "rlocking"})
        BY <4>1 DEF Apart
      <4> QED
        BY <1>1, <4>1, <4>2
    <3>2. CASE ~ (left[t] > 1)
      <4>1. /\ pc' = [pc EXCEPT ![t] = "user"]
            /\ rlock' = D!Released(rlock) /\ D!Release(rlock)
        BY <1>6, <3>2 DEF D!ReadByte
      <4> QED
        BY <1>1, <1>3, <2>1, <4>1, LeaveStep
    <3> QED
      BY <3>1, <3>2
  <2>6. DeviceInv'
    BY <2>1, <2>2, <2>3, <2>4, <2>5 DEF DeviceInv
  <2> QED
    BY <2>2, <2>5, <2>6
<1> QED
  BY <1>2, <1>4, <1>5, <1>6

\* What the invariant is for: the reader that sleeps is the waiter, and the
\* bytes come in order.
LEMMA DeviceReaderWaits ==
    ASSUME FifosAssumed, DeviceInv, D!CharDeviceAssumption
    PROVE  D!ReaderWaits
<1>1. /\ Side(Blocked(state), pc, rlock, rxwaiter, "reading", "rlocking")
      /\ None \notin Tasks /\ (rxwaiter # None => P!fifo_empty(ring))
  BY DEF DeviceInv, D!CharDeviceAssumption
<1>2. D!fifo_empty(ring) = P!fifo_empty(ring)
  BY SameFifo
<1>3. ASSUME NEW t \in Tasks, pc[t] = "reading"
      PROVE  /\ rlock.holder = t
             /\ state[t] = "BLOCKED" => rxwaiter = t /\ D!fifo_empty(ring)
             /\ state[t] = "RUNNING" => rxwaiter = None
  BY <1>1, <1>2, <1>3 DEF Side, Blocked
<1>4. rxwaiter # None => state[rxwaiter] = "BLOCKED" /\ pc[rxwaiter] = "reading"
  BY <1>1 DEF Side, Blocked
<1> QED
  BY <1>3, <1>4 DEF D!ReaderWaits

LEMMA DeviceDropsOldest ==
    ASSUME FifosAssumed, DeviceInv
    PROVE  D!DropsOldest
<1>1. received \in Seq(Int) /\ ring \in Rings /\ sent \in Nat
  BY DEF DeviceInv
<1>2. PICK r \in Nat, u \in Nat : r = Len(received) /\ u = Used(ring)
  <2>1. Used(ring) \in 0 .. Length - 1 /\ Length \in Nat
    BY <1>1, RingFacts DEF FifosAssumed
  <2> QED
    BY <1>1, <2>1
<1>3. PICK c : c = D!Contents(ring)
  OBVIOUS
<1>4. c = [i \in 1 .. u |-> ring.buf[At(ring, i)]]
  BY <1>1, <1>2, <1>3, RingFacts, SameFifo
<1>5. PICK k, n : k = Kept(received, ring) /\ n = r + u /\ n \in Nat
  <2>1. r + u \in Nat
    OBVIOUS
  <2> QED
    BY <2>1
<1>6. InOrder(k, n, sent)
  BY <1>2, <1>5 DEF DeviceInv, KeptInOrder
<1>7. \A i \in 1 .. n : k[i] = IF i <= r THEN received[i] ELSE ring.buf[At(ring, i - r)]
  BY <1>2, <1>5 DEF Kept
<1>8. c \in Seq(Int) /\ Len(c) = u
  <2>1. \A i \in 1 .. u : c[i] \in Int
    <3> SUFFICES ASSUME NEW i \in 1 .. u
                 PROVE  c[i] \in Int
      OBVIOUS
    <3>1. r + i \in 1 .. n /\ ~ (r + i <= r) /\ (r + i) - r = i
      BY <1>5
    <3>2. k[r + i] = ring.buf[At(ring, (r + i) - r)] /\ k[r + i] \in 1 .. sent
      BY <1>6, <1>7, <3>1 DEF InOrder
    <3> QED
      BY <1>1, <1>4, <3>1, <3>2
  <2> QED
    BY <1>4, <2>1
<1>9. PICK kept : kept = received \o c
  OBVIOUS
<1>10. kept \in Seq(Int) /\ Len(kept) = n /\ \A i \in 1 .. n : kept[i] = k[i]
  <2>1. kept \in Seq(Int) /\ Len(kept) = n
    BY <1>1, <1>2, <1>5, <1>8, <1>9
  <2>2. ASSUME NEW i \in 1 .. n
        PROVE  kept[i] = k[i]
    <3>1. CASE i <= r
      BY <1>1, <1>2, <1>7, <1>8, <1>9, <3>1
    <3>2. CASE ~ (i <= r)
      <4>1. i - r \in 1 .. u
        BY <1>5, <3>2
      <4>2. kept[i] = c[i - r]
        BY <1>1, <1>2, <1>8, <1>9, <3>2, <4>1
      <4> QED
        BY <1>4, <1>7, <3>2, <4>1, <4>2
    <3> QED
      BY <3>1, <3>2
  <2> QED
    BY <2>1, <2>2
<1>11. \A i \in 1 .. Len(kept) - 1 : kept[i] < kept[i + 1]
  <2> SUFFICES ASSUME NEW i \in 1 .. Len(kept) - 1
               PROVE  kept[i] < kept[i + 1]
    OBVIOUS
  <2>1. i \in 1 .. n /\ i + 1 \in 1 .. n /\ i <= i + 1 /\ (i + 1) - i = 1
    BY <1>5, <1>10
  <2>2. k[i + 1] - k[i] >= (i + 1) - i /\ k[i] \in Int /\ k[i + 1] \in Int
    BY <1>1, <1>6, <2>1 DEF InOrder
  <2> QED
    BY <1>10, <2>1, <2>2
<1>12. ASSUME NEW b \in 1 .. sent
       PROVE  b \in D!Range(kept) \/ sent >= b + Length - 1
  <2>1. (\E i \in 1 .. n : kept[i] = b) \/ sent >= b + Length - 1
    BY <1>6, <1>10 DEF InOrder
  <2> QED
    BY <1>5, <1>10, <2>1 DEF D!Range
<1> QED
  BY <1>3, <1>9, <1>11, <1>12 DEF D!DropsOldest

=============================================================================
