-------------------------- MODULE BlockRequestProofs --------------------------
(***************************************************************************)
(* Proofs about BlockRequest, for any number of tasks, disks, positions    *)
(* and sectors, and any tasks that exit in the middle of their requests.   *)
(*                                                                         *)
(* No property is inductive.  That the interrupt wakes the right task      *)
(* needs the lock to tell who is at the drive (AtDrive), and the queue of  *)
(* the lock to hold only tasks that sleep in lock_acquire (LockQueue).     *)
(* That a disk serves one request needs the lists to hold each request     *)
(* once and no task that is not in device_request (Lists), and each        *)
(* request to be still linked when it is finished (Linked); that the one   *)
(* that is served goes on needs the places where a task may sleep or be    *)
(* DIED, and that a free lock with a queue is on its way to a task that    *)
(* was woken (OnWay).  The order of the elevator needs the lists to be     *)
(* sorted (Sorted).                                                        *)
(***************************************************************************)
EXTENDS BlockRequest, TLAPS, FiniteSetTheorems, WellFoundedInduction, SequenceTheorems

\* Every nonempty set of naturals has a least element: a statement about every
\* n is proved from a least n for which it fails.
LEMMA LeastNumber ==
    ASSUME NEW T \in SUBSET Nat, T # {}
    PROVE  \E m \in T : \A y \in T : m <= y
<1>1. IsWellFoundedOn({ss \in Nat \X Nat : ss[1] < ss[2]}, Nat)
  BY NatLessThanWellFounded DEF OpToRel
<1>2. PICK m \in T : \A y \in T : <<y, m>> \notin {ss \in Nat \X Nat : ss[1] < ss[2]}
  BY <1>1, WFMin
<1>3. \A y \in T : y \in Nat /\ m \in Nat /\ ~(y < m)
  BY <1>2
<1> QED
  BY <1>3

Awake == {"READY", "RUNNING"}

\* The places inside device_request or a direct transfer.
InRequest == {"queued", "lock", "sector", "finish"}

TypeOK ==
    /\ current \in Tasks \cup {Boot}
    /\ state \in [Tasks -> TaskState]
    /\ request_list \in [Disks -> Seq(Clients)]
    /\ direct \in [Disks -> {"UP", "DOWN"}]
    /\ idx \in [Tasks -> Nat]
    /\ disk \in [Tasks -> Disks \cup {None}]
    /\ lock \in Clients \cup {None}
    /\ lock_waiters \in Seq(Clients)
    /\ waiter \in Clients \cup {None}
    /\ busy \in BOOLEAN
    /\ irq \in BOOLEAN
    /\ pc \in [Tasks -> InRequest \cup {"user", "exit", "gone"}]

OnlyCurrentRuns == \A t \in Tasks : state[t] = "RUNNING" => t = current

IdleIsAwake == pc[Idle] = "user" /\ state[Idle] \in Awake

\* The lock tells who is at the drive.
AtDrive == \A t \in Tasks : lock = t <=> pc[t] = "sector"

LockQueue ==
    /\ \A i, j \in 1 .. Len(lock_waiters) : lock_waiters[i] = lock_waiters[j] => i = j
    /\ \A i \in 1 .. Len(lock_waiters) :
        pc[lock_waiters[i]] = "lock" /\ state[lock_waiters[i]] = "BLOCKED"

\* The part of the invariant about the processor and the controller.
ControllerInv ==
    /\ OnlyCurrentRuns /\ IdleIsAwake
    /\ AtDrive /\ LockQueue /\ WaiterIsWoken

Lists ==
    \A d \in Disks :
        /\ \A i, j \in 1 .. Len(request_list[d]) :
            request_list[d][i] = request_list[d][j] => i = j
        /\ \A i \in 1 .. Len(request_list[d]) :
            disk[request_list[d][i]] = d /\ pc[request_list[d][i]] \in InRequest

Linked ==
    \A t \in Clients : pc[t] \in InRequest /\ disk[t] # None =>
        \E i \in 1 .. Len(request_list[disk[t]]) : request_list[disk[t]][i] = t

\* Of the requests of a disk one does not sleep in device_request.
OneAwake ==
    \A d \in Disks : request_list[d] # << >> =>
        \E i \in 1 .. Len(request_list[d]) :
            \A j \in 1 .. Len(request_list[d]) : ~Asleep(request_list[d][j]) <=> j = i

ListInv == Lists /\ Linked /\ OneAwake

IInv == TypeOK /\ ControllerInv /\ ListInv

-----------------------------------------------------------------------------
(* Lemmas about sequences: the list with a request more or less.           *)

LEMMA InsertAtFacts ==
    ASSUME NEW S, NEW s \in Seq(S), NEW x \in S, NEW i \in 1 .. Len(s) + 1
    PROVE  /\ InsertAt(s, i, x) \in Seq(S)
           /\ Len(InsertAt(s, i, x)) = Len(s) + 1
           /\ \A j \in 1 .. Len(s) + 1 : InsertAt(s, i, x)[j] =
                IF j < i THEN s[j] ELSE IF j = i THEN x ELSE s[j - 1]
<1> DEFINE a == SubSeq(s, 1, i - 1)
           b == SubSeq(s, i, Len(s))
           c == a \o <<x>>
<1>1. Len(s) \in Nat /\ i \in Nat /\ 1 <= i /\ i <= Len(s) + 1
  BY LenProperties
<1>2. /\ a \in Seq(S) /\ Len(a) = i - 1
      /\ \A j \in 1 .. i - 1 : a[j] = s[j]
  BY <1>1
<1>3. /\ b \in Seq(S) /\ Len(b) = Len(s) + 1 - i
      /\ \A j \in 1 .. Len(s) + 1 - i : b[j] = s[j + i - 1]
  BY <1>1
<1>4. InsertAt(s, i, x) = c \o b
  BY DEF InsertAt
<1> HIDE DEF a, b
<1>5. /\ c \in Seq(S) /\ Len(c) = i
      /\ \A j \in 1 .. i : c[j] = IF j < i THEN s[j] ELSE x
  BY <1>1, <1>2
<1> HIDE DEF c
<1>6. /\ c \o b \in Seq(S)
      /\ Len(c \o b) = Len(s) + 1
      /\ \A j \in 1 .. Len(s) + 1 : (c \o b)[j] = IF j <= i THEN c[j] ELSE b[j - i]
  <2>1. Len(c) + Len(b) = Len(s) + 1
    BY <1>1, <1>3, <1>5
  <2>2. /\ c \o b \in Seq(S)
        /\ Len(c \o b) = Len(c) + Len(b)
        /\ \A j \in 1 .. Len(c) + Len(b) :
              (c \o b)[j] = IF j <= Len(c) THEN c[j] ELSE b[j - Len(c)]
    BY <1>3, <1>5, ConcatProperties
  <2> QED
    BY <2>1, <2>2, <1>5
<1>7. ASSUME NEW j \in 1 .. Len(s) + 1
      PROVE  (c \o b)[j] = IF j < i THEN s[j] ELSE IF j = i THEN x ELSE s[j - 1]
  <2>1. CASE j <= i
    <3>1. j \in 1 .. i
      BY <1>1, <2>1
    <3> QED
      BY <1>1, <1>5, <1>6, <2>1, <3>1
  <2>2. CASE j > i
    <3>1. ~(j <= i) /\ ~(j < i) /\ j # i
      BY <1>1, <2>2
    <3>2. j - i \in 1 .. Len(s) + 1 - i /\ (j - i) + i - 1 = j - 1
      BY <1>1, <2>2
    <3>3. (c \o b)[j] = b[j - i]
      BY <1>6, <3>1
    <3>4. b[j - i] = s[j - 1]
      BY <1>3, <3>2
    <3> QED
      BY <3>1, <3>3, <3>4
  <2>3. j <= i \/ j > i
    BY <1>1
  <2> QED
    BY <2>1, <2>2, <2>3
<1> QED
  BY <1>4, <1>6, <1>7

LEMMA RemoveAtFacts ==
    ASSUME NEW S, NEW s \in Seq(S), NEW i \in 1 .. Len(s)
    PROVE  /\ RemoveAt(s, i) \in Seq(S)
           /\ Len(RemoveAt(s, i)) = Len(s) - 1
           /\ \A j \in 1 .. Len(s) - 1 : RemoveAt(s, i)[j] =
                IF j < i THEN s[j] ELSE s[j + 1]
<1> DEFINE n == Len(s)
           a == SubSeq(s, 1, i - 1)
           b == SubSeq(s, i + 1, n)
<1>1. n \in Nat /\ i \in Nat /\ 1 <= i /\ i <= n /\ \A j \in 1 .. n : s[j] \in S
  BY LenProperties
<1> HIDE DEF n
<1>2. a \in Seq(S) /\ Len(a) = i - 1 /\ \A j \in 1 .. i - 1 : a[j] = s[j]
  <2>1. \A j \in 1 .. i - 1 : s[j] \in S
    BY <1>1
  <2>2. /\ a \in Seq(S)
        /\ Len(a) = IF 1 <= i - 1 THEN i - 1 - 1 + 1 ELSE 0
        /\ \A j \in 1 .. i - 1 - 1 + 1 : a[j] = s[1 + j - 1]
    BY <1>1, <2>1, SubSeqProperties
  <2> HIDE DEF a
  <2> QED
    BY <1>1, <2>2
<1>3. b \in Seq(S) /\ Len(b) = n - i /\ \A j \in 1 .. n - i : b[j] = s[i + j]
  <2>1. \A j \in i + 1 .. n : s[j] \in S
    BY <1>1
  <2>2. /\ b \in Seq(S)
        /\ Len(b) = IF i + 1 <= n THEN n - (i + 1) + 1 ELSE 0
        /\ \A j \in 1 .. n - (i + 1) + 1 : b[j] = s[i + 1 + j - 1]
    BY <1>1, <2>1, SubSeqProperties
  <2> HIDE DEF b
  <2>3. i + 1 <= n \/ n = i
    BY <1>1
  <2> QED
    BY <1>1, <2>2, <2>3
<1>4. RemoveAt(s, i) = a \o b
  BY DEF RemoveAt, n
<1> HIDE DEF a, b
<1>5. /\ a \o b \in Seq(S)
      /\ Len(a \o b) = Len(a) + Len(b)
      /\ \A j \in 1 .. Len(a) + Len(b) :
           (a \o b)[j] = IF j <= Len(a) THEN a[j] ELSE b[j - Len(a)]
  BY <1>2, <1>3, ConcatProperties
<1>6. Len(a \o b) = n - 1
  BY <1>1, <1>2, <1>3, <1>5
<1>7. \A j \in 1 .. n - 1 : (a \o b)[j] = IF j < i THEN s[j] ELSE s[j + 1]
  BY <1>1, <1>2, <1>3, <1>5
<1> QED
  BY <1>4, <1>5, <1>6, <1>7 DEF n

\* list_push_front adds the task to the waiters of the lock.
LEMMA PushFrontFacts ==
    ASSUME NEW S, NEW s \in Seq(S), NEW x \in S
    PROVE  /\ <<x>> \o s \in Seq(S)
           /\ Len(<<x>> \o s) = Len(s) + 1
           /\ (<<x>> \o s)[1] = x
           /\ \A i \in 2 .. Len(s) + 1 : (<<x>> \o s)[i] = s[i - 1]
OBVIOUS

\* Front is the list without its last position.
LEMMA FrontFacts ==
    ASSUME NEW S, NEW s \in Seq(S), s # << >>
    PROVE  /\ Front(s) \in Seq(S)
           /\ Len(s) \in Nat \ {0}
           /\ Len(Front(s)) = Len(s) - 1
           /\ \A j \in 1 .. Len(s) - 1 : Front(s)[j] = s[j]
           /\ Last(s) = s[Len(s)] /\ Last(s) \in S
<1> DEFINE n == Len(s)
<1>1. n \in Nat \ {0} /\ \A j \in 1 .. n : s[j] \in S
  BY EmptySeq
<1> HIDE DEF n
<1>2. \A j \in 1 .. n - 1 : s[j] \in S
  BY <1>1
<1>3. /\ SubSeq(s, 1, n - 1) \in Seq(S)
      /\ Len(SubSeq(s, 1, n - 1)) = IF 1 <= n - 1 THEN n - 1 - 1 + 1 ELSE 0
      /\ \A j \in 1 .. n - 1 - 1 + 1 : SubSeq(s, 1, n - 1)[j] = s[1 + j - 1]
  BY <1>1, <1>2, SubSeqProperties
<1>4. Front(s) = SubSeq(s, 1, n - 1) /\ Last(s) = s[n]
  BY DEF Front, Last, n
<1>5. n - 1 = IF 1 <= n - 1 THEN n - 1 - 1 + 1 ELSE 0
  BY <1>1
<1>6. \A j \in 1 .. n - 1 : j \in 1 .. n - 1 - 1 + 1 /\ 1 + j - 1 = j
  BY <1>1
<1>7. s[n] \in S
  BY <1>1
<1> HIDE DEF n
<1>8. /\ Front(s) \in Seq(S)
      /\ Len(Front(s)) = n - 1
      /\ \A j \in 1 .. n - 1 : Front(s)[j] = s[j]
  BY <1>3, <1>4, <1>5, <1>6
<1> QED
  BY <1>1, <1>4, <1>7, <1>8 DEF n

\* list_insert_sort finds a place in the list.
LEMMA AnchorInList ==
    ASSUME IInv, NEW d \in Disks, NEW k \in Nat
    PROVE  Anchor(request_list[d], k) \in 1 .. Len(request_list[d]) + 1
<1> DEFINE s == request_list[d]
           S == {i \in DOMAIN s : idx[s[i]] > k} \cup {Len(s) + 1}
<1>1. Len(s) \in Nat /\ DOMAIN s = 1 .. Len(s)
  BY LenProperties DEF IInv, TypeOK
<1>2. S \in SUBSET Nat /\ S # {} /\ S \subseteq 1 .. Len(s) + 1
  BY <1>1
<1>3. \E m \in S : \A y \in S : m <= y
  <2> HIDE DEF S
  <2> QED
    BY <1>2, LeastNumber
<1>4. Min(S) \in S
  <2> HIDE DEF S
  <2> QED
    BY <1>3 DEF Min
<1> QED
  BY <1>2, <1>4 DEF Anchor

-----------------------------------------------------------------------------
(* The processor and the controller.                                       *)

\* schedule() changes nothing but who is ready and who runs.
LEMMA DispatchStep ==
    ASSUME NEW st \in [Tasks -> TaskState],
           \A t \in Tasks : st[t] = "RUNNING" => t = current,
           st[Idle] \in Awake,
           Dispatch(st)
    PROVE  /\ current' \in Tasks
           /\ state' \in [Tasks -> TaskState]
           /\ OnlyCurrentRuns'
           /\ \A t \in Tasks : state'[t] = "BLOCKED" <=> st[t] = "BLOCKED"
           /\ state'[Idle] \in Awake
<1>1. PICK next \in Eligible(st) : current' = next /\ state' = Switched(st, next)
  BY DEF Dispatch
<1>2. next \in Tasks /\ st[next] \in Awake
  BY <1>1, DispatcherAssumption DEF Eligible, Ready, Awake
<1>3. \A t \in Tasks : state'[t] = IF t = next THEN "RUNNING"
                                   ELSE IF t = current /\ st[t] = "RUNNING"
                                   THEN "READY" ELSE st[t]
  BY <1>1 DEF Switched
<1>4. state' \in [Tasks -> TaskState]
  BY <1>1 DEF Switched, TaskState
<1>5. OnlyCurrentRuns'
  BY <1>1, <1>3 DEF OnlyCurrentRuns
<1>6. \A t \in Tasks : state'[t] = "BLOCKED" <=> st[t] = "BLOCKED"
  BY <1>2, <1>3 DEF Awake
<1>7. state'[Idle] \in Awake
  BY <1>3, DispatcherAssumption DEF Awake
<1> QED
  BY <1>1, <1>2, <1>4, <1>5, <1>6, <1>7

\* The waiter is the task at the drive or nobody, and a task that has the
\* processor is not asleep there.
LEMMA WaiterAtDrive ==
    ASSUME IInv
    PROVE  /\ waiter # None => waiter \in Clients /\ waiter = lock
                               /\ pc[waiter] = "sector" /\ state[waiter] = "BLOCKED"
           /\ lock = None => waiter = None
<1>1. None \notin Tasks /\ Clients \subseteq Tasks
  BY BlockRequestAssumption DEF Clients
<1>2. ASSUME waiter # None
      PROVE  waiter \in Clients /\ waiter = lock
             /\ pc[waiter] = "sector" /\ state[waiter] = "BLOCKED"
  BY <1>1, <1>2 DEF IInv, TypeOK, ControllerInv, WaiterIsWoken, AtDrive
<1> QED
  BY <1>2

\* ide_pio_read and ide_pio_write up to the first wait: t takes the controller
\* when it is free, else it queues for it.
LEMMA TransferStep ==
    ASSUME IInv, NEW t \in Clients, current = t,
           state[t] \in {"RUNNING", "DIED"},
           pc[t] \notin {"sector"},
           NEW st, st = state \/ st = [state EXCEPT ![t] = "DIED"],
           Transfer(t, st)
    PROVE  /\ current' \in Tasks /\ state' \in [Tasks -> TaskState]
           /\ lock' \in Clients \cup {None} /\ lock_waiters' \in Seq(Clients)
           /\ waiter' \in Clients \cup {None} /\ busy' \in BOOLEAN /\ irq' \in BOOLEAN
           /\ pc' \in [Tasks -> InRequest \cup {"user", "exit", "gone"}]
           /\ ControllerInv'
           /\ pc'[t] \in {"lock", "sector"}
           /\ \A u \in Tasks \ {t} : /\ pc'[u] = pc[u]
                                     /\ state'[u] = "BLOCKED" <=> state[u] = "BLOCKED"
<1>1. /\ t \in Tasks /\ t # Idle /\ t # None /\ None \notin Clients
      /\ Idle \in Tasks /\ \A u \in Tasks : u # None
  BY BlockRequestAssumption, DispatcherAssumption DEF Clients
<1>2. /\ st \in [Tasks -> TaskState]
      /\ st[t] \in {"RUNNING", "DIED"}
      /\ \A u \in Tasks \ {t} : st[u] = state[u]
  BY <1>1 DEF IInv, TypeOK, TaskState
<1>3. /\ \A u \in Tasks : st[u] = "RUNNING" => u = current
      /\ st[Idle] \in Awake /\ pc[Idle] = "user"
  BY <1>1, <1>2 DEF IInv, ControllerInv, OnlyCurrentRuns, IdleIsAwake
<1> DEFINE bl == Blocked(t, st)
<1>4. /\ bl \in [Tasks -> TaskState]
      /\ bl[t] = "BLOCKED"
      /\ \A u \in Tasks \ {t} : bl[u] = state[u]
      /\ \A u \in Tasks : bl[u] = "RUNNING" => u = current
      /\ bl[Idle] \in Awake
  BY <1>1, <1>2, <1>3 DEF Blocked, TaskState, Stopped
<1> HIDE DEF bl
<1>5. \A i \in 1 .. Len(lock_waiters) : lock_waiters[i] \in Clients /\ lock_waiters[i] # t
  BY <1>1 DEF IInv, TypeOK, ControllerInv, LockQueue
<1>6. CASE lock = None
  <2>1. /\ lock' = t /\ busy' = TRUE /\ pc' = [pc EXCEPT ![t] = "sector"]
        /\ lock_waiters' = lock_waiters /\ irq' = irq
        /\ AwaitSector(t, st)
    BY <1>6 DEF Transfer, Command, Moves
  <2>2. \A u \in Tasks : pc'[u] = IF u = t THEN "sector" ELSE pc[u]
    BY <2>1 DEF IInv, TypeOK
  <2>3. \A u \in Tasks : pc[u] # "sector"
    BY <1>1, <1>6 DEF IInv, ControllerInv, AtDrive
  <2>4. waiter = None
    BY <1>6, WaiterAtDrive
  <2>5. AtDrive'
    BY <2>1, <2>2, <2>3 DEF AtDrive
  <2>6. CASE st[t] = "RUNNING"
    <3>1. waiter' = t /\ Dispatch(bl)
      BY <2>1, <2>6 DEF AwaitSector, bl
    <3>2. /\ current' \in Tasks
          /\ state' \in [Tasks -> TaskState]
          /\ OnlyCurrentRuns'
          /\ \A u \in Tasks : state'[u] = "BLOCKED" <=> bl[u] = "BLOCKED"
          /\ state'[Idle] \in Awake
      BY <1>4, <3>1, DispatchStep
    <3>3. IdleIsAwake'
      BY <1>1, <1>3, <2>2, <3>2 DEF IdleIsAwake
    <3>4. LockQueue'
      BY <1>4, <1>5, <2>1, <2>2, <3>2 DEF IInv, ControllerInv, LockQueue, Clients
    <3>5. WaiterIsWoken'
      BY <1>1, <1>4, <2>1, <2>2, <2>3, <3>1, <3>2 DEF WaiterIsWoken
    <3> QED
      <4>1. ControllerInv'
        BY <2>5, <3>2, <3>3, <3>4, <3>5 DEF ControllerInv
      <4>2. \A u \in Tasks \ {t} : /\ pc'[u] = pc[u]
                                    /\ state'[u] = "BLOCKED" <=> state[u] = "BLOCKED"
        BY <1>4, <2>2, <3>2
      <4>3. pc'[t] = "sector" /\ pc' \in [Tasks -> InRequest \cup {"user", "exit", "gone"}]
        BY <1>1, <2>1, <2>2 DEF IInv, TypeOK, InRequest
      <4> QED
        BY <1>1, <2>1, <3>1, <3>2, <4>1, <4>2, <4>3 DEF IInv, TypeOK
  <2>7. CASE st[t] # "RUNNING"
    <3>1. state' = st /\ current' = current /\ waiter' = waiter
      BY <2>1, <2>7 DEF AwaitSector
    <3>2. OnlyCurrentRuns' /\ IdleIsAwake'
      BY <1>1, <1>3, <2>2, <3>1 DEF OnlyCurrentRuns, IdleIsAwake
    <3>3. LockQueue'
      BY <1>2, <1>5, <2>1, <2>2, <3>1 DEF IInv, ControllerInv, LockQueue, Clients
    <3>4. WaiterIsWoken'
      BY <1>1, <1>2, <2>2, <2>3, <2>4, <3>1 DEF WaiterIsWoken
    <3> QED
      <4>1. ControllerInv'
        BY <2>5, <3>2, <3>3, <3>4 DEF ControllerInv
      <4>2. \A u \in Tasks \ {t} : pc'[u] = pc[u] /\ state'[u] = state[u]
        BY <1>2, <2>2, <3>1
      <4>3. pc'[t] = "sector" /\ pc' \in [Tasks -> InRequest \cup {"user", "exit", "gone"}]
        BY <1>1, <2>1, <2>2 DEF IInv, TypeOK, InRequest
      <4> QED
        BY <1>1, <1>2, <2>1, <3>1, <4>1, <4>2, <4>3 DEF IInv, TypeOK
  <2> QED
    BY <2>6, <2>7
<1>7. CASE lock # None
  <2>1. /\ lock_waiters' = <<t>> \o lock_waiters
        /\ pc' = [pc EXCEPT ![t] = "lock"]
        /\ Dispatch(bl)
        /\ UNCHANGED <<lock, waiter, busy, irq>>
    BY <1>7 DEF Transfer, WaitForLock, Moves, bl
  <2>2. \A u \in Tasks : pc'[u] = IF u = t THEN "lock" ELSE pc[u]
    BY <2>1 DEF IInv, TypeOK
  <2>3. /\ current' \in Tasks
        /\ state' \in [Tasks -> TaskState]
        /\ OnlyCurrentRuns'
        /\ \A u \in Tasks : state'[u] = "BLOCKED" <=> bl[u] = "BLOCKED"
        /\ state'[Idle] \in Awake
    BY <1>4, <2>1, DispatchStep
  <2>4. IdleIsAwake'
    BY <1>1, <1>3, <2>2, <2>3 DEF IdleIsAwake
  <2>5. AtDrive'
    BY <2>1, <2>2 DEF IInv, ControllerInv, AtDrive
  <2>6. /\ lock_waiters' \in Seq(Clients)
        /\ Len(lock_waiters') = Len(lock_waiters) + 1
        /\ lock_waiters'[1] = t
        /\ \A i \in 2 .. Len(lock_waiters) + 1 : lock_waiters'[i] = lock_waiters[i - 1]
    BY <2>1, PushFrontFacts DEF IInv, TypeOK
  <2>7. LockQueue'
    <3>1. Len(lock_waiters) \in Nat
      BY LenProperties DEF IInv, TypeOK
    <3>2. \A i \in 2 .. Len(lock_waiters) + 1 :
            i - 1 \in 1 .. Len(lock_waiters) /\ lock_waiters'[i] = lock_waiters[i - 1]
      BY <2>6, <3>1
    <3>3. \A i \in 1 .. Len(lock_waiters') : i = 1 \/ i \in 2 .. Len(lock_waiters) + 1
      BY <2>6, <3>1
    <3>4. ASSUME NEW i \in 1 .. Len(lock_waiters'), NEW j \in 1 .. Len(lock_waiters'),
                 lock_waiters'[i] = lock_waiters'[j]
          PROVE  i = j
      <4>1. CASE i = 1 \/ j = 1
        BY <1>5, <2>6, <3>2, <3>3, <3>4, <4>1
      <4>2. CASE i # 1 /\ j # 1
        <5>1. i - 1 = j - 1
          BY <3>2, <3>3, <3>4, <4>2 DEF IInv, ControllerInv, LockQueue
        <5> QED
          BY <3>3, <4>2, <5>1
      <4> QED
        BY <4>1, <4>2
    <3>5. ASSUME NEW i \in 1 .. Len(lock_waiters')
          PROVE  pc'[lock_waiters'[i]] = "lock" /\ state'[lock_waiters'[i]] = "BLOCKED"
      <4>1. CASE i = 1
        BY <1>1, <1>4, <2>2, <2>3, <2>6, <4>1
      <4>2. CASE i # 1
        <5>1. /\ lock_waiters'[i] \in Clients /\ lock_waiters'[i] # t
              /\ pc[lock_waiters'[i]] = "lock" /\ state[lock_waiters'[i]] = "BLOCKED"
          BY <1>5, <3>2, <3>3, <4>2 DEF IInv, ControllerInv, LockQueue
        <5> QED
          BY <5>1, <1>4, <2>2, <2>3 DEF Clients
      <4> QED
        BY <4>1, <4>2
    <3> QED
      BY <3>4, <3>5 DEF LockQueue
  <2>8. WaiterIsWoken'
    BY <1>1, <1>4, <2>1, <2>2, <2>3 DEF IInv, ControllerInv, WaiterIsWoken
  <2> QED
    <3>1. ControllerInv'
      BY <2>3, <2>4, <2>5, <2>7, <2>8 DEF ControllerInv
    <3>2. \A u \in Tasks \ {t} : /\ pc'[u] = pc[u]
                                  /\ state'[u] = "BLOCKED" <=> state[u] = "BLOCKED"
      BY <1>4, <2>2, <2>3
    <3>3. pc'[t] = "lock" /\ pc' \in [Tasks -> InRequest \cup {"user", "exit", "gone"}]
      BY <1>1, <2>1, <2>2 DEF IInv, TypeOK, InRequest
    <3> QED
      BY <2>1, <2>3, <2>6, <3>1, <3>2, <3>3 DEF IInv, TypeOK
<1> QED
  BY <1>6, <1>7

-----------------------------------------------------------------------------
(* The request lists.                                                      *)

\* What the lists hold.
LEMMA ListFacts ==
    ASSUME IInv, NEW d \in Disks
    PROVE  /\ request_list[d] \in Seq(Clients) /\ Len(request_list[d]) \in Nat
           /\ d # None
           /\ \A i \in 1 .. Len(request_list[d]) :
                /\ request_list[d][i] \in Clients
                /\ disk[request_list[d][i]] = d
                /\ pc[request_list[d][i]] \in InRequest
           /\ \A i, j \in 1 .. Len(request_list[d]) :
                request_list[d][i] = request_list[d][j] => i = j
<1>1. request_list[d] \in Seq(Clients)
  BY DEF IInv, TypeOK
<1>2. Len(request_list[d]) \in Nat
      /\ \A i \in 1 .. Len(request_list[d]) : request_list[d][i] \in Clients
  BY <1>1
<1>3. d # None
  BY BlockRequestAssumption
<1> QED
  BY <1>1, <1>2, <1>3 DEF IInv, ListInv, Lists

\* Asleep, after the step, of a task that is named before it.
AsleepNext(t) == pc'[t] = "queued" /\ state'[t] = "BLOCKED"

\* A step that links and unlinks nothing, and puts no linked task to sleep in
\* device_request nor wakes one there.
LEMMA QuietLists ==
    ASSUME IInv, request_list' = request_list,
           \A u \in Clients : pc[u] \in InRequest /\ disk[u] # None =>
               /\ pc'[u] \in InRequest /\ disk'[u] = disk[u]
               /\ AsleepNext(u) <=> Asleep(u),
           \A u \in Clients : pc'[u] \in InRequest /\ disk'[u] # None =>
               pc[u] \in InRequest /\ disk[u] = disk'[u]
    PROVE  ListInv'
<1>1. ASSUME NEW d \in Disks, NEW i \in 1 .. Len(request_list[d])
      PROVE  /\ disk'[request_list[d][i]] = d
             /\ pc'[request_list[d][i]] \in InRequest
             /\ AsleepNext(request_list[d][i]) <=> Asleep(request_list[d][i])
  <2> DEFINE u == request_list[d][i]
  <2>1. u \in Clients /\ disk[u] = d /\ pc[u] \in InRequest /\ d # None
    BY <1>1, ListFacts
  <2> HIDE DEF u
  <2>2. pc'[u] \in InRequest /\ disk'[u] = disk[u] /\ (AsleepNext(u) <=> Asleep(u))
    BY <2>1
  <2> QED
    BY <2>1, <2>2 DEF u
<1>2. Lists'
  BY <1>1 DEF IInv, ListInv, Lists
<1>3. Linked'
  BY DEF IInv, ListInv, Linked
<1>4. OneAwake'
  BY <1>1 DEF IInv, ListInv, OneAwake, Asleep, AsleepNext
<1> QED
  BY <1>2, <1>3, <1>4 DEF ListInv

\* The start of device_request: the request is linked, and its task sleeps
\* exactly when the list was not empty.
LEMMA InsertLists ==
    ASSUME IInv, NEW t \in Clients, pc[t] \notin InRequest,
           NEW d \in Disks, NEW k \in Nat,
           request_list' = [request_list EXCEPT ![d] = InsertSort(@, t, k)],
           disk' = [disk EXCEPT ![t] = d],
           pc'[t] \in InRequest,
           \A u \in Clients \ {t} : pc'[u] = pc[u] /\ (AsleepNext(u) <=> Asleep(u)),
           AsleepNext(t) <=> request_list[d] # << >>
    PROVE  ListInv' /\ request_list' \in [Disks -> Seq(Clients)]
<1> DEFINE s == request_list[d]
           a == Anchor(s, k)
           r == InsertAt(s, a, t)
<1>1. /\ s \in Seq(Clients) /\ Len(s) \in Nat
      /\ \A i \in 1 .. Len(s) : s[i] \in Clients /\ s[i] # t
  BY ListFacts
<1>2. a \in 1 .. Len(s) + 1
  BY AnchorInList
<1>3. /\ r \in Seq(Clients) /\ Len(r) = Len(s) + 1
      /\ \A j \in 1 .. Len(s) + 1 : r[j] =
            IF j < a THEN s[j] ELSE IF j = a THEN t ELSE s[j - 1]
  <2> HIDE DEF s, a
  <2> QED
    BY <1>1, <1>2, InsertAtFacts
<1>4. request_list' = [request_list EXCEPT ![d] = r]
  BY DEF InsertSort
<1>5. request_list' \in [Disks -> Seq(Clients)]
  BY <1>3, <1>4 DEF IInv, TypeOK
<1>6. request_list'[d] = r /\ \A e \in Disks \ {d} : request_list'[e] = request_list[e]
  BY <1>4 DEF IInv, TypeOK
<1>7. disk'[t] = d /\ \A u \in Clients \ {t} : disk'[u] = disk[u]
  BY DEF IInv, TypeOK, Clients
<1>8. /\ \A i, j \in 1 .. Len(s) : s[i] = s[j] => i = j
      /\ \A i \in 1 .. Len(s) : disk[s[i]] = d /\ pc[s[i]] \in InRequest
  BY ListFacts
<1>9. s # << >> <=> Len(s) # 0
  BY <1>1, EmptySeq
<1>10. s # << >> => \E i \in 1 .. Len(s) : \A j \in 1 .. Len(s) : ~Asleep(s[j]) <=> j = i
  BY DEF IInv, ListInv, OneAwake
<1>11. AsleepNext(t) <=> s # << >>
  OBVIOUS
<1> HIDE DEF s, a, r
<1>12. ASSUME NEW j \in 1 .. Len(r)
      PROVE  \/ j = a /\ r[j] = t
             \/ j < a /\ j \in 1 .. Len(s) /\ r[j] = s[j]
             \/ j > a /\ j - 1 \in 1 .. Len(s) /\ r[j] = s[j - 1]
  <2>1. j \in 1 .. Len(s) + 1
    BY <1>3
  <2>2. CASE j < a
    <3>1. j \in 1 .. Len(s)
      BY <1>1, <1>2, <2>1, <2>2
    <3> QED
      BY <1>3, <2>1, <2>2, <3>1
  <2>3. CASE j = a
    BY <1>2, <1>3, <2>1, <2>3
  <2>4. CASE j > a
    <3>1. j - 1 \in 1 .. Len(s) /\ ~(j < a) /\ j # a
      BY <1>1, <1>2, <2>1, <2>4
    <3> QED
      BY <1>3, <2>1, <2>4, <3>1
  <2> QED
    BY <1>1, <1>2, <2>1, <2>2, <2>3, <2>4
<1>13. ASSUME NEW e \in Disks \ {d}, NEW i \in 1 .. Len(request_list[e])
       PROVE  /\ request_list[e][i] \in Clients \ {t}
              /\ disk[request_list[e][i]] = e /\ pc[request_list[e][i]] \in InRequest
  BY <1>13, ListFacts
<1>14. Lists'
  <2>1. ASSUME NEW i \in 1 .. Len(r), NEW j \in 1 .. Len(r), r[i] = r[j]
        PROVE  i = j
    <3>0. \A m \in 1 .. Len(r) : r[m] = t => m = a
      BY <1>1, <1>12
    <3>1. CASE i = a \/ j = a
      <4>1. r[a] = t /\ r[i] = r[a]
        BY <1>1, <1>2, <1>3, <2>1, <3>1
      <4> QED
        BY <2>1, <3>0, <4>1
    <3>2. CASE i < a /\ j < a
      <4>1. i \in 1 .. Len(s) /\ j \in 1 .. Len(s) /\ s[i] = s[j]
        BY <1>1, <1>2, <1>3, <1>12, <2>1, <3>2
      <4> QED
        BY <1>8, <4>1
    <3>3. CASE i > a /\ j > a
      <4>1. /\ i - 1 \in 1 .. Len(s) /\ r[i] = s[i - 1]
            /\ j - 1 \in 1 .. Len(s) /\ r[j] = s[j - 1]
        BY <1>2, <1>12, <3>3
      <4>2. i - 1 = j - 1
        BY <1>8, <2>1, <4>1
      <4> QED
        BY <4>1, <4>2
    <3>4. CASE i < a /\ j > a
      <4>1. i \in 1 .. Len(s) /\ j - 1 \in 1 .. Len(s) /\ s[i] = s[j - 1]
        BY <1>2, <1>12, <2>1, <3>4
      <4>2. i = j - 1
        BY <1>8, <4>1
      <4> QED
        BY <1>2, <3>4, <4>1, <4>2
    <3>5. CASE i > a /\ j < a
      <4>1. j \in 1 .. Len(s) /\ i - 1 \in 1 .. Len(s) /\ s[j] = s[i - 1]
        BY <1>2, <1>12, <2>1, <3>5
      <4>2. j = i - 1
        BY <1>8, <4>1
      <4> QED
        BY <1>2, <3>5, <4>1, <4>2
    <3> QED
      BY <1>1, <1>2, <3>1, <3>2, <3>3, <3>4, <3>5
  <2>2. ASSUME NEW i \in 1 .. Len(r)
        PROVE  disk'[r[i]] = d /\ pc'[r[i]] \in InRequest
    <3>1. r[i] = t \/ (r[i] \in Clients \ {t} /\ disk[r[i]] = d /\ pc[r[i]] \in InRequest)
      <4>1. CASE i = a
        BY <1>12, <4>1
      <4>2. CASE i < a
        <5>1. i \in 1 .. Len(s) /\ r[i] = s[i]
          BY <1>1, <1>2, <1>3, <4>2
        <5> QED
          BY <1>1, <1>8, <5>1
      <4>3. CASE i > a
        <5>1. i - 1 \in 1 .. Len(s) /\ r[i] = s[i - 1]
          BY <1>1, <1>2, <1>3, <4>3
        <5> QED
          BY <1>1, <1>8, <5>1
      <4> QED
        BY <1>1, <1>2, <4>1, <4>2, <4>3
    <3> QED
      BY <3>1, <1>7
  <2>3. ASSUME NEW e \in Disks \ {d}
        PROVE  /\ \A i, j \in 1 .. Len(request_list[e]) :
                    request_list[e][i] = request_list[e][j] => i = j
               /\ \A i \in 1 .. Len(request_list[e]) :
                    disk'[request_list[e][i]] = e /\ pc'[request_list[e][i]] \in InRequest
    BY <1>7, <1>13, ListFacts
  <2> QED
    BY <1>6, <2>1, <2>2, <2>3 DEF Lists
<1>15. Linked'
  <2> SUFFICES ASSUME NEW u \in Clients, pc'[u] \in InRequest, disk'[u] # None
               PROVE  \E i \in 1 .. Len(request_list'[disk'[u]]) :
                          request_list'[disk'[u]][i] = u
    BY DEF Linked
  <2>1. CASE u = t
    <3>1. a \in 1 .. Len(r) /\ r[a] = t
      BY <1>1, <1>2, <1>3
    <3> QED
      BY <2>1, <3>1, <1>6, <1>7
  <2>2. CASE u # t
    <3>1. pc[u] \in InRequest /\ disk[u] # None /\ disk'[u] = disk[u]
      BY <2>2, <1>7
    <3>2. PICK i \in 1 .. Len(request_list[disk[u]]) : request_list[disk[u]][i] = u
      BY <3>1 DEF IInv, ListInv, Linked
    <3>3. CASE disk[u] = d
      <4>1. i \in 1 .. Len(s) /\ s[i] = u
        BY <3>2, <3>3 DEF s
      <4>2. CASE i < a
        <5>1. i \in 1 .. Len(r) /\ r[i] = u
          BY <1>1, <1>3, <4>1, <4>2
        <5> QED
          BY <3>1, <3>3, <5>1, <1>6
      <4>3. CASE ~(i < a)
        <5>1. i + 1 \in 1 .. Len(s) + 1 /\ ~(i + 1 < a) /\ i + 1 # a /\ i + 1 - 1 = i
          BY <1>1, <1>2, <4>1, <4>3
        <5>2. i + 1 \in 1 .. Len(r) /\ r[i + 1] = u
          BY <1>3, <4>1, <5>1
        <5> QED
          BY <3>1, <3>3, <5>2, <1>6
      <4> QED
        BY <4>2, <4>3
    <3>4. CASE disk[u] # d
      <4>1. disk[u] \in Disks \ {d}
        BY <3>1, <3>4 DEF IInv, TypeOK, Clients
      <4> QED
        BY <3>1, <3>2, <4>1, <1>6
    <3> QED
      BY <3>3, <3>4
  <2> QED
    BY <2>1, <2>2
<1>16. OneAwake'
  <2>1. \E i \in 1 .. Len(r) : \A j \in 1 .. Len(r) : ~AsleepNext(r[j]) <=> j = i
    <3>1. CASE s = << >>
      <4>1. Len(s) = 0
        BY <3>1, <1>9
      <4>2. a \in 1 .. Len(r) /\ \A j \in 1 .. Len(r) : j = a /\ r[j] = t
        BY <4>1, <1>2, <1>3
      <4> QED
        BY <3>1, <4>2, <1>11
    <3>2. CASE s # << >>
      <4>1. PICK i \in 1 .. Len(s) : \A j \in 1 .. Len(s) : ~Asleep(s[j]) <=> j = i
        BY <3>2, <1>10
      <4>2. \A j \in 1 .. Len(s) : ~AsleepNext(s[j]) <=> j = i
        BY <1>1, <4>1
      <4>3. AsleepNext(t)
        BY <3>2, <1>11
      <4> DEFINE q == IF i < a THEN i ELSE i + 1
      <4>4. /\ q \in 1 .. Len(r) /\ q # a
            /\ q < a => q = i
            /\ q > a => q - 1 = i
            /\ i < a => q = i
            /\ ~(i < a) => q = i + 1
        BY <1>1, <1>2, <1>3
      <4> HIDE DEF q
      <4>5. ASSUME NEW j \in 1 .. Len(r)
            PROVE  ~AsleepNext(r[j]) <=> j = q
        <5>1. CASE j = a /\ r[j] = t
          BY <4>3, <4>4, <5>1
        <5>2. CASE j < a /\ j \in 1 .. Len(s) /\ r[j] = s[j]
          <6>1. ~AsleepNext(r[j]) <=> j = i
            BY <4>2, <5>2
          <6>2. j = i <=> j = q
            BY <1>1, <1>2, <4>4, <5>2
          <6> QED
            BY <6>1, <6>2
        <5>3. CASE j > a /\ j - 1 \in 1 .. Len(s) /\ r[j] = s[j - 1]
          <6>1. ~AsleepNext(r[j]) <=> j - 1 = i
            BY <4>2, <5>3
          <6>2. j - 1 = i <=> j = q
            BY <1>1, <1>2, <4>4, <5>3
          <6> QED
            BY <6>1, <6>2
        <5> QED
          BY <1>12, <5>1, <5>2, <5>3
      <4> QED
        BY <4>4, <4>5
    <3> QED
      BY <3>1, <3>2
  <2>2. ASSUME NEW e \in Disks \ {d}, request_list[e] # << >>
        PROVE  \E i \in 1 .. Len(request_list[e]) : \A j \in 1 .. Len(request_list[e]) :
                   ~AsleepNext(request_list[e][j]) <=> j = i
    <3>1. PICK i \in 1 .. Len(request_list[e]) : \A j \in 1 .. Len(request_list[e]) :
              ~Asleep(request_list[e][j]) <=> j = i
      BY <2>2 DEF IInv, ListInv, OneAwake
    <3>2. \A j \in 1 .. Len(request_list[e]) :
              AsleepNext(request_list[e][j]) <=> Asleep(request_list[e][j])
      BY <1>13
    <3> QED
      BY <3>1, <3>2
  <2>3. ASSUME NEW e \in Disks, request_list'[e] # << >>
        PROVE  \E i \in 1 .. Len(request_list'[e]) : \A j \in 1 .. Len(request_list'[e]) :
                   ~AsleepNext(request_list'[e][j]) <=> j = i
    <3>1. CASE e = d
      BY <2>1, <3>1, <1>6
    <3>2. CASE e # d
      <4>1. request_list'[e] = request_list[e] /\ e \in Disks \ {d}
        BY <3>2, <1>6
      <4>2. request_list[e] # << >>
        BY <2>3, <4>1
      <4> HIDE DEF AsleepNext
      <4> QED
        BY <4>1, <4>2, <2>2
    <3> QED
      BY <3>1, <3>2
  <2> QED
    BY <2>3 DEF OneAwake, Asleep, AsleepNext
<1> QED
  BY <1>5, <1>14, <1>15, <1>16 DEF ListInv

\* The end of device_request: the request is unlinked, and the one next to it
\* is woken, which then is the only one awake.
LEMMA FinishRequestKeeps ==
    ASSUME IInv, NEW t \in Clients, FinishRequest(t)
    PROVE  IInv'
<1> DEFINE d == disk[t]
           s == request_list[d]
           p == Position(t)
           n == Len(s)
           q == IF Turns(t) = "UP" THEN p + 1 ELSE p - 1
           r == RemoveAt(s, p)
           W == NextRequest(t)
           after == IF t \in exiting THEN "exit" ELSE "user"
<1>1. /\ current = t /\ state[t] \in {"RUNNING", "DIED"} /\ pc[t] = "finish"
      /\ d \in Disks /\ t \in Tasks /\ t # Idle
      /\ Clients \subseteq Tasks
  BY BlockRequestAssumption DEF FinishRequest, OnCpu, IInv, TypeOK, Clients
<1>2. /\ direct' = [direct EXCEPT ![d] = Turns(t)]
      /\ request_list' = [request_list EXCEPT ![d] = r]
      /\ state' = Wake(state, W)
      /\ pc' = [pc EXCEPT ![t] = after]
      /\ UNCHANGED <<current, idx, disk, lock, lock_waiters, waiter, busy, irq>>
  BY DEF FinishRequest, Returns, Moves, controller
<1>3. /\ s \in Seq(Clients) /\ n \in Nat
      /\ \A i \in 1 .. n : s[i] \in Clients /\ disk[s[i]] = d /\ pc[s[i]] \in InRequest
      /\ \A i, j \in 1 .. n : s[i] = s[j] => i = j
      /\ DOMAIN s = 1 .. n
  BY <1>1, ListFacts, LenProperties
<1>4. p \in 1 .. n /\ s[p] = t
  <2>1. \E i \in 1 .. n : s[i] = t
    BY <1>1, BlockRequestAssumption DEF IInv, ListInv, Linked, InRequest
  <2>2. p = CHOOSE i \in 1 .. n : s[i] = t
    BY <1>3 DEF Position
  <2> HIDE DEF p, n, s
  <2> QED
    BY <2>1, <2>2
<1>5. ~Asleep(t)
  BY <1>1 DEF Asleep
<1>6. \A i \in 1 .. n : ~Asleep(s[i]) <=> i = p
  <2>1. s # << >>
    BY <1>3, <1>4
  <2>2. PICK i \in 1 .. n : \A j \in 1 .. n : ~Asleep(s[j]) <=> j = i
    BY <1>1, <2>1 DEF IInv, ListInv, OneAwake
  <2>3. i = p
    BY <2>2, <1>4, <1>5
  <2> QED
    BY <2>2, <2>3
<1>7. Turns(t) \in {"UP", "DOWN"}
      /\ (n # 1 => q \in 1 .. n) /\ (n = 1 => q \notin 1 .. n) /\ q # p /\ q \in Int
  <2>1. direct[d] \in {"UP", "DOWN"}
    BY <1>1 DEF IInv, TypeOK
  <2>2. Turns(t) = IF direct[d] = "UP" /\ p = n THEN "DOWN"
                   ELSE IF direct[d] = "DOWN" /\ p = 1 THEN "UP" ELSE direct[d]
    BY DEF Turns
  <2> DEFINE u == Turns(t)
  <2> HIDE DEF u, p, n
  <2>3. p \in Nat /\ n \in Nat /\ 1 <= p /\ p <= n
    BY <1>3, <1>4
  <2>4. u \in {"UP", "DOWN"} /\ (u = "UP" /\ n # 1 => p # n) /\ (u = "DOWN" /\ n # 1 => p # 1)
    BY <2>1, <2>2, <2>3 DEF u
  <2> QED
    BY <2>3, <2>4 DEF u
<1>8. W = {s[j] : j \in (1 .. n) \cap {q}}
  BY <1>3 DEF NextRequest
<1>9. /\ r \in Seq(Clients) /\ Len(r) = n - 1
      /\ \A j \in 1 .. n - 1 : r[j] = IF j < p THEN s[j] ELSE s[j + 1]
  <2>1. s \in Seq(Clients) /\ p \in 1 .. Len(s)
    BY <1>3, <1>4
  <2> HIDE DEF s, p
  <2> QED
    BY <2>1, RemoveAtFacts
<1>10. /\ request_list' \in [Disks -> Seq(Clients)]
       /\ request_list'[d] = r
       /\ \A e \in Disks \ {d} : request_list'[e] = request_list[e]
  BY <1>1, <1>2, <1>9 DEF IInv, TypeOK
<1>11. /\ \A u \in Tasks : pc'[u] = IF u = t THEN after ELSE pc[u]
       /\ \A u \in Tasks : state'[u] = IF u \in W THEN "READY" ELSE state[u]
       /\ disk' = disk
       /\ after \notin InRequest
  <2>1. \A u \in Tasks : pc'[u] = IF u = t THEN after ELSE pc[u]
    BY <1>2 DEF IInv, TypeOK
  <2>2. after \notin InRequest
    BY DEF InRequest
  <2> HIDE DEF W, after
  <2> QED
    BY <1>2, <2>1, <2>2 DEF Wake
<1>12. \A u \in W : u \in Clients /\ disk[u] = d /\ Asleep(u) /\ u # t
  BY <1>3, <1>4, <1>6, <1>7, <1>8
<1> HIDE DEF s, p, n, q, r, W, after
<1>13. ASSUME NEW j \in 1 .. Len(r)
       PROVE  \/ j < p /\ j \in 1 .. n /\ r[j] = s[j]
              \/ ~(j < p) /\ j + 1 \in 1 .. n /\ j + 1 # p /\ r[j] = s[j + 1]
  <2>1. j \in 1 .. n - 1 /\ p \in Int /\ n \in Nat
    BY <1>3, <1>4, <1>9
  <2>2. CASE j < p
    BY <1>9, <2>1, <2>2
  <2>3. CASE ~(j < p)
    <3>1. j + 1 \in 1 .. n /\ j + 1 # p
      BY <2>1, <2>3
    <3> QED
      BY <1>9, <2>1, <2>3, <3>1
  <2> QED
    BY <2>2, <2>3
<1>14. \A j \in 1 .. Len(r) : r[j] \in Clients /\ r[j] # t /\ disk[r[j]] = d /\ pc[r[j]] \in InRequest
  BY <1>3, <1>4, <1>13
<1>15. \A e \in Disks \ {d} : \A j \in 1 .. Len(request_list[e]) :
           /\ request_list[e][j] \in Clients /\ disk[request_list[e][j]] = e
           /\ pc[request_list[e][j]] \in InRequest
           /\ request_list[e][j] # t /\ request_list[e][j] \notin W
  BY <1>12, ListFacts DEF d
<1>16. Lists'
  <2>1. ASSUME NEW i \in 1 .. Len(r), NEW j \in 1 .. Len(r), r[i] = r[j]
        PROVE  i = j
    <3>0. i \in Int /\ j \in Int /\ p \in Int
      BY <1>4
    <3>1. CASE i < p /\ j < p
      BY <1>3, <1>13, <2>1, <3>1
    <3>2. CASE ~(i < p) /\ ~(j < p)
      <4>1. i + 1 = j + 1
        BY <1>3, <1>13, <2>1, <3>2
      <4> QED
        BY <3>0, <4>1
    <3>3. CASE i < p /\ ~(j < p)
      <4>1. i = j + 1
        BY <1>3, <1>13, <2>1, <3>3
      <4> QED
        BY <3>0, <3>3, <4>1
    <3>4. CASE ~(i < p) /\ j < p
      <4>1. i + 1 = j
        BY <1>3, <1>13, <2>1, <3>4
      <4> QED
        BY <3>0, <3>4, <4>1
    <3> QED
      BY <3>1, <3>2, <3>3, <3>4
  <2>2. \A j \in 1 .. Len(r) : disk'[r[j]] = d /\ pc'[r[j]] \in InRequest
    BY <1>1, <1>11, <1>14
  <2>3. ASSUME NEW e \in Disks \ {d}
        PROVE  /\ \A i, j \in 1 .. Len(request_list[e]) :
                    request_list[e][i] = request_list[e][j] => i = j
               /\ \A i \in 1 .. Len(request_list[e]) :
                    disk'[request_list[e][i]] = e /\ pc'[request_list[e][i]] \in InRequest
    BY <1>1, <1>11, <1>15, ListFacts
  <2>4. ASSUME NEW e \in Disks
        PROVE  /\ \A i, j \in 1 .. Len(request_list'[e]) :
                    request_list'[e][i] = request_list'[e][j] => i = j
               /\ \A i \in 1 .. Len(request_list'[e]) :
                    disk'[request_list'[e][i]] = e /\ pc'[request_list'[e][i]] \in InRequest
    <3>1. CASE e = d
      BY <1>10, <2>1, <2>2, <3>1
    <3>2. CASE e # d
      BY <1>10, <2>3, <3>2
    <3> QED
      BY <3>1, <3>2
  <2> QED
    BY <2>4 DEF Lists
<1>17. Linked'
  <2> SUFFICES ASSUME NEW u \in Clients, pc'[u] \in InRequest, disk'[u] # None
               PROVE  \E i \in 1 .. Len(request_list'[disk[u]]) :
                          request_list'[disk[u]][i] = u
    BY <1>11 DEF Linked
  <2>1. u # t /\ pc[u] \in InRequest /\ disk[u] # None
    BY <1>1, <1>11
  <2>2. PICK i \in 1 .. Len(request_list[disk[u]]) : request_list[disk[u]][i] = u
    BY <2>1 DEF IInv, ListInv, Linked
  <2>3. CASE disk[u] = d
    <3>1. i \in 1 .. n /\ s[i] = u /\ i # p /\ p \in Int /\ n \in Nat
      BY <1>3, <1>4, <2>1, <2>2, <2>3 DEF s, n
    <3>2. CASE i < p
      <4>1. i \in 1 .. Len(r) /\ r[i] = u
        BY <1>4, <1>9, <3>1, <3>2
      <4> QED
        BY <1>10, <2>3, <4>1
    <3>3. CASE ~(i < p)
      <4>1. i - 1 \in 1 .. n - 1 /\ ~(i - 1 < p) /\ i - 1 + 1 = i
        BY <1>4, <3>1, <3>3
      <4>2. i - 1 \in 1 .. Len(r) /\ r[i - 1] = u
        BY <1>9, <3>1, <4>1
      <4> QED
        BY <1>10, <2>3, <4>2
    <3> QED
      BY <3>2, <3>3
  <2>4. CASE disk[u] # d
    <3>1. disk[u] \in Disks \ {d}
      BY <1>1, <2>1, <2>4 DEF IInv, TypeOK
    <3> QED
      BY <1>10, <2>2, <3>1
  <2> QED
    BY <2>3, <2>4
<1>18. OneAwake'
  <2>1. ASSUME r # << >>
        PROVE  \E i \in 1 .. Len(r) : \A j \in 1 .. Len(r) : ~AsleepNext(r[j]) <=> j = i
    <3>1. n \in Nat /\ n # 1 /\ n # 0
      BY <1>3, <1>4, <1>9, <2>1, EmptySeq
    <3>2. q \in 1 .. n /\ W = {s[q]}
      BY <1>7, <1>8, <3>1
    <3>3. /\ \A j \in 1 .. n : j # p => (~AsleepNext(s[j]) <=> j = q)
      <4> SUFFICES ASSUME NEW j \in 1 .. n, j # p
                   PROVE  ~AsleepNext(s[j]) <=> j = q
        OBVIOUS
      <4>1. Asleep(s[j]) /\ s[j] \in Tasks /\ s[j] # t
        BY <1>1, <1>3, <1>4, <1>6
      <4>2. s[j] \in W <=> j = q
        BY <1>3, <3>2
      <4> QED
        BY <1>11, <4>1, <4>2 DEF Asleep, AsleepNext
    <3> DEFINE i == IF q < p THEN q ELSE q - 1
    <3>4. /\ i \in 1 .. Len(r)
          /\ q < p => i = q
          /\ ~(q < p) => i = q - 1
      BY <1>3, <1>4, <1>7, <1>9, <3>2
    <3> HIDE DEF i
    <3>5. ASSUME NEW j \in 1 .. Len(r)
          PROVE  ~AsleepNext(r[j]) <=> j = i
      <4>0. j \in Int /\ p \in Int /\ q \in Int /\ q # p
        BY <1>4, <1>7
      <4>1. CASE j < p /\ j \in 1 .. n /\ r[j] = s[j]
        <5>1. ~AsleepNext(r[j]) <=> j = q
          BY <3>3, <4>0, <4>1
        <5>2. j = q <=> j = i
          BY <3>4, <4>0, <4>1
        <5> QED
          BY <5>1, <5>2
      <4>2. CASE ~(j < p) /\ j + 1 \in 1 .. n /\ j + 1 # p /\ r[j] = s[j + 1]
        <5>1. ~AsleepNext(r[j]) <=> j + 1 = q
          BY <3>3, <4>2
        <5>2. j + 1 = q <=> j = i
          BY <3>4, <4>0, <4>2
        <5> QED
          BY <5>1, <5>2
      <4> QED
        BY <1>13, <4>1, <4>2
    <3> QED
      BY <3>4, <3>5
  <2>2. ASSUME NEW e \in Disks \ {d}, request_list[e] # << >>
        PROVE  \E i \in 1 .. Len(request_list[e]) : \A j \in 1 .. Len(request_list[e]) :
                   ~AsleepNext(request_list[e][j]) <=> j = i
    <3>1. PICK i \in 1 .. Len(request_list[e]) : \A j \in 1 .. Len(request_list[e]) :
              ~Asleep(request_list[e][j]) <=> j = i
      BY <2>2 DEF IInv, ListInv, OneAwake
    <3>2. \A j \in 1 .. Len(request_list[e]) :
              AsleepNext(request_list[e][j]) <=> Asleep(request_list[e][j])
      BY <1>1, <1>11, <1>15 DEF Asleep, AsleepNext
    <3> QED
      BY <3>1, <3>2
  <2>3. ASSUME NEW e \in Disks, request_list'[e] # << >>
        PROVE  \E i \in 1 .. Len(request_list'[e]) : \A j \in 1 .. Len(request_list'[e]) :
                   ~AsleepNext(request_list'[e][j]) <=> j = i
    <3>1. CASE e = d
      BY <2>1, <2>3, <3>1, <1>10
    <3>2. CASE e # d
      <4>1. request_list'[e] = request_list[e] /\ e \in Disks \ {d}
        BY <3>2, <1>10
      <4>2. request_list[e] # << >>
        BY <2>3, <4>1
      <4> HIDE DEF AsleepNext
      <4> QED
        BY <4>1, <4>2, <2>2
    <3> QED
      BY <3>1, <3>2
  <2> QED
    BY <2>3 DEF OneAwake, Asleep, AsleepNext
<1>19. TypeOK'
  <2>1. state' \in [Tasks -> TaskState]
    <3>1. \A u \in Tasks : state'[u] \in TaskState
      BY <1>11 DEF IInv, TypeOK, TaskState
    <3>2. state' = [u \in Tasks |-> state'[u]]
      BY <1>2 DEF Wake
    <3> QED
      BY <3>1, <3>2
  <2>2. direct' \in [Disks -> {"UP", "DOWN"}]
    BY <1>1, <1>2, <1>7 DEF IInv, TypeOK
  <2>3. pc' \in [Tasks -> InRequest \cup {"user", "exit", "gone"}]
    BY <1>2 DEF IInv, TypeOK, after
  <2> QED
    BY <1>2, <1>10, <2>1, <2>2, <2>3 DEF IInv, TypeOK
<1>20. \A u \in Tasks : u \in W => pc[u] = "queued" /\ u # Idle
  BY <1>12 DEF Asleep, Clients
<1>21. OnlyCurrentRuns' /\ IdleIsAwake'
  BY <1>1, <1>2, <1>11, <1>20, DispatcherAssumption
  DEF IInv, ControllerInv, OnlyCurrentRuns, IdleIsAwake
<1>22. AtDrive'
  BY <1>1, <1>2, <1>11 DEF IInv, ControllerInv, AtDrive, InRequest
<1>23. LockQueue'
  <2>1. \A i \in 1 .. Len(lock_waiters) :
          lock_waiters[i] \in Tasks /\ lock_waiters[i] # t /\ lock_waiters[i] \notin W
    BY <1>1, <1>20 DEF IInv, TypeOK, ControllerInv, LockQueue
  <2> QED
    BY <1>2, <1>11, <2>1 DEF IInv, ControllerInv, LockQueue
<1>24. WaiterIsWoken'
  BY <1>1, <1>2, <1>11, <1>20 DEF IInv, ControllerInv, WaiterIsWoken, InRequest
<1> QED
  BY <1>16, <1>17, <1>18, <1>19, <1>21, <1>22, <1>23, <1>24 DEF IInv, ControllerInv, ListInv

-----------------------------------------------------------------------------
LEMMA InitIInv == Init => IInv
<1> SUFFICES ASSUME Init PROVE IInv
  OBVIOUS
<1> USE DEF Init, DispatchInit
<1>1. Idle \in Tasks /\ Boot \notin Tasks /\ None \notin Tasks
  BY DispatcherAssumption, BlockRequestAssumption
<1>2. << >> \in Seq(Clients) /\ Len(<< >>) = 0
  BY EmptySeq
<1>3. TypeOK
  BY <1>1, <1>2 DEF TypeOK, TaskState
<1>4. ControllerInv
  BY <1>1, <1>2 DEF ControllerInv, OnlyCurrentRuns, IdleIsAwake, AtDrive, LockQueue,
                    WaiterIsWoken, Awake
<1>5. ListInv
  BY <1>1, <1>2 DEF ListInv, Lists, Linked, OneAwake, InRequest, Clients
<1> QED
  BY <1>3, <1>4, <1>5 DEF IInv

\* A transfer of a task that is linked already, or that makes no request.
LEMMA TransferKeeps ==
    ASSUME IInv, NEW t \in Clients, current = t, state[t] \in {"RUNNING", "DIED"},
           \/ pc[t] \in {"queued", "lock"} /\ disk' = disk
           \/ pc[t] \notin InRequest /\ disk' = [disk EXCEPT ![t] = None],
           Transfer(t, state),
           UNCHANGED <<request_list, direct, idx>>
    PROVE  IInv'
<1>1. t \in Tasks /\ Clients \subseteq Tasks /\ None \notin Tasks
  BY BlockRequestAssumption DEF Clients
<1>2. pc[t] \notin {"sector"}
  BY DEF InRequest
<1>3. /\ current' \in Tasks /\ state' \in [Tasks -> TaskState]
      /\ lock' \in Clients \cup {None} /\ lock_waiters' \in Seq(Clients)
      /\ waiter' \in Clients \cup {None} /\ busy' \in BOOLEAN /\ irq' \in BOOLEAN
      /\ pc' \in [Tasks -> InRequest \cup {"user", "exit", "gone"}]
      /\ ControllerInv'
      /\ pc'[t] \in {"lock", "sector"}
      /\ \A u \in Tasks \ {t} : /\ pc'[u] = pc[u]
                                /\ state'[u] = "BLOCKED" <=> state[u] = "BLOCKED"
  BY <1>2, TransferStep
<1>4. /\ disk' \in [Tasks -> Disks \cup {None}]
      /\ \A u \in Tasks \ {t} : disk'[u] = disk[u]
      /\ \/ pc[t] \in {"queued", "lock"} /\ disk'[t] = disk[t]
         \/ pc[t] \notin InRequest /\ disk'[t] = None
  BY <1>1 DEF IInv, TypeOK
<1>5. TypeOK'
  BY <1>3, <1>4 DEF IInv, TypeOK
<1>6. ~AsleepNext(t) /\ ~Asleep(t)
  BY <1>1, <1>3 DEF AsleepNext, Asleep
<1>7. \A u \in Clients : pc[u] \in InRequest /\ disk[u] # None =>
        /\ pc'[u] \in InRequest /\ disk'[u] = disk[u]
        /\ AsleepNext(u) <=> Asleep(u)
  <2> SUFFICES ASSUME NEW u \in Clients, pc[u] \in InRequest, disk[u] # None
               PROVE  /\ pc'[u] \in InRequest /\ disk'[u] = disk[u]
                      /\ AsleepNext(u) <=> Asleep(u)
    OBVIOUS
  <2>1. CASE u = t
    BY <1>3, <1>4, <1>6, <2>1 DEF InRequest
  <2>2. CASE u # t
    BY <1>1, <1>3, <1>4, <2>2 DEF AsleepNext, Asleep
  <2> QED
    BY <2>1, <2>2
<1>8. \A u \in Clients : pc'[u] \in InRequest /\ disk'[u] # None =>
        pc[u] \in InRequest /\ disk[u] = disk'[u]
  BY <1>1, <1>3, <1>4 DEF InRequest
<1>9. ListInv'
  BY <1>7, <1>8, QuietLists
<1> QED
  BY <1>3, <1>5, <1>9 DEF IInv

\* A new request.
LEMMA RequestKeeps ==
    ASSUME IInv, NEW t \in Clients, current = t, state[t] \in {"RUNNING", "DIED"},
           pc[t] \in {"user", "exit"},
           NEW d \in Disks, NEW k \in Positions,
           NEW st, st = state \/ st = [state EXCEPT ![t] = "DIED"],
           Request(t, d, k, st)
    PROVE  IInv'
<1>1. /\ t \in Tasks /\ t # Idle /\ Clients \subseteq Tasks /\ None \notin Tasks
      /\ k \in Nat /\ Idle \in Tasks
  BY BlockRequestAssumption, DispatcherAssumption DEF Clients
<1>2. /\ request_list' = [request_list EXCEPT ![d] = InsertSort(@, t, k)]
      /\ idx' = [idx EXCEPT ![t] = k]
      /\ disk' = [disk EXCEPT ![t] = d]
      /\ direct' = direct
  BY DEF Request
<1>3. ASSUME request_list[d] = << >>
      PROVE  /\ current' \in Tasks /\ state' \in [Tasks -> TaskState]
             /\ lock' \in Clients \cup {None} /\ lock_waiters' \in Seq(Clients)
             /\ waiter' \in Clients \cup {None} /\ busy' \in BOOLEAN /\ irq' \in BOOLEAN
             /\ pc' \in [Tasks -> InRequest \cup {"user", "exit", "gone"}]
             /\ ControllerInv'
             /\ pc'[t] \in {"lock", "sector"}
             /\ \A u \in Tasks \ {t} : /\ pc'[u] = pc[u]
                                       /\ state'[u] = "BLOCKED" <=> state[u] = "BLOCKED"
  <2>1. Transfer(t, st)
    BY <1>3 DEF Request
  <2> QED
    BY <2>1, TransferStep
<1>4. ASSUME request_list[d] # << >>
      PROVE  /\ current' \in Tasks /\ state' \in [Tasks -> TaskState]
             /\ UNCHANGED <<lock, lock_waiters, waiter, busy, irq>>
             /\ pc' \in [Tasks -> InRequest \cup {"user", "exit", "gone"}]
             /\ ControllerInv'
             /\ pc'[t] = "queued" /\ state'[t] = "BLOCKED"
             /\ \A u \in Tasks \ {t} : /\ pc'[u] = pc[u]
                                       /\ state'[u] = "BLOCKED" <=> state[u] = "BLOCKED"
  <2> DEFINE bl == Blocked(t, st)
  <2>1. /\ pc' = [pc EXCEPT ![t] = "queued"]
        /\ Dispatch(bl)
        /\ UNCHANGED <<lock, lock_waiters, waiter, busy, irq>>
    BY <1>4 DEF Request, Moves, controller
  <2>2. /\ st \in [Tasks -> TaskState]
        /\ \A u \in Tasks \ {t} : st[u] = state[u]
    BY <1>1 DEF IInv, TypeOK, TaskState
  <2>3. /\ bl \in [Tasks -> TaskState]
        /\ bl[t] = "BLOCKED"
        /\ \A u \in Tasks \ {t} : bl[u] = state[u]
        /\ \A u \in Tasks : bl[u] = "RUNNING" => u = current
        /\ bl[Idle] \in Awake
    BY <1>1, <2>2 DEF Blocked, TaskState, Stopped, IInv, ControllerInv, OnlyCurrentRuns, IdleIsAwake
  <2> HIDE DEF bl
  <2>4. /\ current' \in Tasks
        /\ state' \in [Tasks -> TaskState]
        /\ OnlyCurrentRuns'
        /\ \A u \in Tasks : state'[u] = "BLOCKED" <=> bl[u] = "BLOCKED"
        /\ state'[Idle] \in Awake
    BY <2>1, <2>3, DispatchStep
  <2>5. /\ \A u \in Tasks : pc'[u] = IF u = t THEN "queued" ELSE pc[u]
        /\ pc' \in [Tasks -> InRequest \cup {"user", "exit", "gone"}]
    BY <1>1, <2>1 DEF IInv, TypeOK, InRequest
  <2>6. IdleIsAwake'
    BY <1>1, <2>4, <2>5 DEF IInv, ControllerInv, IdleIsAwake
  <2>7. AtDrive'
    BY <2>1, <2>5 DEF IInv, ControllerInv, AtDrive
  <2>8. LockQueue'
    <3>1. \A i \in 1 .. Len(lock_waiters) : lock_waiters[i] \in Tasks /\ lock_waiters[i] # t
      BY <1>1 DEF IInv, TypeOK, ControllerInv, LockQueue
    <3> QED
      BY <2>1, <2>3, <2>4, <2>5, <3>1 DEF IInv, ControllerInv, LockQueue
  <2>9. WaiterIsWoken'
    BY <1>1, <2>1, <2>3, <2>4, <2>5 DEF IInv, ControllerInv, WaiterIsWoken
  <2>10. ControllerInv'
    BY <2>4, <2>6, <2>7, <2>8, <2>9 DEF ControllerInv
  <2> QED
    BY <1>1, <2>1, <2>3, <2>4, <2>5, <2>10
<1>5. /\ pc'[t] \in InRequest
      /\ \A u \in Clients \ {t} : pc'[u] = pc[u] /\ (AsleepNext(u) <=> Asleep(u))
      /\ AsleepNext(t) <=> request_list[d] # << >>
      /\ pc[t] \notin InRequest
  <2>1. CASE request_list[d] = << >>
    BY <1>1, <1>3, <2>1 DEF InRequest, Asleep, AsleepNext
  <2>2. CASE request_list[d] # << >>
    BY <1>1, <1>4, <2>2 DEF InRequest, Asleep, AsleepNext
  <2> QED
    BY <2>1, <2>2
<1>6. ListInv' /\ request_list' \in [Disks -> Seq(Clients)]
  BY <1>1, <1>2, <1>5, InsertLists
<1>7. TypeOK' /\ ControllerInv'
  <2>1. /\ direct' \in [Disks -> {"UP", "DOWN"}]
        /\ idx' \in [Tasks -> Nat] /\ disk' \in [Tasks -> Disks \cup {None}]
    BY <1>1, <1>2 DEF IInv, TypeOK
  <2>2. CASE request_list[d] = << >>
    BY <1>3, <1>6, <2>1, <2>2 DEF TypeOK
  <2>3. CASE request_list[d] # << >>
    <3>1. /\ lock' \in Clients \cup {None} /\ lock_waiters' \in Seq(Clients)
          /\ waiter' \in Clients \cup {None} /\ busy' \in BOOLEAN /\ irq' \in BOOLEAN
      BY <1>4, <2>3 DEF IInv, TypeOK
    <3> QED
      BY <1>4, <1>6, <2>1, <2>3, <3>1 DEF TypeOK
  <2> QED
    BY <2>2, <2>3
<1> QED
  BY <1>6, <1>7 DEF IInv

\* The middle of a transfer: the task that gets the processor at the drive
\* is the holder, and nobody waits for the interrupt.
LEMMA AtTheDrive ==
    ASSUME IInv, NEW t \in Clients, OnCpu(t, "sector")
    PROVE  /\ t \in Tasks /\ t # Idle /\ lock = t /\ waiter = None
           /\ \A u \in Tasks : pc[u] = "sector" <=> u = t
           /\ state[t] \in {"RUNNING", "DIED"} /\ current = t
<1>1. t \in Tasks /\ t # Idle
  BY DEF Clients
<1>2. /\ pc[t] = "sector" /\ state[t] \in {"RUNNING", "DIED"} /\ current = t
  BY DEF OnCpu
<1>3. lock = t /\ \A u \in Tasks : pc[u] = "sector" <=> u = t
  BY <1>1, <1>2 DEF IInv, ControllerInv, AtDrive
<1>4. waiter = None
  BY <1>2, <1>3, WaiterAtDrive
<1> QED
  BY <1>1, <1>2, <1>3, <1>4

LEMMA NextSectorKeeps ==
    ASSUME IInv, NEW t \in Clients, NextSector(t)
    PROVE  IInv'
<1>1. /\ t \in Tasks /\ t # Idle /\ lock = t /\ waiter = None
      /\ \A u \in Tasks : pc[u] = "sector" <=> u = t
      /\ state[t] \in {"RUNNING", "DIED"} /\ current = t
  BY AtTheDrive DEF NextSector
<1>2. /\ irq' = (irq \/ busy) /\ busy' = TRUE
      /\ AwaitSector(t, state)
      /\ UNCHANGED <<request_list, direct, idx, disk, lock, lock_waiters, pc>>
  BY DEF NextSector, SectorReady, requests
<1>3. Idle \in Tasks /\ None \notin Tasks /\ Clients \subseteq Tasks
  BY BlockRequestAssumption, DispatcherAssumption DEF Clients
<1> DEFINE bl == Blocked(t, state)
<1>4. /\ bl \in [Tasks -> TaskState]
      /\ bl[t] = "BLOCKED"
      /\ \A u \in Tasks \ {t} : bl[u] = state[u]
      /\ \A u \in Tasks : bl[u] = "RUNNING" => u = current
      /\ bl[Idle] \in Awake
  BY <1>1, <1>3 DEF Blocked, TaskState, Stopped, IInv, TypeOK, ControllerInv,
                    OnlyCurrentRuns, IdleIsAwake
<1> HIDE DEF bl
<1>5. /\ current' \in Tasks \cup {Boot} /\ state' \in [Tasks -> TaskState]
      /\ OnlyCurrentRuns' /\ state'[Idle] \in Awake
      /\ \A u \in Tasks \ {t} : state'[u] = "BLOCKED" <=> state[u] = "BLOCKED"
      /\ waiter' = IF state'[t] = "BLOCKED" THEN t ELSE None
  <2>1. CASE state[t] = "RUNNING"
    <3>1. waiter' = t /\ Dispatch(bl)
      BY <1>2, <2>1 DEF AwaitSector, bl
    <3>2. /\ current' \in Tasks
          /\ state' \in [Tasks -> TaskState]
          /\ OnlyCurrentRuns'
          /\ \A u \in Tasks : state'[u] = "BLOCKED" <=> bl[u] = "BLOCKED"
          /\ state'[Idle] \in Awake
      BY <1>4, <3>1, DispatchStep
    <3> QED
      BY <1>1, <1>4, <3>1, <3>2
  <2>2. CASE state[t] = "DIED"
    <3>1. state' = state /\ current' = current /\ waiter' = None
      BY <1>1, <1>2, <2>2 DEF AwaitSector
    <3> QED
      BY <1>1, <2>2, <3>1 DEF IInv, TypeOK, ControllerInv, OnlyCurrentRuns, IdleIsAwake
  <2> QED
    BY <1>1, <2>1, <2>2
<1>6. TypeOK'
  BY <1>1, <1>2, <1>5 DEF IInv, TypeOK
<1>7. IdleIsAwake' /\ AtDrive'
  BY <1>2, <1>5 DEF IInv, ControllerInv, IdleIsAwake, AtDrive
<1>8. LockQueue'
  <2>1. \A i \in 1 .. Len(lock_waiters) :
          lock_waiters[i] \in Tasks /\ lock_waiters[i] # t
    BY <1>1 DEF IInv, TypeOK, ControllerInv, LockQueue, Clients
  <2> QED
    BY <1>2, <1>5, <2>1 DEF IInv, ControllerInv, LockQueue
<1>9. WaiterIsWoken'
  BY <1>1, <1>2, <1>3, <1>5 DEF WaiterIsWoken
<1>10. ListInv'
  <2>1. \A u \in Clients : AsleepNext(u) <=> Asleep(u)
    BY <1>1, <1>2, <1>3, <1>5 DEF Asleep, AsleepNext
  <2> QED
    BY <1>2, <2>1, QuietLists
<1> QED
  BY <1>5, <1>6, <1>7, <1>8, <1>9, <1>10 DEF IInv, ControllerInv

LEMMA LastSectorKeeps ==
    ASSUME IInv, NEW t \in Clients, LastSector(t)
    PROVE  IInv'
<1>1. /\ t \in Tasks /\ t # Idle /\ lock = t /\ waiter = None
      /\ \A u \in Tasks : pc[u] = "sector" <=> u = t
      /\ state[t] \in {"RUNNING", "DIED"} /\ current = t
  BY AtTheDrive DEF LastSector
<1>2. /\ irq' = (irq \/ busy) /\ busy' = FALSE /\ lock' = None /\ waiter' = None
      /\ pc' = [pc EXCEPT ![t] = "finish"]
      /\ UNCHANGED <<request_list, direct, idx, disk>>
  BY <1>1 DEF LastSector, SectorReady, requests, Moves
<1>3. Idle \in Tasks /\ None \notin Tasks /\ Clients \subseteq Tasks
  BY BlockRequestAssumption, DispatcherAssumption DEF Clients
<1>4. /\ \A u \in Tasks : pc'[u] = IF u = t THEN "finish" ELSE pc[u]
      /\ pc' \in [Tasks -> InRequest \cup {"user", "exit", "gone"}]
  BY <1>2 DEF IInv, TypeOK, InRequest
<1> DEFINE n == Len(lock_waiters)
           m == Len(lock_waiters')
<1>5. \A i \in 1 .. n : /\ lock_waiters[i] \in Clients /\ lock_waiters[i] # t
                        /\ pc[lock_waiters[i]] = "lock"
                        /\ state[lock_waiters[i]] = "BLOCKED"
  BY <1>1, <1>3 DEF IInv, TypeOK, ControllerInv, LockQueue
<1>6. /\ current' \in Tasks \cup {Boot} /\ state' \in [Tasks -> TaskState]
      /\ OnlyCurrentRuns' /\ state'[Idle] \in Awake
      /\ lock_waiters' \in Seq(Clients)
      /\ m <= n /\ m \in Nat /\ n \in Nat
      /\ \A i \in 1 .. m : lock_waiters'[i] = lock_waiters[i]
      /\ \A i \in 1 .. m : state'[lock_waiters[i]] = "BLOCKED"
      /\ \A u \in Tasks : pc[u] # "lock" =>
            (state'[u] = "BLOCKED" <=> state[u] = "BLOCKED")
  <2>1. CASE lock_waiters = << >>
    <3>1. UNCHANGED <<current, state, lock_waiters>>
      BY <2>1 DEF LastSector
    <3> QED
      BY <1>3, <1>5, <3>1, LenProperties DEF IInv, TypeOK, ControllerInv, OnlyCurrentRuns, IdleIsAwake
  <2>2. CASE lock_waiters # << >>
    <3> DEFINE w == Last(lock_waiters)
               st == Wake(state, {w})
    <3>1. lock_waiters' = Front(lock_waiters) /\ Dispatch(st)
      BY <2>2 DEF LastSector
    <3>2. /\ lock_waiters' \in Seq(Clients)
          /\ n \in Nat \ {0} /\ m = n - 1
          /\ \A j \in 1 .. n - 1 : lock_waiters'[j] = lock_waiters[j]
          /\ w = lock_waiters[n] /\ w \in Clients
      BY <2>2, <3>1, FrontFacts DEF IInv, TypeOK
    <3>3. pc[w] = "lock" /\ w \in Tasks /\ w # Idle
      BY <1>5, <3>2 DEF Clients
    <3>4. \A i \in 1 .. m : lock_waiters[i] # w
      BY <3>2 DEF IInv, ControllerInv, LockQueue
    <3> HIDE DEF w
    <3>5. /\ st \in [Tasks -> TaskState]
          /\ \A u \in Tasks : st[u] = IF u = w THEN "READY" ELSE state[u]
      BY DEF Wake, IInv, TypeOK, TaskState
    <3> HIDE DEF st
    <3>6. /\ \A u \in Tasks : st[u] = "RUNNING" => u = current
          /\ st[Idle] \in Awake
      BY <1>3, <3>3, <3>5 DEF IInv, ControllerInv, OnlyCurrentRuns, IdleIsAwake
    <3>7. /\ current' \in Tasks
          /\ state' \in [Tasks -> TaskState]
          /\ OnlyCurrentRuns'
          /\ \A u \in Tasks : state'[u] = "BLOCKED" <=> st[u] = "BLOCKED"
          /\ state'[Idle] \in Awake
      BY <3>1, <3>5, <3>6, DispatchStep
    <3>8. m <= n /\ m \in Nat /\ n \in Nat /\ \A i \in 1 .. m : i \in 1 .. n - 1 /\ i \in 1 .. n
      BY <3>2
    <3>9. \A i \in 1 .. m : state'[lock_waiters[i]] = "BLOCKED"
      BY <1>3, <1>5, <3>4, <3>5, <3>7, <3>8
    <3>10. \A u \in Tasks : pc[u] # "lock" =>
             (state'[u] = "BLOCKED" <=> state[u] = "BLOCKED")
      BY <3>3, <3>5, <3>7
    <3> QED
      BY <3>2, <3>7, <3>8, <3>9, <3>10
  <2> QED
    BY <2>1, <2>2
<1>7. TypeOK'
  BY <1>2, <1>4, <1>6 DEF IInv, TypeOK
<1>8. IdleIsAwake' /\ AtDrive'
  BY <1>1, <1>2, <1>3, <1>4, <1>6 DEF IInv, ControllerInv, IdleIsAwake, AtDrive
<1>9. LockQueue'
  <2>1. \A i \in 1 .. m : i \in 1 .. n
    BY <1>6
  <2>2. \A i, j \in 1 .. m : lock_waiters'[i] = lock_waiters'[j] => i = j
    BY <1>6, <2>1 DEF IInv, ControllerInv, LockQueue
  <2>3. \A i \in 1 .. m : pc'[lock_waiters'[i]] = "lock" /\ state'[lock_waiters'[i]] = "BLOCKED"
    BY <1>3, <1>4, <1>5, <1>6, <2>1
  <2> QED
    BY <2>2, <2>3 DEF LockQueue
<1>10. WaiterIsWoken'
  BY <1>1, <1>2, <1>3, <1>4 DEF WaiterIsWoken
<1>11. ListInv'
  <2>1. \A u \in Clients : AsleepNext(u) <=> Asleep(u)
    BY <1>1, <1>3, <1>4, <1>6 DEF Asleep, AsleepNext
  <2>2. \A u \in Clients : pc'[u] \in InRequest <=> pc[u] \in InRequest
    BY <1>1, <1>3, <1>4 DEF InRequest
  <2> QED
    BY <1>2, <2>1, <2>2, QuietLists
<1> QED
  BY <1>6, <1>7, <1>8, <1>9, <1>10, <1>11 DEF IInv, ControllerInv

\* The end of a transfer without a request, and the end of task_exit.
LEMMA LeavesKeeps ==
    ASSUME IInv, NEW t \in Clients, current = t, state[t] \in {"RUNNING", "DIED"},
           pc[t] = "exit" \/ (pc[t] = "finish" /\ disk[t] = None),
           NEW place \in {"user", "exit", "gone"}, Moves(t, place),
           UNCHANGED state \/ Dispatch(state),
           Dispatch(state) \/ UNCHANGED current,
           UNCHANGED <<requests, controller>>
    PROVE  IInv'
<1>1. t \in Tasks /\ t # Idle /\ Idle \in Tasks /\ None \notin Tasks /\ Clients \subseteq Tasks
  BY BlockRequestAssumption, DispatcherAssumption DEF Clients
<1>2. /\ \A u \in Tasks : pc'[u] = IF u = t THEN place ELSE pc[u]
      /\ pc' \in [Tasks -> InRequest \cup {"user", "exit", "gone"}]
      /\ UNCHANGED <<request_list, direct, idx, disk, lock, lock_waiters, waiter, busy, irq>>
  BY DEF Moves, IInv, TypeOK, requests, controller
<1>3. /\ current' \in Tasks \cup {Boot} /\ state' \in [Tasks -> TaskState]
      /\ OnlyCurrentRuns' /\ state'[Idle] \in Awake
      /\ \A u \in Tasks : state'[u] = "BLOCKED" <=> state[u] = "BLOCKED"
  <2>1. /\ state \in [Tasks -> TaskState]
        /\ \A u \in Tasks : state[u] = "RUNNING" => u = current
        /\ state[Idle] \in Awake /\ current \in Tasks \cup {Boot}
    BY DEF IInv, TypeOK, ControllerInv, OnlyCurrentRuns, IdleIsAwake
  <2>2. CASE Dispatch(state)
    BY <2>1, <2>2, DispatchStep
  <2>3. CASE UNCHANGED <<state, current>>
    BY <2>1, <2>3 DEF OnlyCurrentRuns
  <2> QED
    BY <2>2, <2>3
<1>4. TypeOK'
  BY <1>2, <1>3 DEF IInv, TypeOK
<1>5. IdleIsAwake' /\ AtDrive'
  BY <1>1, <1>2, <1>3 DEF IInv, ControllerInv, IdleIsAwake, AtDrive
<1>6. LockQueue'
  <2>1. \A i \in 1 .. Len(lock_waiters) : lock_waiters[i] \in Tasks /\ lock_waiters[i] # t
    BY <1>1 DEF IInv, TypeOK, ControllerInv, LockQueue
  <2> QED
    BY <1>2, <1>3, <2>1 DEF IInv, ControllerInv, LockQueue
<1>7. WaiterIsWoken'
  BY <1>1, <1>2, <1>3 DEF IInv, ControllerInv, WaiterIsWoken
<1>8. ListInv'
  <2>1. \A u \in Clients : pc[u] \in InRequest /\ disk[u] # None => u # t
    BY DEF InRequest
  <2>2. place \notin InRequest
    BY DEF InRequest
  <2>3. \A u \in Clients \ {t} : /\ pc'[u] = pc[u] /\ disk'[u] = disk[u]
                                 /\ AsleepNext(u) <=> Asleep(u)
    BY <1>1, <1>2, <1>3 DEF Asleep, AsleepNext
  <2>4. pc'[t] \notin InRequest
    BY <1>1, <1>2, <2>2
  <2> QED
    BY <1>2, <2>1, <2>3, <2>4, QuietLists
<1> QED
  BY <1>3, <1>4, <1>5, <1>6, <1>7, <1>8 DEF IInv, ControllerInv

LEMMA DriveReadyKeeps ==
    ASSUME IInv, DriveReady
    PROVE  IInv'
<1>1. /\ busy' = FALSE /\ irq' = TRUE
      /\ UNCHANGED <<current, state, request_list, direct, idx, disk, lock, lock_waiters, waiter, pc>>
  BY DEF DriveReady, requests
<1>2. TypeOK'
  BY <1>1 DEF IInv, TypeOK
<1>3. ControllerInv'
  BY <1>1 DEF IInv, ControllerInv, OnlyCurrentRuns, IdleIsAwake, AtDrive, LockQueue, WaiterIsWoken
<1>4. ListInv'
  BY <1>1, QuietLists DEF Asleep, AsleepNext
<1> QED
  BY <1>2, <1>3, <1>4 DEF IInv

\* The interrupt wakes the task that sleeps for its sector, and nobody else.
LEMMA IdeHandlerKeeps ==
    ASSUME IInv, IdeHandler
    PROVE  IInv'
<1>1. /\ irq' = FALSE /\ waiter' = None
      /\ state' = IF waiter = None THEN state ELSE Wake(state, {waiter})
      /\ UNCHANGED <<current, request_list, direct, idx, disk, lock, lock_waiters, busy, pc>>
  BY DEF IdeHandler, requests
<1>2. Idle \in Tasks /\ None \notin Tasks /\ Clients \subseteq Tasks /\ \A u \in Clients : u # Idle
  BY BlockRequestAssumption, DispatcherAssumption DEF Clients
<1>3. waiter # None => waiter \in Clients /\ pc[waiter] = "sector"
  BY WaiterAtDrive
<1>4. /\ state' \in [Tasks -> TaskState]
      /\ \A u \in Tasks : state'[u] = IF u = waiter THEN "READY" ELSE state[u]
  BY <1>1, <1>2 DEF Wake, IInv, TypeOK, TaskState
<1>5. TypeOK'
  BY <1>1, <1>4 DEF IInv, TypeOK
<1>6. OnlyCurrentRuns' /\ IdleIsAwake' /\ AtDrive'
  BY <1>1, <1>2, <1>3, <1>4
  DEF IInv, ControllerInv, OnlyCurrentRuns, IdleIsAwake, AtDrive, Awake
<1>7. LockQueue'
  <2>1. \A i \in 1 .. Len(lock_waiters) :
          lock_waiters[i] \in Tasks /\ lock_waiters[i] # waiter
    BY <1>2, <1>3 DEF IInv, TypeOK, ControllerInv, LockQueue
  <2> QED
    BY <1>1, <1>4, <2>1 DEF IInv, ControllerInv, LockQueue
<1>8. WaiterIsWoken'
  BY <1>1, <1>2, <1>4 DEF IInv, ControllerInv, WaiterIsWoken
<1>9. ListInv'
  <2>1. \A u \in Clients : AsleepNext(u) <=> Asleep(u)
    BY <1>1, <1>2, <1>3, <1>4 DEF Asleep, AsleepNext
  <2> QED
    BY <1>1, <2>1, QuietLists
<1> QED
  BY <1>5, <1>6, <1>7, <1>8, <1>9 DEF IInv, ControllerInv

LEMMA TimerPreemptsKeeps ==
    ASSUME IInv, TimerPreempts
    PROVE  IInv'
<1>1. /\ Dispatch(state)
      /\ UNCHANGED <<request_list, direct, idx, disk, lock, lock_waiters, waiter, busy, irq, pc>>
  BY DEF TimerPreempts, requests, controller
<1>2. /\ current' \in Tasks
      /\ state' \in [Tasks -> TaskState]
      /\ OnlyCurrentRuns'
      /\ \A t \in Tasks : state'[t] = "BLOCKED" <=> state[t] = "BLOCKED"
      /\ state'[Idle] \in Awake
  BY <1>1, DispatchStep DEF IInv, TypeOK, ControllerInv, OnlyCurrentRuns, IdleIsAwake
<1>3. Clients \subseteq Tasks
  BY DEF Clients
<1>4. TypeOK'
  BY <1>1, <1>2 DEF IInv, TypeOK
<1>5. IdleIsAwake' /\ AtDrive' /\ WaiterIsWoken'
  BY <1>1, <1>2 DEF IInv, ControllerInv, IdleIsAwake, AtDrive, WaiterIsWoken
<1>6. LockQueue'
  <2>1. \A i \in 1 .. Len(lock_waiters) : lock_waiters[i] \in Tasks
    BY <1>3 DEF IInv, TypeOK
  <2> QED
    BY <1>1, <1>2, <2>1 DEF IInv, ControllerInv, LockQueue
<1>7. ListInv'
  BY <1>1, <1>2, <1>3, QuietLists DEF Asleep, AsleepNext
<1> QED
  BY <1>2, <1>4, <1>5, <1>6, <1>7 DEF IInv, ControllerInv

LEMMA StutterKeeps == IInv /\ UNCHANGED vars => IInv'
  BY DEF vars, requests, controller, IInv, TypeOK, ControllerInv, ListInv, OnlyCurrentRuns,
         IdleIsAwake, AtDrive, LockQueue, WaiterIsWoken, Lists, Linked, OneAwake, Asleep

LEMMA NextKeepsIInv == IInv /\ [Next]_vars => IInv'
<1> SUFFICES ASSUME IInv, [Next]_vars PROVE IInv'
  OBVIOUS
<1>1. ASSUME NEW t \in Clients, NEW d \in Disks, NEW k \in Positions, DeviceRequest(t, d, k)
      PROVE  IInv'
  BY <1>1, RequestKeeps DEF DeviceRequest, OnCpu
<1>2. ASSUME NEW t \in Clients, NEW d \in Disks, NEW k \in Positions, ExitRequest(t, d, k)
      PROVE  IInv'
  BY <1>2, RequestKeeps DEF ExitRequest, OnCpu
<1>3. ASSUME NEW t \in Clients, DirectTransfer(t)
      PROVE  IInv'
  <2>1. pc[t] \notin InRequest
    BY <1>3 DEF DirectTransfer, OnCpu, InRequest
  <2> QED
    BY <1>3, <2>1, TransferKeeps DEF DirectTransfer, OnCpu
<1>4. ASSUME NEW t \in Clients, RequestResume(t)
      PROVE  IInv'
  BY <1>4, TransferKeeps DEF RequestResume, OnCpu, requests
<1>5. ASSUME NEW t \in Clients, LockResume(t)
      PROVE  IInv'
  BY <1>5, TransferKeeps DEF LockResume, OnCpu, requests
<1>6. ASSUME NEW t \in Clients, NextSector(t) \/ LastSector(t) \/ FinishRequest(t)
      PROVE  IInv'
  BY <1>6, NextSectorKeeps, LastSectorKeeps, FinishRequestKeeps
<1>7. ASSUME NEW t \in Clients, FinishDirect(t)
      PROVE  IInv'
  <2>1. PICK place \in {"user", "exit", "gone"} : Moves(t, place)
    BY <1>7 DEF FinishDirect, Returns
  <2> QED
    BY <1>7, <2>1, LeavesKeeps DEF FinishDirect, OnCpu
<1>8. ASSUME NEW t \in Clients, Exit(t)
      PROVE  IInv'
  BY <1>8, LeavesKeeps DEF Exit, OnCpu
<1>9. CASE DriveReady \/ IdeHandler \/ TimerPreempts
  BY <1>9, DriveReadyKeeps, IdeHandlerKeeps, TimerPreemptsKeeps
<1>10. CASE UNCHANGED vars
  BY <1>10, StutterKeeps
<1> QED
  BY <1>1, <1>2, <1>3, <1>4, <1>5, <1>6, <1>7, <1>8, <1>9, <1>10 DEF Next

-----------------------------------------------------------------------------
\* The invariant of device.c and ide.c: the processor, the controller with
\* its lock and its waiter, and the request lists agree with where the tasks
\* are.
THEOREM BlockRequestInvariant == Spec => []IInv
<1>1. Init => IInv
  BY InitIInv
<1>2. IInv /\ [Next]_vars => IInv'
  BY NextKeepsIInv
<1> QED
  BY <1>1, <1>2, PTL DEF Spec

\* ide_handler wakes the task that sleeps for its sector and no other, and
\* that task is not forgotten: the drive works or its interrupt is pending.
THEOREM BlockRequestWaiterIsWoken == Spec => []WaiterIsWoken
<1>1. IInv => WaiterIsWoken
  BY DEF IInv, ControllerInv
<1> QED
  BY <1>1, BlockRequestInvariant, PTL

-----------------------------------------------------------------------------
(* Who goes on.                                                            *)

\* The states schedule() does not change.
Fixed == TaskState \ Awake

\* Where a task is when it sleeps, and when it is marked DIED: a task that
\* task_exit has marked keeps the processor until it is behind a transfer.
AtPlace(t) ==
    /\ state[t] \in Awake \cup {"BLOCKED", "DIED"}
    /\ state[t] = "BLOCKED" => pc[t] \in {"queued", "lock", "sector"}
    /\ state[t] = "DIED" => /\ t \in exiting
                            /\ pc[t] \in {"sector", "finish", "exit", "gone"}
                            /\ pc[t] \in {"sector", "exit"} => current = t

\* Who sleeps in lock_acquire is in its queue, and while the lock is free and
\* tasks queue one of them has been woken.
InQueue(t) ==
    pc[t] = "lock" /\ state[t] = "BLOCKED" =>
        \E i \in 1 .. Len(lock_waiters) : lock_waiters[i] = t

LockIsPassed ==
    lock = None /\ lock_waiters # << >> =>
        \E u \in Clients : pc[u] = "lock" /\ state[u] # "BLOCKED"

OnWay == (\A t \in Clients : AtPlace(t) /\ InQueue(t)) /\ LockIsPassed

\* A step in which t moves: no other task moves, falls asleep or dies.
Stays(u) == pc'[u] = pc[u] /\ \A s \in Fixed : state'[u] = s => state[u] = s

LEMMA DispatchFixed ==
    ASSUME NEW st, Dispatch(st), st[Idle] \in Awake
    PROVE  /\ current' \in Tasks /\ st[current'] \in Awake
           /\ \A u \in Tasks : \A s \in Fixed : state'[u] = s <=> st[u] = s
<1>1. PICK next \in Eligible(st) : current' = next /\ state' = Switched(st, next)
  BY DEF Dispatch
<1>2. next \in Tasks /\ st[next] \in Awake
  BY <1>1, DispatcherAssumption DEF Eligible, Ready, Awake
<1>3. \A u \in Tasks : state'[u] = IF u = next THEN "RUNNING"
                                   ELSE IF u = current /\ st[u] = "RUNNING"
                                   THEN "READY" ELSE st[u]
  BY <1>1 DEF Switched
<1> QED
  BY <1>1, <1>2, <1>3 DEF Fixed, Awake

\* What is left to show of a step of the task that has the processor.
LEMMA StepOnWay ==
    ASSUME IInv, OnWay, TypeOK', NEW t \in Clients, current = t,
           \A u \in Clients \ {t} : Stays(u),
           exiting \subseteq exiting',
           AtPlace(t)', InQueue(t)',
           \A u \in Clients \ {t} : InQueue(u)', LockIsPassed'
    PROVE  OnWay'
<1>1. ASSUME NEW u \in Clients \ {t}
      PROVE  AtPlace(u)'
  <2>1. state'[u] \in TaskState /\ u \in Tasks
    BY DEF TypeOK, Clients
  <2>2. pc'[u] = pc[u] /\ \A s \in Fixed : state'[u] = s => state[u] = s
    BY DEF Stays
  <2>3. AtPlace(u) /\ u # t
    BY DEF OnWay
  <2>4. state'[u] = "DIED" => u \in exiting' /\ pc[u] \in {"finish", "gone"}
    BY <2>2, <2>3 DEF AtPlace, Fixed, TaskState, Awake
  <2>5. state'[u] = "BLOCKED" => pc[u] \in {"queued", "lock", "sector"}
    BY <2>2, <2>3 DEF AtPlace, Fixed, TaskState, Awake, Stopped
  <2>6. state'[u] \in Awake \cup {"BLOCKED", "DIED"}
    BY <2>1, <2>2, <2>3 DEF AtPlace, Fixed
  <2> QED
    BY <2>2, <2>4, <2>5, <2>6 DEF AtPlace
<1> QED
  BY <1>1 DEF OnWay

\* The queue of the lock does not change and t does not enter it.
LEMMA QueueStays ==
    ASSUME OnWay, NEW t \in Clients, \A u \in Clients \ {t} : Stays(u),
           lock_waiters' = lock_waiters,
           lock' # None \/ lock_waiters = << >> \/ (lock' = lock /\ pc[t] # "lock"),
           pc'[t] # "lock"
    PROVE  InQueue(t)' /\ (\A u \in Clients \ {t} : InQueue(u)') /\ LockIsPassed'
<1>1. "BLOCKED" \in Fixed
  BY DEF Fixed, TaskState, Stopped, Awake
<1>2. \A u \in Clients \ {t} : InQueue(u)'
  BY <1>1 DEF OnWay, InQueue, Stays
<1>3. LockIsPassed'
  BY <1>1 DEF OnWay, LockIsPassed, Stays
<1> QED
  BY <1>2, <1>3 DEF InQueue

\* t is put to sleep by task_block.
LEMMA BlocksAt ==
    ASSUME IInv, NEW t \in Clients, NEW st \in [Tasks -> TaskState],
           \A u \in Clients \ {t} : st[u] = state[u], st[Idle] \in Awake,
           Dispatch(Blocked(t, st))
    PROVE  /\ state'[t] = "BLOCKED"
           /\ \A u \in Clients \ {t} : \A s \in Fixed : state'[u] = s => state[u] = s
<1>1. t \in Tasks /\ t # Idle /\ Idle \in Tasks /\ Clients \subseteq Tasks
  BY DispatcherAssumption DEF Clients
<1> DEFINE bl == Blocked(t, st)
<1>2. /\ bl[t] = "BLOCKED" /\ bl[Idle] \in Awake
      /\ \A u \in Clients \ {t} : bl[u] = state[u]
  BY <1>1 DEF Blocked
<1>3. Dispatch(bl)
  OBVIOUS
<1> HIDE DEF bl
<1>4. \A u \in Tasks : \A s \in Fixed : state'[u] = s <=> bl[u] = s
  BY <1>2, <1>3, DispatchFixed
<1>5. "BLOCKED" \in Fixed
  BY DEF Fixed, TaskState, Stopped, Awake
<1> QED
  BY <1>1, <1>2, <1>4, <1>5

\* ide_pio_read and ide_pio_write up to their first wait.
LEMMA TransferOnWay ==
    ASSUME IInv, OnWay, TypeOK', NEW t \in Clients, current = t,
           state[t] \in {"RUNNING", "DIED"}, pc[t] # "sector",
           NEW st, st = state \/ st = [state EXCEPT ![t] = "DIED"],
           exiting \subseteq exiting', st[t] = "DIED" => t \in exiting',
           Transfer(t, st)
    PROVE  OnWay'
<1>1. /\ t \in Tasks /\ t # Idle /\ Idle \in Tasks /\ Clients \subseteq Tasks
      /\ t # None /\ state[Idle] \in Awake
  BY BlockRequestAssumption, DispatcherAssumption DEF Clients, IInv, ControllerInv, IdleIsAwake
<1>2. /\ st \in [Tasks -> TaskState] /\ st[Idle] \in Awake
      /\ st[t] \in {"RUNNING", "DIED"}
      /\ \A u \in Clients \ {t} : st[u] = state[u]
  BY <1>1 DEF IInv, TypeOK, TaskState
<1>3. CASE lock = None
  <2>1. /\ lock' = t /\ lock_waiters' = lock_waiters
        /\ Moves(t, "sector") /\ AwaitSector(t, st)
    BY <1>3 DEF Transfer, Command
  <2>2. /\ pc'[t] = "sector" /\ \A u \in Clients \ {t} : pc'[u] = pc[u]
    BY <1>1, <2>1 DEF Moves, IInv, TypeOK
  <2>3. /\ \/ state'[t] = "BLOCKED"
           \/ state'[t] = "DIED" /\ current' = t /\ t \in exiting'
        /\ \A u \in Clients \ {t} : \A s \in Fixed : state'[u] = s => state[u] = s
    <3>1. CASE st[t] = "RUNNING"
      BY <1>2, <2>1, <3>1, BlocksAt DEF AwaitSector
    <3>2. CASE st[t] = "DIED"
      BY <1>2, <2>1, <3>2 DEF AwaitSector
    <3> QED
      BY <1>2, <3>1, <3>2
  <2>4. AtPlace(t)'
    BY <2>2, <2>3 DEF AtPlace
  <2>5. \A u \in Clients \ {t} : Stays(u)
    BY <2>2, <2>3 DEF Stays
  <2>6. InQueue(t)' /\ (\A u \in Clients \ {t} : InQueue(u)') /\ LockIsPassed'
    BY <1>1, <2>1, <2>2, <2>5, QueueStays
  <2> QED
    BY <2>4, <2>5, <2>6, StepOnWay
<1>4. CASE lock # None
  <2>1. /\ lock_waiters' = <<t>> \o lock_waiters /\ lock' = lock
        /\ Moves(t, "lock") /\ Dispatch(Blocked(t, st))
    BY <1>4 DEF Transfer, WaitForLock
  <2>2. /\ pc'[t] = "lock" /\ \A u \in Clients \ {t} : pc'[u] = pc[u]
    BY <1>1, <2>1 DEF Moves, IInv, TypeOK
  <2>3. /\ state'[t] = "BLOCKED"
        /\ \A u \in Clients \ {t} : \A s \in Fixed : state'[u] = s => state[u] = s
    BY <1>2, <2>1, BlocksAt
  <2>4. AtPlace(t)' /\ \A u \in Clients \ {t} : Stays(u)
    BY <2>2, <2>3 DEF AtPlace, Stays
  <2>5. /\ Len(lock_waiters') = Len(lock_waiters) + 1 /\ Len(lock_waiters) \in Nat
        /\ lock_waiters'[1] = t
        /\ \A i \in 2 .. Len(lock_waiters) + 1 : lock_waiters'[i] = lock_waiters[i - 1]
    BY <2>1, PushFrontFacts, LenProperties DEF IInv, TypeOK
  <2>6. InQueue(t)'
    BY <2>5 DEF InQueue
  <2>7. ASSUME NEW u \in Clients \ {t}
        PROVE  InQueue(u)'
    <3> SUFFICES ASSUME pc'[u] = "lock", state'[u] = "BLOCKED"
                 PROVE  \E i \in 1 .. Len(lock_waiters') : lock_waiters'[i] = u
      BY DEF InQueue
    <3>1. pc[u] = "lock" /\ state[u] = "BLOCKED"
      BY <2>2, <2>3 DEF Fixed, TaskState, Stopped, Awake
    <3>2. PICK i \in 1 .. Len(lock_waiters) : lock_waiters[i] = u
      BY <3>1 DEF OnWay, InQueue
    <3>3. i + 1 \in 2 .. Len(lock_waiters) + 1 /\ i + 1 \in 1 .. Len(lock_waiters') /\ (i + 1) - 1 = i
      BY <2>5
    <3> QED
      BY <2>5, <3>2, <3>3
  <2>8. LockIsPassed'
    BY <1>4, <2>1 DEF LockIsPassed
  <2> QED
    BY <2>4, <2>6, <2>7, <2>8, StepOnWay
<1> QED
  BY <1>3, <1>4

\* device_request up to its first wait.
LEMMA RequestOnWay ==
    ASSUME IInv, OnWay, TypeOK', NEW t \in Clients, current = t,
           state[t] \in {"RUNNING", "DIED"}, pc[t] \in {"user", "exit"},
           NEW d, NEW k, NEW st, st = state \/ st = [state EXCEPT ![t] = "DIED"],
           exiting \subseteq exiting', st[t] = "DIED" => t \in exiting',
           Request(t, d, k, st)
    PROVE  OnWay'
<1>1. CASE request_list[d] = << >>
  <2>1. Transfer(t, st)
    BY <1>1 DEF Request
  <2> QED
    BY <2>1, TransferOnWay
<1>2. CASE request_list[d] # << >>
  <2>1. /\ Moves(t, "queued") /\ Dispatch(Blocked(t, st))
        /\ lock' = lock /\ lock_waiters' = lock_waiters
    BY <1>2 DEF Request, controller
  <2>2. /\ t \in Tasks /\ t # Idle /\ Idle \in Tasks /\ Clients \subseteq Tasks
        /\ state[Idle] \in Awake
    BY DispatcherAssumption DEF Clients, IInv, ControllerInv, IdleIsAwake
  <2>3. /\ st \in [Tasks -> TaskState] /\ st[Idle] \in Awake
        /\ \A u \in Clients \ {t} : st[u] = state[u]
    BY <2>2 DEF IInv, TypeOK, TaskState
  <2>4. /\ pc'[t] = "queued" /\ \A u \in Clients \ {t} : pc'[u] = pc[u]
    BY <2>1, <2>2 DEF Moves, IInv, TypeOK
  <2>5. /\ state'[t] = "BLOCKED"
        /\ \A u \in Clients \ {t} : \A s \in Fixed : state'[u] = s => state[u] = s
    BY <2>1, <2>3, BlocksAt
  <2>6. AtPlace(t)' /\ \A u \in Clients \ {t} : Stays(u)
    BY <2>4, <2>5 DEF AtPlace, Stays
  <2>7. InQueue(t)' /\ (\A u \in Clients \ {t} : InQueue(u)') /\ LockIsPassed'
    BY <2>1, <2>4, <2>6, QueueStays
  <2> QED
    BY <2>6, <2>7, StepOnWay
<1> QED
  BY <1>1, <1>2

LEMMA NextSectorOnWay ==
    ASSUME IInv, OnWay, TypeOK', NEW t \in Clients, NextSector(t)
    PROVE  OnWay'
<1>1. /\ t \in Tasks /\ current = t /\ lock = t /\ state[t] \in {"RUNNING", "DIED"}
      /\ pc[t] = "sector" /\ t # None /\ state[Idle] \in Awake
  BY AtTheDrive, BlockRequestAssumption DEF NextSector, OnCpu, IInv, ControllerInv, IdleIsAwake
<1>2. /\ AwaitSector(t, state) /\ pc' = pc /\ exiting' = exiting
      /\ lock' = lock /\ lock_waiters' = lock_waiters
  BY DEF NextSector
<1>3. state \in [Tasks -> TaskState]
  BY DEF IInv, TypeOK
<1>4. /\ \/ state'[t] = "BLOCKED"
         \/ state'[t] = "DIED" /\ current' = t /\ t \in exiting'
      /\ \A u \in Clients \ {t} : \A s \in Fixed : state'[u] = s => state[u] = s
  <2>1. CASE state[t] = "RUNNING"
    BY <1>1, <1>2, <1>3, <2>1, BlocksAt DEF AwaitSector
  <2>2. CASE state[t] = "DIED"
    BY <1>1, <1>2, <2>2 DEF AwaitSector, OnWay, AtPlace
  <2> QED
    BY <1>1, <2>1, <2>2
<1>5. AtPlace(t)' /\ \A u \in Clients \ {t} : Stays(u)
  BY <1>1, <1>2, <1>4 DEF AtPlace, Stays
<1>6. InQueue(t)' /\ (\A u \in Clients \ {t} : InQueue(u)') /\ LockIsPassed'
  BY <1>1, <1>2, <1>5, QueueStays
<1> QED
  BY <1>1, <1>2, <1>5, <1>6, StepOnWay

\* lock_release wakes the last of the queue, which then is on its way to the
\* lock: and a task marked DIED is stranded here.
LEMMA LastSectorOnWay ==
    ASSUME IInv, OnWay, TypeOK', NEW t \in Clients, LastSector(t)
    PROVE  OnWay'
<1>1. /\ t \in Tasks /\ t # Idle /\ current = t /\ state[t] \in {"RUNNING", "DIED"}
      /\ pc[t] = "sector" /\ Clients \subseteq Tasks /\ Idle \in Tasks /\ state[Idle] \in Awake
  BY AtTheDrive, DispatcherAssumption
     DEF LastSector, OnCpu, Clients, IInv, ControllerInv, IdleIsAwake
<1>2. /\ pc'[t] = "finish" /\ \A u \in Clients \ {t} : pc'[u] = pc[u]
      /\ exiting' = exiting /\ lock' = None
  BY <1>1 DEF LastSector, Moves, IInv, TypeOK
<1>3. state[t] = "DIED" => t \in exiting
  BY DEF OnWay, AtPlace
<1>4. CASE lock_waiters = << >>
  <2>1. UNCHANGED <<current, state, lock_waiters>>
    BY <1>4 DEF LastSector
  <2>2. AtPlace(t)' /\ \A u \in Clients \ {t} : Stays(u)
    BY <1>1, <1>2, <1>3, <2>1 DEF AtPlace, Stays, Awake
  <2>3. InQueue(t)' /\ (\A u \in Clients \ {t} : InQueue(u)') /\ LockIsPassed'
    BY <1>2, <1>4, <2>1, <2>2, QueueStays
  <2> QED
    BY <1>1, <1>2, <2>2, <2>3, StepOnWay
<1>5. CASE lock_waiters # << >>
  <2> DEFINE n == Len(lock_waiters)
  <2>1. PICK w, st : w = Last(lock_waiters) /\ st = Wake(state, {w})
    OBVIOUS
  <2>2. lock_waiters' = Front(lock_waiters) /\ Dispatch(st)
    BY <1>5, <2>1 DEF LastSector
  <2>3. /\ n \in Nat \ {0} /\ Len(lock_waiters') = n - 1
        /\ \A j \in 1 .. n - 1 : lock_waiters'[j] = lock_waiters[j]
        /\ w = lock_waiters[n] /\ w \in Clients
    BY <1>5, <2>1, <2>2, FrontFacts DEF IInv, TypeOK
  <2>4. n \in 1 .. n /\ pc[w] = "lock" /\ w # t
    <3>1. n \in 1 .. n
      BY <2>3
    <3> QED
      BY <1>1, <2>3, <3>1 DEF IInv, ControllerInv, LockQueue
  <2>5. \A u \in Tasks : st[u] = IF u = w THEN "READY" ELSE state[u]
    BY <2>1 DEF Wake
  <2>6. st[Idle] \in Awake
    BY <1>1, <2>5 DEF Awake
  <2>7. \A u \in Tasks : \A s \in Fixed : state'[u] = s <=> st[u] = s
    BY <2>2, <2>6, DispatchFixed
  <2>8. /\ \A s \in Fixed : state'[t] = s <=> state[t] = s
        /\ \A s \in Fixed : state'[w] # s
        /\ \A u \in Clients \ {t} : \A s \in Fixed : state'[u] = s => state[u] = s
    BY <1>1, <2>3, <2>4, <2>5, <2>7 DEF Fixed, Awake
  <2>9. \A u \in Clients \ {t} : Stays(u)
    BY <1>2, <2>8 DEF Stays
  <2>10. AtPlace(t)'
    <3>1. state'[t] \in TaskState
      BY <1>1 DEF TypeOK
    <3>2. state'[t] \in Awake \cup {"DIED"} /\ (state'[t] = "DIED" => state[t] = "DIED")
      BY <1>1, <2>8, <3>1 DEF Fixed, TaskState, Awake
    <3> QED
      BY <1>2, <1>3, <3>2 DEF AtPlace, Awake
  <2>11. InQueue(t)'
    BY <1>2 DEF InQueue
  <2>12. ASSUME NEW u \in Clients \ {t}
         PROVE  InQueue(u)'
    <3> SUFFICES ASSUME pc'[u] = "lock", state'[u] = "BLOCKED"
                 PROVE  \E i \in 1 .. Len(lock_waiters') : lock_waiters'[i] = u
      BY DEF InQueue
    <3>1. pc[u] = "lock" /\ state[u] = "BLOCKED" /\ u # w
      BY <1>2, <2>8 DEF Fixed, TaskState, Stopped, Awake
    <3>2. PICK i \in 1 .. n : lock_waiters[i] = u
      BY <3>1 DEF OnWay, InQueue
    <3>3. i \in 1 .. n - 1
      BY <2>3, <3>1, <3>2
    <3> QED
      BY <2>3, <3>2, <3>3
  <2>13. LockIsPassed'
    <3>1. "BLOCKED" \in Fixed
      BY DEF Fixed, TaskState, Stopped, Awake
    <3> QED
      BY <1>2, <2>3, <2>4, <2>8, <3>1 DEF LockIsPassed
  <2> QED
    BY <1>1, <1>2, <2>9, <2>10, <2>11, <2>12, <2>13, StepOnWay
<1> QED
  BY <1>4, <1>5

\* The end of device_request and of a direct transfer, and of task_exit.
LEMMA LeavesOnWay ==
    ASSUME IInv, OnWay, TypeOK', NEW t \in Clients,
           FinishRequest(t) \/ FinishDirect(t) \/ Exit(t)
    PROVE  OnWay'
<1>1. /\ t \in Tasks /\ t # Idle /\ Clients \subseteq Tasks /\ state[Idle] \in Awake
      /\ current = t /\ state[t] \in {"RUNNING", "DIED"} /\ pc[t] \in {"finish", "exit"}
      /\ lock' = lock /\ lock_waiters' = lock_waiters /\ exiting' = exiting
  BY DEF FinishRequest, FinishDirect, Exit, OnCpu, Clients, controller, IInv, ControllerInv, IdleIsAwake
<1>2. state[t] = "DIED" => t \in exiting
  BY DEF OnWay, AtPlace
<1>3. PICK place \in {"user", "exit", "gone"} :
        /\ Moves(t, place)
        /\ t \in exiting => place # "user"
        /\ place = "gone" \/ current' = current
  BY DEF FinishRequest, FinishDirect, Exit, Returns
<1>4. pc'[t] = place /\ \A u \in Clients \ {t} : pc'[u] = pc[u]
  BY <1>1, <1>3 DEF Moves, IInv, TypeOK
<1>5. /\ state'[t] = state[t] \/ state'[t] \in Awake
      /\ \A u \in Clients \ {t} : \A s \in Fixed : state'[u] = s => state[u] = s
  <2>1. CASE FinishRequest(t)
    <3>1. \A u \in Tasks : state'[u] = state[u] \/ state'[u] = "READY"
      BY <2>1 DEF FinishRequest, Wake
    <3> QED
      BY <1>1, <3>1 DEF Fixed, Awake
  <2>2. CASE FinishDirect(t)
    BY <2>2 DEF FinishDirect
  <2>3. CASE Exit(t)
    <3>1. Dispatch(state)
      BY <2>3 DEF Exit
    <3>2. \A u \in Tasks : \A s \in Fixed : state'[u] = s <=> state[u] = s
      BY <1>1, <3>1, DispatchFixed
    <3>3. state'[t] \in TaskState
      BY <1>1 DEF TypeOK
    <3> QED
      BY <1>1, <3>2, <3>3 DEF Fixed
  <2> QED
    BY <2>1, <2>2, <2>3
<1>6. AtPlace(t)'
  BY <1>1, <1>2, <1>3, <1>4, <1>5 DEF AtPlace, Awake
<1>7. \A u \in Clients \ {t} : Stays(u)
  BY <1>4, <1>5 DEF Stays
<1>8. InQueue(t)' /\ (\A u \in Clients \ {t} : InQueue(u)') /\ LockIsPassed'
  BY <1>1, <1>3, <1>4, <1>7, QueueStays
<1> QED
  BY <1>1, <1>6, <1>7, <1>8, StepOnWay

\* The drive, the interrupt and the timer, which comes where interrupts are on.
LEMMA InterruptOnWay ==
    ASSUME IInv, OnWay, TypeOK', DriveReady \/ IdeHandler \/ TimerPreempts \/ UNCHANGED vars
    PROVE  OnWay'
<1>1. /\ UNCHANGED <<pc, lock, lock_waiters, exiting>>
      /\ current' = current \/ InterruptsOn
      /\ Clients \subseteq Tasks /\ state[Idle] \in Awake
  BY DEF DriveReady, IdeHandler, TimerPreempts, vars, controller, requests, Clients, IInv,
         ControllerInv, IdleIsAwake
<1>2. \A u \in Clients : \A s \in Fixed : state'[u] = s => state[u] = s
  <2>1. CASE TimerPreempts
    <3>1. Dispatch(state)
      BY <2>1 DEF TimerPreempts
    <3> QED
      BY <1>1, <3>1, DispatchFixed
  <2>2. CASE IdeHandler
    <3>1. \A u \in Tasks : state'[u] = state[u] \/ state'[u] = "READY"
      BY <2>2 DEF IdeHandler, Wake
    <3> QED
      BY <1>1, <3>1 DEF Fixed, Awake
  <2>3. CASE DriveReady \/ UNCHANGED vars
    BY <2>3 DEF DriveReady, vars
  <2> QED
    BY <2>1, <2>2, <2>3
<1>3. {"BLOCKED", "DIED"} \subseteq Fixed
  BY DEF Fixed, TaskState, Stopped, Awake
<1>4. ASSUME NEW u \in Clients
      PROVE  AtPlace(u)' /\ InQueue(u)'
  <2>1. state'[u] \in TaskState /\ u \in Tasks /\ AtPlace(u) /\ InQueue(u)
    BY <1>1 DEF TypeOK, OnWay
  <2>2. state'[u] \in Awake \cup {"BLOCKED", "DIED"}
    BY <1>2, <2>1 DEF AtPlace, Fixed
  <2>3. state'[u] = "DIED" /\ pc[u] \in {"sector", "exit"} => current' = u
    BY <1>1, <1>2, <1>3, <2>1 DEF AtPlace, InterruptsOn
  <2> QED
    BY <1>1, <1>2, <1>3, <2>1, <2>2, <2>3 DEF AtPlace, InQueue
<1>5. LockIsPassed'
  BY <1>1, <1>2, <1>3 DEF OnWay, LockIsPassed
<1> QED
  BY <1>4, <1>5 DEF OnWay

LEMMA NextOnWay == IInv /\ OnWay /\ TypeOK' /\ [Next]_vars => OnWay'
<1> SUFFICES ASSUME IInv, OnWay, TypeOK', [Next]_vars PROVE OnWay'
  OBVIOUS
<1>1. ASSUME NEW t \in Clients, NEW d \in Disks, NEW k \in Positions, DeviceRequest(t, d, k)
      PROVE  OnWay'
  <2>1. /\ current = t /\ state[t] \in {"RUNNING", "DIED"} /\ pc[t] \in {"user", "exit"}
        /\ Request(t, d, k, state) /\ exiting' = exiting
        /\ state[t] = "DIED" => t \in exiting'
    BY <1>1 DEF DeviceRequest, OnCpu, OnWay, AtPlace
  <2> QED
    BY <2>1, RequestOnWay
<1>2. ASSUME NEW t \in Clients, NEW d \in Disks, NEW k \in Positions, ExitRequest(t, d, k)
      PROVE  OnWay'
  <2>1. /\ current = t /\ state[t] \in {"RUNNING", "DIED"} /\ pc[t] \in {"user", "exit"}
        /\ Request(t, d, k, [state EXCEPT ![t] = "DIED"])
        /\ exiting \subseteq exiting' /\ t \in exiting'
    BY <1>2 DEF ExitRequest, OnCpu
  <2> QED
    BY <2>1, RequestOnWay
<1>3. ASSUME NEW t \in Clients, DirectTransfer(t) \/ RequestResume(t) \/ LockResume(t)
      PROVE  OnWay'
  <2>1. /\ current = t /\ state[t] \in {"RUNNING", "DIED"} /\ pc[t] # "sector"
        /\ Transfer(t, state) /\ exiting' = exiting
        /\ state[t] = "DIED" => t \in exiting'
    BY <1>3 DEF DirectTransfer, RequestResume, LockResume, OnCpu, OnWay, AtPlace
  <2> QED
    BY <2>1, TransferOnWay
<1>4. ASSUME NEW t \in Clients,
             \/ NextSector(t) \/ LastSector(t)
             \/ FinishRequest(t) \/ FinishDirect(t) \/ Exit(t)
      PROVE  OnWay'
  BY <1>4, NextSectorOnWay, LastSectorOnWay, LeavesOnWay
<1>5. CASE DriveReady \/ IdeHandler \/ TimerPreempts \/ UNCHANGED vars
  BY <1>5, InterruptOnWay
<1> QED
  BY <1>1, <1>2, <1>3, <1>4, <1>5 DEF Next

\* A request that does not sleep in device_request goes on, or is stranded.
LEMMA AwakeGoesOn ==
    ASSUME IInv, OnWay, NEW t \in Clients, pc[t] \in InRequest, ~Asleep(t)
    PROVE  GoesOn(t) \/ Stranded(t)
<1>1. Clients \subseteq Tasks /\ None \notin Tasks
  BY BlockRequestAssumption DEF Clients
<1>2. ASSUME NEW u \in Clients, pc[u] = "sector"
      PROVE  Proceeds(u) /\ lock = u
  <2>1. lock = u /\ AtPlace(u)
    BY <1>1, <1>2 DEF IInv, ControllerInv, AtDrive, OnWay
  <2>2. CASE state[u] = "BLOCKED"
    <3>1. waiter = u /\ waiter # None
      BY <1>1, <1>2, <2>2 DEF IInv, ControllerInv, WaiterIsWoken
    <3> QED
      BY <2>1, <3>1 DEF IInv, ControllerInv, WaiterIsWoken, Proceeds
  <2>3. CASE state[u] # "BLOCKED"
    BY <1>1, <1>2, <2>1, <2>3 DEF AtPlace, Awake, Proceeds, IInv, ControllerInv, OnlyCurrentRuns
  <2> QED
    BY <2>1, <2>2, <2>3
<1>3. CASE state[t] = "BLOCKED" /\ pc[t] = "lock"
  <2>1. PICK i \in 1 .. Len(lock_waiters) : lock_waiters[i] = t
    BY <1>3 DEF OnWay, InQueue
  <2>2. CASE lock = None
    <3>1. lock_waiters # << >>
      BY <2>1
    <3>2. PICK u \in Clients : pc[u] = "lock" /\ state[u] # "BLOCKED"
      BY <2>2, <3>1 DEF OnWay, LockIsPassed
    <3>3. state[u] \in Awake
      BY <3>2 DEF OnWay, AtPlace
    <3>4. Proceeds(u)
      BY <1>1, <3>2, <3>3 DEF Proceeds, Awake, IInv, ControllerInv, OnlyCurrentRuns
    <3> QED
      BY <2>1, <2>2, <3>2, <3>4 DEF GoesOn
  <2>3. CASE lock # None
    <3>1. lock \in Clients /\ pc[lock] = "sector"
      BY <1>1, <2>3 DEF IInv, TypeOK, ControllerInv, AtDrive
    <3> QED
      BY <1>2, <2>1, <3>1 DEF GoesOn
  <2> QED
    BY <2>2, <2>3
<1>4. CASE pc[t] = "sector"
  BY <1>2, <1>4 DEF GoesOn
<1>5. CASE state[t] # "BLOCKED" /\ pc[t] # "sector"
  <2>1. CASE state[t] = "DIED"
    BY <1>5, <2>1 DEF OnWay, AtPlace, InRequest, GoesOn, Proceeds, Stranded
  <2>2. CASE state[t] \in Awake
    BY <1>1, <2>2 DEF Awake, IInv, ControllerInv, OnlyCurrentRuns, GoesOn, Proceeds
  <2> QED
    BY <1>5, <2>1, <2>2 DEF OnWay, AtPlace
<1>6. state[t] = "BLOCKED" => pc[t] \in {"lock", "sector"}
  BY DEF OnWay, AtPlace, Asleep
<1> QED
  BY <1>3, <1>4, <1>5, <1>6

\* device_request serves exactly one request of a disk that has any, and that
\* one goes on, through the lock, the sectors and the interrupts, unless it is
\* of a task marked DIED that has lost the processor behind its transfer.
THEOREM BlockRequestOneServed == Spec => []OneServed
<1>1. Init => OnWay
  <2>1. Clients \subseteq Tasks
    BY DEF Clients
  <2> QED
    BY <2>1 DEF Init, DispatchInit, OnWay, AtPlace, InQueue, LockIsPassed, Awake
<1>2. IInv /\ IInv' /\ OnWay /\ [Next]_vars => OnWay'
  BY NextOnWay DEF IInv
<1>3. IInv /\ OnWay => OneServed
  <2> SUFFICES ASSUME IInv, OnWay, NEW d \in Disks, request_list[d] # << >>
               PROVE  \E i \in 1 .. Len(request_list[d]) :
                        /\ \A j \in 1 .. Len(request_list[d]) : ~Asleep(request_list[d][j]) <=> j = i
                        /\ GoesOn(request_list[d][i]) \/ Stranded(request_list[d][i])
    BY DEF OneServed
  <2>1. PICK i \in 1 .. Len(request_list[d]) :
            \A j \in 1 .. Len(request_list[d]) : ~Asleep(request_list[d][j]) <=> j = i
    BY DEF IInv, ListInv, OneAwake
  <2>2. /\ request_list[d][i] \in Clients /\ pc[request_list[d][i]] \in InRequest
        /\ ~Asleep(request_list[d][i])
    BY <2>1, ListFacts
  <2>3. GoesOn(request_list[d][i]) \/ Stranded(request_list[d][i])
    BY <2>2, AwakeGoesOn
  <2> QED
    BY <2>1, <2>3
<1> QED
  BY <1>1, <1>2, <1>3, BlockRequestInvariant, PTL DEF Spec

-----------------------------------------------------------------------------
(* The elevator.                                                           *)

\* The requests of a disk are in the order of their positions.
Sorted ==
    \A d \in Disks : \A i, j \in 1 .. Len(request_list[d]) :
        i <= j => idx[request_list[d][i]] <= idx[request_list[d][j]]

\* Where list_insert_sort puts a request of position k.
LEMMA AnchorSorts ==
    ASSUME IInv, Sorted, NEW d \in Disks, NEW k \in Nat,
           NEW a, a = Anchor(request_list[d], k)
    PROVE  /\ a \in 1 .. Len(request_list[d]) + 1
           /\ \A i \in 1 .. Len(request_list[d]) :
                IF i < a THEN idx[request_list[d][i]] <= k ELSE idx[request_list[d][i]] > k
<1> DEFINE s == request_list[d]
           S == {i \in DOMAIN s : idx[s[i]] > k} \cup {Len(s) + 1}
<1>1. Len(s) \in Nat /\ DOMAIN s = 1 .. Len(s)
  BY LenProperties DEF IInv, TypeOK
<1>2. \A i \in 1 .. Len(s) : idx[s[i]] \in Nat
  BY ListFacts DEF IInv, TypeOK, Clients
<1>3. a = Min(S)
  BY DEF Anchor
<1>4. \A i, j \in 1 .. Len(s) : i <= j => idx[s[i]] <= idx[s[j]]
  BY DEF Sorted
<1>5. S \in SUBSET Nat /\ S # {} /\ S \subseteq 1 .. Len(s) + 1
  BY <1>1
<1>6. \A i \in 1 .. Len(s) : i \in S <=> idx[s[i]] > k
  BY <1>1
<1> HIDE DEF S, s
<1>7. \E m \in S : \A y \in S : m <= y
  BY <1>5, LeastNumber
<1>8. a \in S /\ \A y \in S : a <= y
  BY <1>3, <1>7 DEF Min
<1>9. a \in 1 .. Len(s) + 1
  BY <1>5, <1>8
<1>10. ASSUME NEW i \in 1 .. Len(s), i < a
       PROVE  idx[s[i]] <= k
  <2>1. i \notin S
    BY <1>1, <1>8, <1>9, <1>10
  <2> QED
    BY <1>2, <1>6, <2>1
<1>11. ASSUME NEW i \in 1 .. Len(s), ~ (i < a)
       PROVE  idx[s[i]] > k
  <2>1. a \in 1 .. Len(s) /\ a <= i
    BY <1>1, <1>9, <1>11
  <2>2. idx[s[a]] > k /\ idx[s[a]] <= idx[s[i]]
    BY <1>4, <1>6, <1>8, <2>1
  <2> QED
    BY <1>2, <2>1, <2>2
<1> QED
  BY <1>9, <1>10, <1>11 DEF s

LEMMA RequestSorts ==
    ASSUME IInv, Sorted, NEW t \in Clients, pc[t] \in {"user", "exit"},
           NEW d \in Disks, NEW k \in Positions, NEW st, Request(t, d, k, st)
    PROVE  Sorted'
<1>1. /\ request_list' = [request_list EXCEPT ![d] = InsertSort(@, t, k)]
      /\ idx' = [idx EXCEPT ![t] = k]
  BY DEF Request
<1>2. t \in Tasks /\ Clients \subseteq Tasks /\ k \in Nat /\ pc[t] \notin InRequest
  BY BlockRequestAssumption DEF Clients, InRequest
<1>3. \A u \in Tasks : idx'[u] = IF u = t THEN k ELSE idx[u]
  BY <1>1 DEF IInv, TypeOK
<1>4. ASSUME NEW e \in Disks, NEW i \in 1 .. Len(request_list[e])
      PROVE  idx'[request_list[e][i]] = idx[request_list[e][i]] /\ idx[request_list[e][i]] \in Nat
  BY <1>2, <1>3, ListFacts DEF IInv, TypeOK
<1>5. PICK s, a, r : s = request_list[d] /\ a = Anchor(s, k) /\ r = InsertAt(s, a, t)
  OBVIOUS
<1>6. /\ a \in 1 .. Len(s) + 1 /\ s \in Seq(Clients) /\ Len(s) \in Nat
      /\ \A i \in 1 .. Len(s) : IF i < a THEN idx[s[i]] <= k ELSE idx[s[i]] > k
  BY <1>2, <1>5, AnchorSorts, ListFacts
<1>7. /\ Len(r) = Len(s) + 1
      /\ \A j \in 1 .. Len(s) + 1 : r[j] = IF j < a THEN s[j] ELSE IF j = a THEN t ELSE s[j - 1]
  <2>1. /\ InsertAt(s, a, t) \in Seq(Clients)
        /\ Len(InsertAt(s, a, t)) = Len(s) + 1
        /\ \A j \in 1 .. Len(s) + 1 : InsertAt(s, a, t)[j] =
              IF j < a THEN s[j] ELSE IF j = a THEN t ELSE s[j - 1]
    BY <1>6, InsertAtFacts
  <2> QED
    BY <1>5, <2>1
<1>8. \A i, j \in 1 .. Len(s) : i <= j => idx[s[i]] <= idx[s[j]]
  BY <1>5 DEF Sorted
<1>9. \A j \in 1 .. Len(s) + 1 :
        idx'[r[j]] = IF j < a THEN idx[s[j]] ELSE IF j = a THEN k ELSE idx[s[j - 1]]
  <2> SUFFICES ASSUME NEW j \in 1 .. Len(s) + 1
               PROVE  idx'[r[j]] = IF j < a THEN idx[s[j]] ELSE IF j = a THEN k ELSE idx[s[j - 1]]
    OBVIOUS
  <2>1. CASE j < a
    <3>1. j \in 1 .. Len(s) /\ r[j] = s[j]
      BY <1>6, <1>7, <2>1
    <3> QED
      BY <1>4, <1>5, <2>1, <3>1
  <2>2. CASE j = a
    BY <1>2, <1>3, <1>6, <1>7, <2>2
  <2>3. CASE j > a
    <3>1. j - 1 \in 1 .. Len(s) /\ r[j] = s[j - 1] /\ ~ (j < a) /\ j # a
      BY <1>6, <1>7, <2>3
    <3> QED
      BY <1>4, <1>5, <3>1
  <2> QED
    BY <1>6, <2>1, <2>2, <2>3
<1>10. \A i \in 1 .. Len(s) : idx[s[i]] \in Nat
  BY <1>4, <1>5
<1>11. ASSUME NEW i \in 1 .. Len(s) + 1, NEW j \in 1 .. Len(s) + 1, i <= j
       PROVE  idx'[r[i]] <= idx'[r[j]]
  <2>1. CASE i < a /\ j < a
    BY <1>6, <1>8, <1>9, <1>11, <2>1
  <2>2. CASE i < a /\ j = a
    BY <1>2, <1>6, <1>9, <2>2
  <2>3. CASE i < a /\ j > a
    <3>1. i \in 1 .. Len(s) /\ j - 1 \in 1 .. Len(s) /\ i <= j - 1 /\ ~ (j < a) /\ j # a
      BY <1>6, <2>3
    <3> QED
      BY <1>8, <1>9, <2>3, <3>1
  <2>4. CASE i = a /\ j = a
    BY <1>2, <1>9, <2>4
  <2>5. CASE i = a /\ j > a
    <3>1. j - 1 \in 1 .. Len(s) /\ ~ (j - 1 < a) /\ ~ (j < a) /\ j # a
      BY <1>6, <2>5
    <3>2. idx[s[j - 1]] > k /\ idx[s[j - 1]] \in Nat
      BY <1>6, <1>10, <3>1
    <3> QED
      BY <1>2, <1>9, <2>5, <3>1, <3>2
  <2>6. CASE i > a /\ j > a
    <3>1. /\ i - 1 \in 1 .. Len(s) /\ j - 1 \in 1 .. Len(s) /\ i - 1 <= j - 1
          /\ ~ (i < a) /\ i # a /\ ~ (j < a) /\ j # a
      BY <1>6, <1>11, <2>6
    <3> QED
      BY <1>8, <1>9, <3>1
  <2> QED
    BY <1>6, <1>11, <2>1, <2>2, <2>3, <2>4, <2>5, <2>6
<1>12. ASSUME NEW e \in Disks, NEW i \in 1 .. Len(request_list'[e]),
              NEW j \in 1 .. Len(request_list'[e]), i <= j
       PROVE  idx'[request_list'[e][i]] <= idx'[request_list'[e][j]]
  <2>1. CASE e = d
    <3>1. request_list'[e] = r
      BY <1>1, <1>5, <2>1 DEF InsertSort, IInv, TypeOK
    <3> QED
      BY <1>7, <1>11, <1>12, <3>1
  <2>2. CASE e # d
    <3>1. request_list'[e] = request_list[e]
      BY <1>1, <2>2 DEF IInv, TypeOK
    <3>2. idx[request_list[e][i]] <= idx[request_list[e][j]]
      BY <1>12, <3>1 DEF Sorted
    <3> QED
      BY <1>4, <3>1, <3>2
  <2> QED
    BY <2>1, <2>2
<1> QED
  BY <1>12 DEF Sorted

\* The place of a task in the list of its disk.
LEMMA PlaceOf ==
    ASSUME IInv, NEW t \in Clients, pc[t] \in InRequest, disk[t] \in Disks
    PROVE  /\ Position(t) \in 1 .. Len(request_list[disk[t]])
           /\ request_list[disk[t]][Position(t)] = t
<1> DEFINE s == request_list[disk[t]]
<1>1. \E i \in 1 .. Len(s) : s[i] = t
  BY BlockRequestAssumption DEF IInv, ListInv, Linked
<1>2. DOMAIN s = 1 .. Len(s)
  BY LenProperties DEF IInv, TypeOK
<1>3. Position(t) = CHOOSE i \in 1 .. Len(s) : s[i] = t
  BY <1>2 DEF Position
<1> HIDE DEF s
<1>4. Position(t) \in 1 .. Len(s) /\ s[Position(t)] = t
  BY <1>1, <1>3
<1> QED
  BY <1>4 DEF s

LEMMA FinishSorts ==
    ASSUME IInv, Sorted, NEW t \in Clients, FinishRequest(t)
    PROVE  Sorted'
<1>1. /\ pc[t] = "finish" /\ disk[t] \in Disks /\ idx' = idx
      /\ request_list' = [request_list EXCEPT ![disk[t]] = RemoveAt(@, Position(t))]
  BY DEF FinishRequest, OnCpu, IInv, TypeOK, Clients
<1>2. PICK d, s, p, r : d = disk[t] /\ s = request_list[d] /\ p = Position(t) /\ r = RemoveAt(s, p)
  OBVIOUS
<1>3. s \in Seq(Clients) /\ Len(s) \in Nat /\ p \in 1 .. Len(s)
  BY <1>1, <1>2, ListFacts, PlaceOf DEF InRequest
<1>4. /\ Len(r) = Len(s) - 1
      /\ \A j \in 1 .. Len(s) - 1 : r[j] = IF j < p THEN s[j] ELSE s[j + 1]
  <2>1. /\ RemoveAt(s, p) \in Seq(Clients)
        /\ Len(RemoveAt(s, p)) = Len(s) - 1
        /\ \A j \in 1 .. Len(s) - 1 : RemoveAt(s, p)[j] = IF j < p THEN s[j] ELSE s[j + 1]
    BY <1>3, RemoveAtFacts
  <2> QED
    BY <1>2, <2>1
<1>5. \A i, j \in 1 .. Len(s) : i <= j => idx[s[i]] <= idx[s[j]]
  BY <1>1, <1>2 DEF Sorted
<1>6. ASSUME NEW i \in 1 .. Len(s) - 1, NEW j \in 1 .. Len(s) - 1, i <= j
      PROVE  idx[r[i]] <= idx[r[j]]
  <2>1. PICK k \in 1 .. Len(s) : r[i] = s[k] /\ k = IF i < p THEN i ELSE i + 1
    BY <1>3, <1>4
  <2>2. PICK m \in 1 .. Len(s) : r[j] = s[m] /\ m = IF j < p THEN j ELSE j + 1
    BY <1>3, <1>4
  <2>3. k <= m
    BY <1>3, <1>6, <2>1, <2>2
  <2> QED
    BY <1>5, <2>1, <2>2, <2>3
<1>7. \A e \in Disks : request_list'[e] = IF e = d THEN r ELSE request_list[e]
  BY <1>1, <1>2 DEF IInv, TypeOK
<1>8. ASSUME NEW e \in Disks, NEW i \in 1 .. Len(request_list'[e]),
             NEW j \in 1 .. Len(request_list'[e]), i <= j
      PROVE  idx'[request_list'[e][i]] <= idx'[request_list'[e][j]]
  <2>1. CASE e = d
    <3>1. request_list'[e] = r
      BY <1>7, <2>1
    <3>2. i \in 1 .. Len(s) - 1 /\ j \in 1 .. Len(s) - 1
      BY <1>4, <1>8, <3>1
    <3> QED
      BY <1>1, <1>6, <1>8, <3>1, <3>2
  <2>2. CASE e # d
    BY <1>1, <1>7, <1>8, <2>2 DEF Sorted
  <2> QED
    BY <2>1, <2>2
<1> QED
  BY <1>8 DEF Sorted

LEMMA NextSorts ==
    ASSUME IInv, Sorted, [Next]_vars
    PROVE  Sorted'
<1>1. CASE UNCHANGED <<request_list, idx>>
  BY <1>1 DEF Sorted
<1>2. ASSUME NEW t \in Clients, NEW d \in Disks, NEW k \in Positions,
             DeviceRequest(t, d, k) \/ ExitRequest(t, d, k)
      PROVE  Sorted'
  <2>1. pc[t] \in {"user", "exit"}
    BY <1>2 DEF DeviceRequest, ExitRequest, OnCpu
  <2>2. PICK st : Request(t, d, k, st)
    BY <1>2 DEF DeviceRequest, ExitRequest
  <2> QED
    BY <2>1, <2>2, RequestSorts
<1>3. ASSUME NEW t \in Clients, FinishRequest(t)
      PROVE  Sorted'
  BY <1>3, FinishSorts
<1>4. ASSUME NEW t \in Clients,
             \/ DirectTransfer(t) \/ RequestResume(t) \/ LockResume(t)
             \/ NextSector(t) \/ LastSector(t) \/ FinishDirect(t) \/ Exit(t)
      PROVE  UNCHANGED <<request_list, idx>>
  BY <1>4 DEF DirectTransfer, RequestResume, LockResume, NextSector, LastSector, FinishDirect,
     Exit, requests
<1>5. CASE DriveReady \/ IdeHandler \/ TimerPreempts
  BY <1>1, <1>5 DEF DriveReady, IdeHandler, TimerPreempts, requests
<1>6. CASE UNCHANGED vars
  BY <1>1, <1>6 DEF vars, requests
<1> QED
  BY <1>1, <1>2, <1>3, <1>4, <1>5, <1>6 DEF Next

\* request_nextreq: the neighbour of t on the side to which the head goes on.
LEMMA NeighbourIsNext ==
    ASSUME IInv, Sorted, NEW d \in Disks, NEW t \in Clients, NEW n \in Clients,
           FinishRequest(t), disk[t] = d, Asleep(n), disk[n] = d, state'[n] = "READY",
           NEW u \in Clients \ {t, n}, Asleep(u), disk[u] = d
    PROVE  /\ ~ (idx[t] < idx[u] /\ idx[u] < idx[n])
           /\ ~ (idx[n] < idx[u] /\ idx[u] < idx[t])
           /\ direct[d] = "UP" /\ idx[n] < idx[t] => idx[u] <= idx[t]
           /\ direct[d] = "DOWN" /\ idx[n] > idx[t] => idx[u] >= idx[t]
<1>1. pc[t] = "finish" /\ pc[n] = "queued" /\ pc[u] = "queued" /\ state[n] = "BLOCKED"
  BY DEF FinishRequest, OnCpu, Asleep
<1>2. PICK s, p, i, j, len : /\ s = request_list[d] /\ p = Position(t) /\ len = Len(s)
                             /\ i = Position(n) /\ j = Position(u)
  OBVIOUS
<1>3. /\ p \in 1 .. len /\ i \in 1 .. len /\ j \in 1 .. len /\ len \in Nat
      /\ s[p] = t /\ s[i] = n /\ s[j] = u
  BY <1>1, <1>2, PlaceOf, ListFacts DEF InRequest
<1>4. i # p /\ j # p /\ j # i
  BY <1>1, <1>3
<1>5. n \in NextRequest(t)
  <2>1. state' = Wake(state, NextRequest(t)) /\ n \in Tasks
    BY DEF FinishRequest, Clients
  <2>2. state'[n] # state[n]
    BY <1>1
  <2> QED
    BY <2>1, <2>2 DEF Wake
<1>6. i = IF Turns(t) = "UP" THEN p + 1 ELSE p - 1
  <2>1. PICK q \in DOMAIN s : n = s[q] /\ q = IF Turns(t) = "UP" THEN p + 1 ELSE p - 1
    BY <1>2, <1>5 DEF NextRequest
  <2>2. q \in 1 .. len
    BY <1>2, <2>1, LenProperties DEF IInv, TypeOK
  <2>3. q = i
    BY <1>2, <1>3, <2>1, <2>2, ListFacts
  <2> QED
    BY <2>1, <2>3
<1>7. \A k, m \in 1 .. len : k <= m => idx[s[k]] <= idx[s[m]]
  BY <1>2 DEF Sorted
<1>8. \A k \in 1 .. len : idx[s[k]] \in Nat
  BY <1>2, ListFacts DEF IInv, TypeOK, Clients
<1>9. PICK x, y, z \in Nat : x = idx[t] /\ y = idx[n] /\ z = idx[u]
  BY <1>3, <1>8
<1>10. /\ Turns(t) = IF direct[d] = "UP" /\ p = len THEN "DOWN"
                     ELSE IF direct[d] = "DOWN" /\ p = 1 THEN "UP" ELSE direct[d]
       /\ direct[d] \in {"UP", "DOWN"}
  BY <1>2 DEF Turns, IInv, TypeOK
<1>11. CASE Turns(t) = "UP"
  <2>1. i = p + 1 /\ x <= y /\ (direct[d] = "DOWN" => p = 1)
    BY <1>3, <1>6, <1>7, <1>9, <1>10, <1>11
  <2>2. j < p => z <= x
    BY <1>3, <1>7, <1>9
  <2>3. j > p => z >= y /\ z >= x
    BY <1>3, <1>4, <1>7, <1>9, <2>1
  <2>4. j < p \/ j > p
    BY <1>3, <1>4
  <2> QED
    BY <1>3, <1>9, <2>1, <2>2, <2>3, <2>4
<1>12. CASE Turns(t) = "DOWN"
  <2>1. i = p - 1 /\ y <= x /\ (direct[d] = "UP" => p = len)
    BY <1>3, <1>6, <1>7, <1>9, <1>10, <1>12
  <2>2. j < p => z <= y /\ z <= x
    BY <1>3, <1>4, <1>7, <1>9, <2>1
  <2>3. j > p => z >= x
    BY <1>3, <1>7, <1>9
  <2>4. j < p \/ j > p
    BY <1>3, <1>4
  <2> QED
    BY <1>3, <1>9, <2>1, <2>2, <2>3, <2>4
<1> QED
  BY <1>10, <1>11, <1>12

\* Only the end of device_request leaves the place "finish" with a request.
LEMMA FinishIsRequest ==
    ASSUME IInv, [Next]_vars, NEW t \in Clients, pc[t] = "finish", pc'[t] # "finish",
           disk[t] \in Disks
    PROVE  FinishRequest(t)
<1>1. disk[t] # None /\ t \in Tasks
  BY BlockRequestAssumption DEF Clients
<1>2. ASSUME NEW u, NEW place, Moves(u, place), pc[u] # "finish"
      PROVE  FALSE
  BY <1>1, <1>2 DEF Moves, IInv, TypeOK
<1>3. ASSUME NEW u, NEW st, Transfer(u, st), pc[u] # "finish"
      PROVE  FALSE
  BY <1>2, <1>3 DEF Transfer, Command, WaitForLock
<1>4. ASSUME NEW u, NEW d, NEW k, NEW st, Request(u, d, k, st), pc[u] # "finish"
      PROVE  FALSE
  BY <1>2, <1>3, <1>4 DEF Request
<1>5. ASSUME NEW u \in Clients, NEW d \in Disks, NEW k \in Positions,
             DeviceRequest(u, d, k) \/ ExitRequest(u, d, k)
      PROVE  FALSE
  BY <1>4, <1>5 DEF DeviceRequest, ExitRequest, OnCpu
<1>6. ASSUME NEW u \in Clients, DirectTransfer(u) \/ RequestResume(u) \/ LockResume(u)
      PROVE  FALSE
  BY <1>3, <1>6 DEF DirectTransfer, RequestResume, LockResume, OnCpu
<1>7. ASSUME NEW u \in Clients, NextSector(u) \/ LastSector(u) \/ Exit(u)
      PROVE  FALSE
  BY <1>2, <1>7 DEF NextSector, LastSector, Exit, OnCpu
<1>8. ASSUME NEW u \in Clients, FinishRequest(u) \/ FinishDirect(u), u # t
      PROVE  FALSE
  BY <1>1, <1>8 DEF FinishRequest, FinishDirect, Returns, Moves, IInv, TypeOK
<1>9. ~FinishDirect(t)
  BY <1>1 DEF FinishDirect
<1>10. ~ (DriveReady \/ IdeHandler \/ TimerPreempts) /\ ~UNCHANGED vars
  BY DEF DriveReady, IdeHandler, TimerPreempts, vars
<1> QED
  BY <1>5, <1>6, <1>7, <1>8, <1>9, <1>10 DEF Next

\* The elevator (request_nextreq): the next request that is served is the
\* nearest one on the side to which the head moves, and the head turns only
\* when nothing is left there.  With list_insert_sort keeping the list of a
\* disk in order, the neighbour in the list is that request.
THEOREM BlockRequestElevatorOrder == Spec => ElevatorOrder
<1>1. Init => Sorted
  <2> SUFFICES ASSUME Init, NEW d \in Disks
               PROVE  Len(request_list[d]) = 0
    BY DEF Sorted
  <2> QED
    BY DEF Init
<1>2. IInv /\ Sorted /\ [Next]_vars => Sorted'
  BY NextSorts
<1>3. IInv /\ Sorted /\ [Next]_vars =>
        \A d \in Disks, t, n \in Clients :
        (/\ pc[t] = "finish" /\ disk[t] = d /\ pc'[t] # "finish"
         /\ Asleep(n) /\ disk[n] = d /\ state'[n] = "READY")
            => \A u \in Clients \ {t, n} : (Asleep(u) /\ disk[u] = d) =>
                /\ ~ (idx[t] < idx[u] /\ idx[u] < idx[n])
                /\ ~ (idx[n] < idx[u] /\ idx[u] < idx[t])
                /\ direct[d] = "UP" /\ idx[n] < idx[t] => idx[u] <= idx[t]
                /\ direct[d] = "DOWN" /\ idx[n] > idx[t] => idx[u] >= idx[t]
  <2> SUFFICES ASSUME IInv, Sorted, [Next]_vars, NEW d \in Disks, NEW t \in Clients, NEW n \in Clients,
                      pc[t] = "finish", disk[t] = d, pc'[t] # "finish",
                      Asleep(n), disk[n] = d, state'[n] = "READY",
                      NEW u \in Clients \ {t, n}, Asleep(u), disk[u] = d
               PROVE  /\ ~ (idx[t] < idx[u] /\ idx[u] < idx[n])
                      /\ ~ (idx[n] < idx[u] /\ idx[u] < idx[t])
                      /\ direct[d] = "UP" /\ idx[n] < idx[t] => idx[u] <= idx[t]
                      /\ direct[d] = "DOWN" /\ idx[n] > idx[t] => idx[u] >= idx[t]
    OBVIOUS
  <2>1. FinishRequest(t)
    BY FinishIsRequest
  <2> QED
    BY <2>1, NeighbourIsNext
<1> QED
  BY <1>1, <1>2, <1>3, BlockRequestInvariant, PTL DEF Spec, ElevatorOrder
=============================================================================
