---------------------------- MODULE KernelProofs ----------------------------
(***************************************************************************)
(* Proofs about Process, and about the components that no interrupt or     *)
(* other task disturbs within a call: BufferCache, Arena and Console.      *)
(*                                                                         *)
(* Process, for any set of slots, so for any number of tasks, any depth of *)
(* the process tree and any order of exits.  That no exit is missed is not *)
(* inductive: when a task exits, its dead children move to its parent, and *)
(* a parent that waits for one pid is woken for no other; that this pid is *)
(* not among them needs WaitHasChild.  That nobody becomes the child of an *)
(* exited task needs to know that the parent of a task is not the task     *)
(* itself, which stays so because the parents form a tree (Descends): both *)
(* until task_waitpid frees a task in the middle of its task_exit.         *)
(*                                                                         *)
(* BufferCache, for any tasks, blocks and number of buffers: count is the  *)
(* number of references through every wait, the free list is what nobody   *)
(* uses, no block is cached twice, and a buffer in use keeps its block and *)
(* its data.  First how the references to a buffer change when a task gets *)
(* one, gives one back or goes from waiting to holding, then one lemma for *)
(* each operation.                                                         *)
(*                                                                         *)
(* Arena, for any sizes of blocks and number of pages: every block of      *)
(* every page is accounted for.  Console, for any screen and any memory of *)
(* at least two screens: the window shows the text, as long as no control  *)
(* character has smeared it, however often it has scrolled and gone back   *)
(* to the start of the memory.                                             *)
(*                                                                         *)
(* The three are instances here, and share the names pc, count, free_list  *)
(* and held as in MCParts, whose behaviours PartsProofs reads off.         *)
(***************************************************************************)
EXTENDS Process, TLAPS, FiniteSetTheorems, SequenceTheorems, WellFoundedInduction

\* Every nonempty set of naturals has a least element: a statement about every
\* n is proved from a least n for which it fails.
LEMMA LeastNumber ==
    ASSUME NEW T \in SUBSET Nat, T # {}
    PROVE  \E m \in T : \A y \in T : m <= y
<1>1. IsWellFoundedOn({ss \in Nat \X Nat : ss[1] < ss[2]}, Nat)
  BY NatLessThanWellFounded DEF OpToRel
<1>2. PICK m \in T : \A y \in T : <<y, m>> \notin {ss \in Nat \X Nat : ss[1] < ss[2]}
  BY <1>1, WFMin
<1>3. \A y \in T : y \in Nat /\ m \in Nat /\ ~(y < m)
  BY <1>2
<1> QED
  BY <1>3

Awake == {"READY", "RUNNING"}

\* The states that schedule() neither makes nor ends.
Fixed == {"FREE", "WAITING", "BLOCKED", "DIED"}

SlotState == Awake \cup Fixed

TypeOK ==
    /\ current \in Tasks \cup {Boot}
    /\ state \in [Tasks -> SlotState]
    /\ ppid \in [Tasks -> Tasks]
    /\ waitpid \in [Tasks -> Tasks \cup {Any}]
    /\ pc \in [Tasks -> {"user", "waiting", "exiting", "exited"}]
    /\ torn \in BOOLEAN

OneRunning == \A t \in Tasks : state[t] = "RUNNING" <=> t = current

\* idle and init are never children of a process and never exit.
Roots ==
    /\ ppid[Idle] = Idle /\ pc[Idle] = "user" /\ state[Idle] \in Awake
    /\ ppid[InitTask] = Idle /\ pc[InitTask] \in {"user", "waiting"}
    /\ state[InitTask] \notin {"FREE", "DIED"}

Places == \A t \in Tasks : state[t] = "FREE" => pc[t] = "user"

\* The chain of parents leads down to idle.
Descends ==
    ~torn => \E depth \in [Tasks -> Nat] :
        \A c \in Tasks \ {Idle} : state[c] # "FREE" => depth[ppid[c]] < depth[c]

IInv ==
    /\ TypeOK /\ OneRunning
    /\ Roots /\ Places /\ Descends
    /\ NoMissedExit /\ WaitHasChild /\ NoOrphans

-----------------------------------------------------------------------------
\* get_free_task and the loop of task_waitpid find a slot when there is one.
LEMMA FirstIsMember ==
    ASSUME NEW S \in SUBSET Tasks, S # {}
    PROVE  First(S) \in S
<1>1. \E m \in S : \A y \in S : m <= y
  BY LeastNumber, ProcessAssumption
<1> QED
  BY <1>1 DEF First

\* schedule() changes nothing but who is ready and who runs.
LEMMA DispatchStep ==
    ASSUME NEW st \in [Tasks -> SlotState],
           \A t \in Tasks : st[t] = "RUNNING" => t = current,
           st[Idle] \in Awake,
           Dispatch(st)
    PROVE  /\ current' \in Tasks
           /\ state' \in [Tasks -> SlotState]
           /\ OneRunning'
           /\ \A t \in Tasks : \A s \in Fixed : state'[t] = s <=> st[t] = s
           /\ state'[Idle] \in Awake
<1>1. PICK next \in Eligible(st) : current' = next /\ state' = Switched(st, next)
  BY DEF Dispatch
<1>2. next \in Tasks /\ st[next] \in Awake
  BY <1>1, DispatcherAssumption DEF Eligible, Ready, Awake
<1>3. \A t \in Tasks : state'[t] = IF t = next THEN "RUNNING"
                                   ELSE IF t = current /\ st[t] = "RUNNING"
                                   THEN "READY" ELSE st[t]
  BY <1>1 DEF Switched
<1>4. state' \in [Tasks -> SlotState]
  BY <1>1 DEF Switched, SlotState, Awake
<1>5. OneRunning'
  BY <1>1, <1>3 DEF OneRunning
<1>6. \A t \in Tasks : \A s \in Fixed : state'[t] = s <=> st[t] = s
  BY <1>2, <1>3 DEF Fixed, Awake
<1>7. state'[Idle] \in Awake
  BY <1>3, DispatcherAssumption DEF Awake
<1> QED
  BY <1>1, <1>2, <1>4, <1>5, <1>6, <1>7

\* A task is not its own parent, and only idle is above init.
LEMMA ParentIsOther ==
    ASSUME IInv, ~torn, NEW c \in Tasks \ {Idle}, state[c] # "FREE"
    PROVE  ppid[c] # c
<1>1. PICK depth \in [Tasks -> Nat] :
        \A d \in Tasks \ {Idle} : state[d] # "FREE" => depth[ppid[d]] < depth[d]
  BY DEF IInv, Descends
<1>2. depth[ppid[c]] < depth[c] /\ depth[c] \in Nat
  BY <1>1
<1> QED
  BY <1>2

-----------------------------------------------------------------------------
LEMMA InitIInv == Init => IInv
<1> SUFFICES ASSUME Init PROVE IInv
  OBVIOUS
<1> USE DEF Init
<1>1. Idle \in Tasks /\ InitTask \in Tasks /\ Boot \notin Tasks /\ Any \notin Tasks
  BY ProcessAssumption, DispatcherAssumption
<1>2. TypeOK /\ OneRunning
  BY <1>1 DEF TypeOK, OneRunning, SlotState, Awake, Fixed
<1>3. Roots /\ Places
  BY <1>1 DEF Roots, Places, Awake
<1>4. Descends
  <2> DEFINE depth == [t \in Tasks |-> IF t = Idle THEN 0 ELSE 1]
  <2>1. depth \in [Tasks -> Nat]
    OBVIOUS
  <2>2. \A c \in Tasks \ {Idle} : state[c] # "FREE" => depth[ppid[c]] < depth[c]
    BY <1>1
  <2> QED
    BY <2>1, <2>2 DEF Descends
<1>5. NoMissedExit /\ WaitHasChild /\ NoOrphans
  BY <1>1 DEF NoMissedExit, WaitHasChild, NoOrphans
<1> QED
  BY <1>2, <1>3, <1>4, <1>5 DEF IInv

-----------------------------------------------------------------------------
(* A step that moves tasks between the states of Awake and "BLOCKED", or   *)
(* leaves one dead in the middle of task_exit.                             *)
LEMMA QuietStepKeeps ==
    ASSUME IInv,
           TypeOK', OneRunning',
           UNCHANGED <<ppid, waitpid, torn>>,
           \A u \in Tasks : \A s \in {"FREE", "WAITING"} :
               state'[u] = s <=> state[u] = s,
           \A u \in Tasks : state'[u] = "DIED" =>
               state[u] = "DIED" \/ (pc'[u] = "exiting" /\ u # InitTask),
           state'[Idle] \in Awake,
           \A u \in Tasks : pc'[u] # pc[u] =>
               /\ u # Idle /\ state[u] = "RUNNING"
               /\ pc'[u] # "exited"
               /\ pc'[u] = "exiting" => u # InitTask
    PROVE  IInv'
<1>1. Roots'
  BY ProcessAssumption, DispatcherAssumption DEF IInv, Roots, TypeOK
<1>2. Places'
  BY DEF IInv, Places
<1>3. Descends'
  BY DEF IInv, Descends
<1>4. NoMissedExit'
  BY DEF IInv, NoMissedExit, Dead, Children, Slots
<1>5. WaitHasChild'
  BY DEF IInv, WaitHasChild, Slots
<1>6. NoOrphans'
  BY DEF IInv, NoOrphans, TypeOK
<1> QED
  BY <1>1, <1>2, <1>3, <1>4, <1>5, <1>6 DEF IInv

LEMMA DiskDoneKeeps ==
    ASSUME IInv, NEW t \in Tasks \ {Idle}, DiskDone(t)
    PROVE  IInv'
<1>1. \A u \in Tasks : state'[u] = IF u = t THEN "READY" ELSE state[u]
  BY DEF DiskDone, Wake
<1>2. TypeOK'
  BY DEF DiskDone, Wake, IInv, TypeOK, SlotState, Awake
<1>3. OneRunning'
  BY <1>1 DEF DiskDone, IInv, OneRunning
<1>4. \A u \in Tasks : \A s \in {"FREE", "WAITING", "DIED"} :
          state'[u] = s <=> state[u] = s
  BY <1>1 DEF DiskDone
<1>5. state'[Idle] \in Awake
  BY <1>1, DispatcherAssumption DEF IInv, Roots
<1>6. UNCHANGED <<ppid, waitpid, pc, torn>>
  BY DEF DiskDone
<1> QED
  BY <1>2, <1>3, <1>4, <1>5, <1>6, QuietStepKeeps

LEMMA TimerPreemptsKeeps ==
    ASSUME IInv, TimerPreempts
    PROVE  IInv'
<1>1. Dispatch(state) /\ UNCHANGED <<ppid, waitpid, pc, torn>>
  BY DEF TimerPreempts
<1>2. /\ state \in [Tasks -> SlotState]
      /\ state[Idle] \in Awake
      /\ \A u \in Tasks : state[u] = "RUNNING" => u = current
  BY DEF IInv, TypeOK, Roots, OneRunning
<1>3. /\ current' \in Tasks
      /\ state' \in [Tasks -> SlotState]
      /\ OneRunning'
      /\ \A u \in Tasks : \A s \in Fixed : state'[u] = s <=> state[u] = s
      /\ state'[Idle] \in Awake
  BY <1>1, <1>2, DispatchStep
<1>4. TypeOK'
  BY <1>1, <1>3 DEF IInv, TypeOK
<1>5. \A u \in Tasks : \A s \in {"FREE", "WAITING", "DIED"} :
          state'[u] = s <=> state[u] = s
  BY <1>3 DEF Fixed
<1> QED
  BY <1>1, <1>3, <1>4, <1>5, QuietStepKeeps

\* task_exit gives up the processor: blocked, ready, or dead for ever.
LEMMA LeaveExitKeeps ==
    ASSUME IInv, NEW t \in Tasks \ {Idle, InitTask}, Running(t),
           NEW st, st = Mark(t, "BLOCKED") \/ st = Mark(t, "DIED") \/ st = state,
           LeaveExit(t, st)
    PROVE  IInv'
<1>1. Dispatch(st) /\ UNCHANGED <<ppid, waitpid, torn>> /\ pc' = [pc EXCEPT ![t] = "exiting"]
  BY DEF LeaveExit
<1>2. /\ \A u \in Tasks : u # t => st[u] = state[u]
      /\ st[t] \in {"BLOCKED", "DIED", "RUNNING"}
  BY DEF Mark, IInv, TypeOK, Running
<1>3. st \in [Tasks -> SlotState]
  BY DEF Mark, IInv, TypeOK, SlotState, Fixed
<1>4. /\ st[Idle] \in Awake
      /\ \A u \in Tasks : st[u] = "RUNNING" => u = current
  BY <1>2, DispatcherAssumption DEF IInv, Roots, OneRunning, Running
<1>5. /\ current' \in Tasks
      /\ state' \in [Tasks -> SlotState]
      /\ OneRunning'
      /\ \A u \in Tasks : \A s \in Fixed : state'[u] = s <=> st[u] = s
      /\ state'[Idle] \in Awake
  BY <1>1, <1>3, <1>4, DispatchStep
<1>6. TypeOK'
  BY <1>1, <1>5 DEF IInv, TypeOK
<1>7. \A u \in Tasks : \A s \in {"FREE", "WAITING"} :
          state'[u] = s <=> state[u] = s
  BY <1>2, <1>5 DEF Fixed, Running
<1>8. pc'[t] = "exiting" /\ \A u \in Tasks : u # t => pc'[u] = pc[u]
  BY <1>1 DEF IInv, TypeOK
<1>9. \A u \in Tasks : state'[u] = "DIED" =>
          state[u] = "DIED" \/ (pc'[u] = "exiting" /\ u # InitTask)
  BY <1>2, <1>5, <1>8 DEF Fixed
<1>10. \A u \in Tasks : pc'[u] # pc[u] =>
          /\ u # Idle /\ state[u] = "RUNNING"
          /\ pc'[u] # "exited"
          /\ pc'[u] = "exiting" => u # InitTask
  BY <1>8 DEF Running
<1> QED
  BY <1>1, <1>5, <1>6, <1>7, <1>9, <1>10, QuietStepKeeps

-----------------------------------------------------------------------------
\* The new task is a leaf of the tree: nobody has a free slot as its parent.
LEMMA ForkKeeps ==
    ASSUME IInv, NEW t \in Tasks \ {Idle}, Fork(t)
    PROVE  IInv'
<1> DEFINE n == First(Free)
<1>1. n \in Tasks /\ state[n] = "FREE"
  BY FirstIsMember DEF Fork, Free
<1>2. /\ state[t] = "RUNNING" /\ current = t /\ pc[t] = "user"
      /\ state' = [state EXCEPT ![n] = "READY"]
      /\ ppid' = [ppid EXCEPT ![n] = t]
      /\ waitpid' = [waitpid EXCEPT ![n] = waitpid[t]]
      /\ current' = current /\ pc' = pc /\ torn' = torn
  BY DEF Fork, Running, ChildState
<1> HIDE DEF n
<1>3. n # t /\ n # Idle /\ n # InitTask
  BY <1>1, <1>2 DEF IInv, Roots, Awake
<1>4. TypeOK'
  BY <1>1, <1>2 DEF IInv, TypeOK, SlotState, Awake
<1>5. \A u \in Tasks : /\ state'[u] = IF u = n THEN "READY" ELSE state[u]
                       /\ ppid'[u] = IF u = n THEN t ELSE ppid[u]
                       /\ u # n => waitpid'[u] = waitpid[u]
  BY <1>2 DEF IInv, TypeOK
<1>6. OneRunning'
  BY <1>1, <1>2, <1>5 DEF IInv, OneRunning
<1>7. Roots'
  BY <1>2, <1>3, <1>5, DispatcherAssumption, ProcessAssumption DEF IInv, Roots
<1>8. Places'
  BY <1>1, <1>2, <1>5 DEF IInv, Places
<1>9. ~torn => \A u \in Tasks : state[u] # "FREE" => ppid[u] # n
  BY <1>1 DEF IInv, NoOrphans
<1>10. Descends'
  <2> SUFFICES ASSUME ~torn
               PROVE  \E depth \in [Tasks -> Nat] :
                        \A c \in Tasks \ {Idle} : state'[c] # "FREE" => depth[ppid'[c]] < depth[c]
    BY <1>2 DEF Descends
  <2>1. PICK depth \in [Tasks -> Nat] :
          \A c \in Tasks \ {Idle} : state[c] # "FREE" => depth[ppid[c]] < depth[c]
    BY DEF IInv, Descends
  <2> DEFINE deeper == [depth EXCEPT ![n] = depth[t] + 1]
  <2>2. deeper \in [Tasks -> Nat]
    <3>1. depth[t] + 1 \in Nat
      OBVIOUS
    <3> QED
      BY <3>1
  <2>3. deeper[n] = depth[t] + 1 /\ \A u \in Tasks \ {n} : deeper[u] = depth[u]
    BY <1>1
  <2> HIDE DEF deeper
  <2>4. ASSUME NEW c \in Tasks \ {Idle}, state'[c] # "FREE"
        PROVE  deeper[ppid'[c]] < deeper[c]
    <3>1. CASE c = n
      BY <3>1, <2>3, <1>1, <1>3, <1>5
    <3>2. CASE c # n
      <4>1. state[c] # "FREE" /\ ppid'[c] = ppid[c] /\ ppid[c] # n /\ ppid[c] \in Tasks
        BY <3>2, <2>4, <1>5, <1>9 DEF IInv, TypeOK
      <4> QED
        BY <4>1, <3>2, <2>1, <2>3
    <3> QED
      BY <3>1, <3>2
  <2> QED
    BY <2>2, <2>4
<1>11. NoMissedExit'
  BY <1>2, <1>5 DEF IInv, NoMissedExit, Dead, Children, Slots
<1>12. WaitHasChild'
  BY <1>1, <1>5 DEF IInv, WaitHasChild, Slots
<1>13. NoOrphans'
  BY <1>1, <1>2, <1>3, <1>5 DEF IInv, NoOrphans, TypeOK
<1> QED
  BY <1>4, <1>6, <1>7, <1>8, <1>10, <1>11, <1>12, <1>13 DEF IInv

-----------------------------------------------------------------------------
\* A child that has finished task_exit has no children of its own.
LEMMA ReapKeeps ==
    ASSUME IInv, NEW t \in Tasks \ {Idle}, Running(t), pc[t] \in {"user", "waiting"},
           NEW pid, NEW c \in Dead(t, pid), Reap(t, c)
    PROVE  IInv'
<1>1. /\ c \in Slots /\ c \in Tasks /\ c # Idle /\ c # InitTask
      /\ state[c] = "DIED" /\ ppid[c] = t
  BY DEF Dead, Children, Slots
<1>2. state[t] = "RUNNING" /\ current = t /\ c # t
  BY <1>1 DEF Running
<1>3. ~torn' => ~torn /\ pc[c] = "exited"
  BY DEF Reap, IInv, TypeOK
<1>4. TypeOK'
  BY <1>1, DispatcherAssumption DEF Reap, IInv, TypeOK, SlotState, Fixed
<1>5. \A u \in Tasks :
        /\ state'[u] = IF u = c THEN "FREE" ELSE state[u]
        /\ u # c => ppid'[u] = ppid[u] /\ waitpid'[u] = waitpid[u]
        /\ pc'[u] = IF u \in {c, t} THEN "user" ELSE pc[u]
  BY <1>1 DEF Reap, IInv, TypeOK
<1>6. current' = current
  BY DEF Reap
<1>7. OneRunning'
  BY <1>1, <1>2, <1>5, <1>6 DEF IInv, OneRunning
<1>8. Roots'
  BY <1>1, <1>5, DispatcherAssumption, ProcessAssumption DEF IInv, Roots
<1>9. Places'
  BY <1>2, <1>5 DEF IInv, Places
<1>10. Descends'
  BY <1>3, <1>5 DEF IInv, Descends
<1>11. NoMissedExit'
  BY <1>2, <1>5 DEF IInv, NoMissedExit, Dead, Children, Slots
<1>12. WaitHasChild'
  <2> SUFFICES ASSUME NEW p \in Tasks, state'[p] = "WAITING"
               PROVE  \E d \in Slots : /\ state'[d] # "FREE" /\ ppid'[d] = p
                                       /\ waitpid'[p] \in {Any, d}
    BY DEF WaitHasChild
  <2>1. p # c /\ state[p] = "WAITING" /\ waitpid'[p] = waitpid[p] /\ p # t
    BY <1>2, <1>5
  <2>2. PICK d \in Slots : state[d] # "FREE" /\ ppid[d] = p /\ waitpid[p] \in {Any, d}
    BY <2>1 DEF IInv, WaitHasChild
  <2>3. d # c /\ d \in Tasks
    BY <2>1, <2>2, <1>1 DEF Slots
  <2> QED
    BY <2>1, <2>2, <2>3, <1>5
<1>13. NoOrphans'
  <2> SUFFICES ASSUME ~torn', NEW u \in Tasks, state'[u] # "FREE"
               PROVE  /\ state'[ppid'[u]] # "FREE"
                      /\ u # Idle => pc'[ppid'[u]] # "exited"
    BY DEF NoOrphans
  <2>1. u # c /\ state[u] # "FREE" /\ ppid'[u] = ppid[u] /\ ppid[u] \in Tasks
    BY <1>5 DEF IInv, TypeOK
  <2>2. ppid[u] # c
    BY <2>1, <1>1, <1>3 DEF IInv, NoOrphans, Roots
  <2> QED
    BY <2>1, <2>2, <1>3, <1>5 DEF IInv, NoOrphans
<1> QED
  BY <1>4, <1>7, <1>8, <1>9, <1>10, <1>11, <1>12, <1>13 DEF IInv

-----------------------------------------------------------------------------
\* The task decides to wait in the same step in which it saw a child alive
\* and none dead.
LEMMA WaitForChildKeeps ==
    ASSUME IInv, NEW t \in Tasks \ {Idle}, Running(t),
           NEW pid \in Tasks \cup {Any},
           Dead(t, pid) = {}, Children(t, pid) # {}, WaitForChild(t, pid)
    PROVE  IInv'
<1> DEFINE st == Mark(t, "WAITING")
<1>1. /\ Dispatch(st)
      /\ ppid' = ppid /\ torn' = torn
      /\ waitpid' = [waitpid EXCEPT ![t] = pid]
      /\ pc' = [pc EXCEPT ![t] = "waiting"]
      /\ state[t] = "RUNNING" /\ current = t
  BY DEF WaitForChild, Running
<1>2. \A u \in Tasks : st[u] = IF u = t THEN "WAITING" ELSE state[u]
  BY DEF Mark, IInv, TypeOK
<1>3. /\ st \in [Tasks -> SlotState]
      /\ st[Idle] \in Awake
      /\ \A u \in Tasks : st[u] = "RUNNING" => u = current
  BY <1>2, DispatcherAssumption
  DEF Mark, IInv, TypeOK, Roots, OneRunning, SlotState, Fixed
<1> HIDE DEF st
<1>4. /\ current' \in Tasks
      /\ state' \in [Tasks -> SlotState]
      /\ OneRunning'
      /\ \A u \in Tasks : \A s \in Fixed : state'[u] = s <=> st[u] = s
      /\ state'[Idle] \in Awake
  BY <1>1, <1>3, DispatchStep
<1>5. TypeOK'
  BY <1>1, <1>4 DEF IInv, TypeOK
<1>6. \A u \in Tasks :
        /\ \A s \in {"FREE", "DIED"} : state'[u] = s <=> state[u] = s
        /\ state'[u] = "WAITING" <=> state[u] = "WAITING" \/ u = t
        /\ waitpid'[u] = IF u = t THEN pid ELSE waitpid[u]
        /\ pc'[u] = IF u = t THEN "waiting" ELSE pc[u]
  BY <1>1, <1>2, <1>4 DEF Fixed, IInv, TypeOK
<1>7. Roots'
  BY <1>1, <1>4, <1>6, DispatcherAssumption, ProcessAssumption DEF IInv, Roots
<1>8. Places'
  BY <1>1, <1>6 DEF IInv, Places
<1>9. Descends'
  BY <1>1, <1>6 DEF IInv, Descends
<1>10. NoMissedExit'
  <2> SUFFICES ASSUME NEW p \in Tasks, state'[p] = "WAITING",
                      NEW c \in Slots, state'[c] = "DIED", ppid'[c] = p,
                      waitpid'[p] \in {Any, c}, pc'[c] = "exited"
               PROVE  FALSE
    BY DEF NoMissedExit, Dead, Children
  <2>1. c \in Tasks /\ state[c] = "DIED" /\ ppid[c] = p /\ pc[c] = "exited"
    BY <1>1, <1>6 DEF Slots
  <2>2. CASE p = t
    BY <2>1, <2>2, <1>6 DEF Dead, Children
  <2>3. CASE p # t
    BY <2>1, <2>3, <1>6 DEF IInv, NoMissedExit, Dead, Children
  <2> QED
    BY <2>2, <2>3
<1>11. WaitHasChild'
  <2> SUFFICES ASSUME NEW p \in Tasks, state'[p] = "WAITING"
               PROVE  \E c \in Slots : /\ state'[c] # "FREE" /\ ppid'[c] = p
                                       /\ waitpid'[p] \in {Any, c}
    BY DEF WaitHasChild
  <2>1. CASE p = t
    BY <2>1, <1>1, <1>6 DEF Children, Slots
  <2>2. CASE p # t
    BY <2>2, <1>1, <1>6 DEF IInv, WaitHasChild, Slots
  <2> QED
    BY <2>1, <2>2
<1>12. NoOrphans'
  BY <1>1, <1>6 DEF IInv, NoOrphans, TypeOK
<1> QED
  BY <1>4, <1>5, <1>7, <1>8, <1>9, <1>10, <1>11, <1>12 DEF IInv

LEMMA SearchKeeps ==
    ASSUME IInv, NEW t \in Tasks \ {Idle}, Running(t), pc[t] \in {"user", "waiting"},
           NEW pid \in Tasks \cup {Any}, Search(t, pid)
    PROVE  IInv'
<1>1. CASE Dead(t, pid) # {}
  <2>1. Dead(t, pid) \in SUBSET Tasks
    BY DEF Dead, Children, Slots
  <2>2. First(Dead(t, pid)) \in Dead(t, pid)
    BY <1>1, <2>1, FirstIsMember
  <2>3. Reap(t, First(Dead(t, pid)))
    BY <1>1 DEF Search
  <2> QED
    BY <2>2, <2>3, ReapKeeps
<1>2. CASE Dead(t, pid) = {} /\ Children(t, pid) # {}
  <2>1. WaitForChild(t, pid)
    BY <1>2 DEF Search
  <2> QED
    BY <1>2, <2>1, WaitForChildKeeps
<1>3. CASE Dead(t, pid) = {} /\ Children(t, pid) = {}
  <2>1. pc' = [pc EXCEPT ![t] = "user"] /\ UNCHANGED <<current, state, ppid, waitpid, torn>>
    BY <1>3 DEF Search
  <2>2. TypeOK' /\ OneRunning' /\ state'[Idle] \in Awake
    BY <2>1 DEF IInv, TypeOK, OneRunning, Roots
  <2>3. \A u \in Tasks : pc'[u] # pc[u] => u = t /\ pc'[u] = "user"
    BY <2>1 DEF IInv, TypeOK
  <2> QED
    BY <2>1, <2>2, <2>3, QuietStepKeeps DEF Running
<1> QED
  BY <1>1, <1>2, <1>3

-----------------------------------------------------------------------------
\* The end of task_exit: the children, dead ones too, go to the parent, which
\* is woken when it waits for any child or for this one.  It cannot wait for
\* one of the children it is just given.
LEMMA FinishExitKeeps ==
    ASSUME IInv, NEW t \in Tasks \ {Idle, InitTask}, Running(t),
           NEW st, st = Mark(t, "DIED") \/ st = state, FinishExit(t, st)
    PROVE  IInv'
<1> DEFINE w == Wake(st, WaitersFor(t))
<1>1. /\ Dispatch(w)
      /\ ppid' = Reparented(t)
      /\ pc' = [pc EXCEPT ![t] = "exited"]
      /\ waitpid' = waitpid /\ torn' = torn
      /\ state[t] = "RUNNING" /\ current = t
      /\ state[ppid[t]] # "FREE"
  BY DEF FinishExit, Running
<1>2. \A u \in Tasks : st[u] = IF u = t THEN st[t] ELSE state[u]
  BY DEF Mark, IInv, TypeOK
<1>3. st[t] \in {"DIED", "RUNNING"}
  BY <1>1 DEF Mark, IInv, TypeOK
<1>4. t \notin WaitersFor(t) /\ \A p \in WaitersFor(t) : state[p] = "WAITING"
  BY <1>1 DEF WaitersFor
<1>5. \A u \in Tasks : w[u] = IF u \in WaitersFor(t) THEN "READY"
                              ELSE IF u = t THEN st[t] ELSE state[u]
  BY <1>2 DEF Wake
<1>6. /\ w \in [Tasks -> SlotState]
      /\ w[Idle] \in Awake
      /\ \A u \in Tasks : w[u] = "RUNNING" => u = current
  <2>1. \A u \in Tasks : w[u] \in SlotState
    BY <1>3, <1>5 DEF IInv, TypeOK, SlotState, Awake, Fixed
  <2>2. w = [u \in Tasks |-> w[u]]
    BY DEF Wake
  <2>3. w[Idle] \in Awake
    BY <1>4, <1>5, DispatcherAssumption DEF IInv, Roots, Awake
  <2>4. \A u \in Tasks : w[u] = "RUNNING" => u = current
    BY <1>1, <1>5 DEF IInv, OneRunning
  <2> HIDE DEF w
  <2> QED
    BY <2>1, <2>2, <2>3, <2>4
<1> HIDE DEF w
<1>7. /\ current' \in Tasks
      /\ state' \in [Tasks -> SlotState]
      /\ OneRunning'
      /\ \A u \in Tasks : \A s \in Fixed : state'[u] = s <=> w[u] = s
      /\ state'[Idle] \in Awake
  BY <1>1, <1>6, DispatchStep
<1>8. \A u \in Tasks :
        /\ state'[u] = "FREE" <=> state[u] = "FREE"
        /\ state'[u] = "WAITING" <=> state[u] = "WAITING" /\ u \notin WaitersFor(t)
        /\ state'[u] = "DIED" => state[u] = "DIED" \/ u = t
        /\ pc'[u] = IF u = t THEN "exited" ELSE pc[u]
        /\ ppid'[u] = IF u \in Slots /\ state[u] # "FREE" /\ ppid[u] = t
                      THEN ppid[t] ELSE ppid[u]
  <2>1. \A u \in Tasks :
          /\ w[u] = "FREE" <=> state[u] = "FREE"
          /\ w[u] = "WAITING" <=> state[u] = "WAITING" /\ u \notin WaitersFor(t)
          /\ w[u] = "DIED" => state[u] = "DIED" \/ u = t
    BY <1>1, <1>3, <1>4, <1>5
  <2>2. \A u \in Tasks : pc'[u] = IF u = t THEN "exited" ELSE pc[u]
    BY <1>1 DEF IInv, TypeOK
  <2>3. \A u \in Tasks : ppid'[u] = IF u \in Slots /\ state[u] # "FREE" /\ ppid[u] = t
                                    THEN ppid[t] ELSE ppid[u]
    BY <1>1 DEF Reparented
  <2> QED
    BY <1>7, <2>1, <2>2, <2>3 DEF Fixed
<1>9. /\ ppid[t] \in Tasks /\ state[t] # "FREE"
      /\ ~torn => ppid[t] # t
  BY <1>1, ParentIsOther DEF IInv, TypeOK
<1>10. TypeOK'
  <2>1. ppid' \in [Tasks -> Tasks]
    BY <1>1, <1>9 DEF Reparented, IInv, TypeOK
  <2> QED
    BY <2>1, <1>1, <1>7 DEF IInv, TypeOK
<1>11. Roots'
  BY <1>7, <1>8, DispatcherAssumption, ProcessAssumption DEF IInv, Roots, Slots
<1>12. Places'
  BY <1>1, <1>8 DEF IInv, Places
<1>13. Descends'
  <2> SUFFICES ASSUME ~torn
               PROVE  \E depth \in [Tasks -> Nat] :
                        \A c \in Tasks \ {Idle} : state'[c] # "FREE" => depth[ppid'[c]] < depth[c]
    BY <1>1 DEF Descends
  <2>1. PICK depth \in [Tasks -> Nat] :
          \A c \in Tasks \ {Idle} : state[c] # "FREE" => depth[ppid[c]] < depth[c]
    BY DEF IInv, Descends
  <2>2. ASSUME NEW c \in Tasks \ {Idle}, state'[c] # "FREE"
        PROVE  depth[ppid'[c]] < depth[c]
    <3>1. state[c] # "FREE" /\ depth[ppid[c]] < depth[c]
      BY <2>1, <2>2, <1>8
    <3>2. depth[ppid[t]] < depth[t]
      BY <2>1, <1>9
    <3>3. /\ depth[ppid[c]] \in Nat /\ depth[c] \in Nat
          /\ depth[ppid[t]] \in Nat /\ depth[t] \in Nat
      BY DEF IInv, TypeOK
    <3>4. ppid'[c] = ppid[c] \/ (ppid[c] = t /\ ppid'[c] = ppid[t])
      BY <1>8
    <3> QED
      BY <3>1, <3>2, <3>3, <3>4
  <2> QED
    BY <2>1, <2>2
<1>14. NoMissedExit'
  <2> SUFFICES ASSUME NEW p \in Tasks, state'[p] = "WAITING",
                      NEW c \in Slots, state'[c] = "DIED", ppid'[c] = p,
                      waitpid[p] \in {Any, c}, pc'[c] = "exited"
               PROVE  FALSE
    BY <1>1 DEF NoMissedExit, Dead, Children
  <2>1. c \in Tasks /\ state[p] = "WAITING" /\ p \notin WaitersFor(t) /\ state[c] # "FREE"
    BY <1>8 DEF Slots
  <2>2. CASE ppid[c] = t
    <3>1. p = ppid[t] /\ waitpid[p] # Any
      BY <2>1, <2>2, <1>8 DEF WaitersFor
    <3>2. PICK d \in Slots : ppid[d] = p /\ waitpid[p] \in {Any, d}
      BY <2>1 DEF IInv, WaitHasChild
    <3>3. d = c
      BY <3>1, <3>2
    <3>4. p = t
      BY <3>1, <3>2, <3>3, <2>2
    <3> QED
      BY <3>4, <2>1, <1>1
  <2>3. CASE ppid[c] # t
    <3>1. ppid[c] = p
      BY <2>1, <2>3, <1>8
    <3>2. c # t
      BY <3>1, <2>1 DEF WaitersFor
    <3>3. state[c] = "DIED" /\ pc[c] = "exited"
      BY <3>2, <2>1, <1>8
    <3> QED
      BY <2>1, <3>1, <3>3 DEF IInv, NoMissedExit, Dead, Children
  <2> QED
    BY <2>2, <2>3
<1>15. WaitHasChild'
  <2> SUFFICES ASSUME NEW p \in Tasks, state'[p] = "WAITING"
               PROVE  \E c \in Slots : /\ state'[c] # "FREE" /\ ppid'[c] = p
                                       /\ waitpid[p] \in {Any, c}
    BY <1>1 DEF WaitHasChild
  <2>1. state[p] = "WAITING" /\ p # t
    BY <1>1, <1>8
  <2>2. PICK c \in Slots : state[c] # "FREE" /\ ppid[c] = p /\ waitpid[p] \in {Any, c}
    BY <2>1 DEF IInv, WaitHasChild
  <2>3. c \in Tasks /\ ppid'[c] = p /\ state'[c] # "FREE"
    BY <2>1, <2>2, <1>8 DEF Slots
  <2> QED
    BY <2>2, <2>3
<1>16. NoOrphans'
  <2> SUFFICES ASSUME ~torn, NEW c \in Tasks, state'[c] # "FREE"
               PROVE  /\ state'[ppid'[c]] # "FREE"
                      /\ c # Idle => pc'[ppid'[c]] # "exited"
    BY <1>1 DEF NoOrphans
  <2>1. state[c] # "FREE" /\ ppid[c] \in Tasks
    BY <1>8 DEF IInv, TypeOK
  <2>2. state[ppid[c]] # "FREE" /\ (c # Idle => pc[ppid[c]] # "exited")
    BY <2>1 DEF IInv, NoOrphans
  <2>3. CASE ppid[c] = t
    <3>1. c \in Slots
      BY <2>3, DispatcherAssumption DEF Slots, IInv, Roots
    <3>2. ppid'[c] = ppid[t]
      BY <3>1, <2>1, <2>3, <1>8
    <3>3. state[ppid[t]] # "FREE" /\ pc[ppid[t]] # "exited"
      BY <1>9 DEF IInv, NoOrphans
    <3> QED
      BY <3>2, <3>3, <1>8, <1>9
  <2>4. CASE ppid[c] # t
    BY <2>1, <2>2, <2>4, <1>8
  <2> QED
    BY <2>3, <2>4
<1> QED
  BY <1>7, <1>10, <1>11, <1>12, <1>13, <1>14, <1>15, <1>16 DEF IInv

-----------------------------------------------------------------------------
\* IInv is inductive: one step for each action of Next.
LEMMA NextKeepsIInv == IInv /\ [Next]_vars => IInv'
<1> SUFFICES ASSUME IInv, [Next]_vars PROVE IInv'
  OBVIOUS
<1>1. ASSUME NEW t \in Tasks \ {Idle}, NEW pid \in Slots \cup {Any}, WaitPid(t, pid)
      PROVE  IInv'
  BY <1>1, SearchKeeps DEF WaitPid, Slots
<1>2. ASSUME NEW t \in Tasks \ {Idle}, WaitResume(t)
      PROVE  IInv'
  <2>1. waitpid[t] \in Tasks \cup {Any}
    BY DEF IInv, TypeOK
  <2> QED
    BY <1>2, <2>1, SearchKeeps DEF WaitResume
<1>3. ASSUME NEW t \in Tasks \ {Idle}, Exit(t)
      PROVE  IInv'
  BY <1>3, FinishExitKeeps, LeaveExitKeeps DEF Exit, WaitForDisk, YieldDrive
<1>4. ASSUME NEW t \in Tasks \ {Idle}, ExitResume(t)
      PROVE  IInv'
  <2>1. t # InitTask
    BY <1>4 DEF ExitResume, IInv, Roots
  <2> QED
    BY <1>4, <2>1, FinishExitKeeps, LeaveExitKeeps DEF ExitResume, WaitForDisk, YieldDrive
<1>5. CASE UNCHANGED vars
  BY <1>5 DEF vars, IInv, TypeOK, OneRunning, Roots, Places, Descends,
              NoMissedExit, Dead, Children, WaitHasChild, NoOrphans
<1> QED
  BY <1>1, <1>2, <1>3, <1>4, <1>5, ForkKeeps, DiskDoneKeeps, TimerPreemptsKeeps DEF Next

\* The inductive invariant of the process table.
THEOREM ProcessInvariant == Spec => []IInv
<1> QED
  BY InitIInv, NextKeepsIInv, PTL DEF Spec

\* task_waitpid: no task waits for a child that is already dead, for every
\* number of tasks and every order of exits, adoptions and waits.
THEOREM ProcessNoMissedExit == Spec => []NoMissedExit
<1>1. IInv => NoMissedExit
  BY DEF IInv
<1> QED
  BY <1>1, ProcessInvariant, PTL

\* task_waitpid: a task that waits has a child that it waits for.
THEOREM ProcessWaitHasChild == Spec => []WaitHasChild
<1>1. IInv => WaitHasChild
  BY DEF IInv
<1> QED
  BY <1>1, ProcessInvariant, PTL

\* task_exit: the ppid of every task names a slot in use, and never the slot
\* of a task that has finished task_exit.
THEOREM ProcessNoOrphans == Spec => []NoOrphans
<1>1. IInv => NoOrphans
  BY DEF IInv
<1> QED
  BY <1>1, ProcessInvariant, PTL

-----------------------------------------------------------------------------
(* The buffer cache and the arena.                                         *)

CONSTANTS
    Users, Blocks, None, Data, Blank, NBuffers, MaxHeld,
    Sizes, PageRoom, LastPage, MaxPages

VARIABLES
    buffer_count, block, count, dirty, valid, data, lock, free_list, wait_list,
    disk, cur, want, held, halted,
    used, desc

B == INSTANCE BufferCache WITH Tasks <- Users

A == INSTANCE Arena

\* A module that is instanced has an operator of its own for the size of a set,
\* with the definition of the one the theorems are about.
LEMMA SizesAgree ==
    /\ \A S : B!Cardinality(S) = Cardinality(S)
    /\ \A S : B!IsFiniteSet(S) <=> IsFiniteSet(S)
BY DEF B!Cardinality, Cardinality, B!IsFiniteSet, IsFiniteSet

Once(list) == \A i, j \in 1 .. Len(list) : list[i] = list[j] => i = j

Has(list, b) == \E i \in 1 .. Len(list) : list[i] = b

-----------------------------------------------------------------------------
(* Sequences.                                                              *)

LEMMA RemoveAtElements ==
    ASSUME NEW S, NEW s \in Seq(S), NEW i \in 1 .. Len(s)
    PROVE  /\ B!RemoveAt(s, i) \in Seq(S)
           /\ Len(B!RemoveAt(s, i)) = Len(s) - 1
           /\ \A j \in 1 .. Len(s) - 1 :
                B!RemoveAt(s, i)[j] = IF j < i THEN s[j] ELSE s[j + 1]
<1> DEFINE before == SubSeq(s, 1, i - 1)
           after == SubSeq(s, i + 1, Len(s))
<1>1. /\ Len(s) \in Nat /\ i \in Int /\ 1 <= i /\ i <= Len(s)
      /\ \A j \in 1 .. Len(s) : s[j] \in S
  BY LenProperties, ElementOfSeq
<1>2. /\ before \in Seq(S) /\ Len(before) = i - 1
      /\ \A j \in 1 .. i - 1 : before[j] = s[j]
  BY <1>1, SubSeqProperties
<1>3. /\ after \in Seq(S) /\ Len(after) = Len(s) - i
      /\ \A j \in 1 .. Len(s) - i : after[j] = s[i + j]
  BY <1>1, SubSeqProperties
<1> HIDE DEF before, after
<1>4. /\ before \o after \in Seq(S)
      /\ Len(before \o after) = Len(before) + Len(after)
      /\ \A j \in 1 .. Len(before) + Len(after) :
            (before \o after)[j] = IF j <= Len(before) THEN before[j] ELSE after[j - Len(before)]
  BY <1>2, <1>3, ConcatProperties
<1>5. Len(before) + Len(after) = Len(s) - 1
  BY <1>1, <1>2, <1>3
<1>6. ASSUME NEW j \in 1 .. Len(s) - 1
      PROVE  (before \o after)[j] = IF j < i THEN s[j] ELSE s[j + 1]
  <2>1. CASE j < i
    BY <1>1, <1>2, <1>4, <1>5, <2>1
  <2>2. CASE ~ (j < i)
    <3>1. /\ j - (i - 1) \in 1 .. Len(s) - i
          /\ (before \o after)[j] = after[j - (i - 1)]
          /\ i + (j - (i - 1)) = j + 1
      BY <1>1, <1>2, <1>4, <1>5, <2>2
    <3> QED
      BY <1>3, <2>2, <3>1
  <2> QED
    BY <2>1, <2>2
<1> QED
  BY <1>4, <1>5, <1>6 DEF B!RemoveAt, before, after

\* list_remove keeps the rest of a list.
LEMMA WithoutElements ==
    ASSUME NEW S, NEW list \in Seq(S), Once(list), NEW b
    PROVE  /\ B!Without(list, b) \in Seq(S)
           /\ Once(B!Without(list, b))
           /\ \A c : Has(B!Without(list, b), c) <=> Has(list, c) /\ c # b
           /\ list = << >> => B!Without(list, b) = << >>
<1>1. Len(list) \in Nat /\ DOMAIN list = 1 .. Len(list)
  BY LenProperties
<1>2. CASE ~ Has(list, b)
  BY <1>1, <1>2 DEF Has, B!Without, Once
<1>3. CASE Has(list, b)
  <2> DEFINE i == CHOOSE k \in DOMAIN list : list[k] = b
             rest == B!RemoveAt(list, i)
  <2>1. i \in 1 .. Len(list) /\ list[i] = b
    BY <1>1, <1>3 DEF Has
  <2>2. B!Without(list, b) = rest
    BY <1>1, <1>3 DEF Has, B!Without
  <2> HIDE DEF i
  <2>3. /\ rest \in Seq(S)
        /\ Len(rest) = Len(list) - 1
        /\ \A j \in 1 .. Len(list) - 1 :
              rest[j] = IF j < i THEN list[j] ELSE list[j + 1]
    BY <2>1, RemoveAtElements
  <2> HIDE DEF rest
  <2>4. ASSUME NEW j \in 1 .. Len(rest)
        PROVE  \E k \in 1 .. Len(list) : k # i /\ rest[j] = list[k] /\ k = (IF j < i THEN j ELSE j + 1)
    BY <1>1, <2>1, <2>3
  <2>5. Once(rest)
    <3> SUFFICES ASSUME NEW j \in 1 .. Len(rest), NEW k \in 1 .. Len(rest), rest[j] = rest[k]
                 PROVE  j = k
      BY DEF Once
    <3>1. PICK m \in 1 .. Len(list) : rest[j] = list[m] /\ m = (IF j < i THEN j ELSE j + 1)
      BY <2>4
    <3>2. PICK n \in 1 .. Len(list) : rest[k] = list[n] /\ n = (IF k < i THEN k ELSE k + 1)
      BY <2>4
    <3>3. m = n
      BY <3>1, <3>2 DEF Once
    <3> QED
      BY <1>1, <2>1, <2>3, <3>1, <3>2, <3>3
  <2>6. ASSUME NEW c, Has(rest, c)
        PROVE  Has(list, c) /\ c # b
    BY <2>1, <2>4, <2>6 DEF Has, Once
  <2>7. ASSUME NEW c, Has(list, c), c # b
        PROVE  Has(rest, c)
    <3>1. PICK k \in 1 .. Len(list) : list[k] = c
      BY <2>7 DEF Has
    <3>2. k # i
      BY <2>1, <2>7, <3>1
    <3>3. CASE k < i
      BY <1>1, <2>1, <2>3, <3>1, <3>3 DEF Has
    <3>4. CASE k > i
      <4>1. k - 1 \in 1 .. Len(rest) /\ rest[k - 1] = c
        BY <1>1, <2>1, <2>3, <3>1, <3>4
      <4> QED
        BY <4>1 DEF Has
    <3> QED
      BY <1>1, <2>1, <3>2, <3>3, <3>4
  <2>8. list # << >>
    BY <2>1
  <2> QED
    BY <2>2, <2>3, <2>5, <2>6, <2>7, <2>8
<1> QED
  BY <1>2, <1>3

LEMMA PushElements ==
    ASSUME NEW S, NEW list \in Seq(S), Once(list), NEW b \in S, ~ Has(list, b)
    PROVE  /\ <<b>> \o list \in Seq(S)
           /\ Once(<<b>> \o list)
           /\ \A c : Has(<<b>> \o list, c) <=> Has(list, c) \/ c = b
<1> DEFINE more == <<b>> \o list
<1>1. Len(list) \in Nat /\ <<b>> \in Seq(S) /\ Len(<<b>>) = 1 /\ <<b>>[1] = b
  BY LenProperties
<1>2. /\ more \in Seq(S) /\ Len(more) = Len(list) + 1
      /\ \A j \in 1 .. Len(list) + 1 : more[j] = IF j <= 1 THEN <<b>>[j] ELSE list[j - 1]
  BY <1>1, ConcatProperties
<1>3. more[1] = b /\ \A j \in 1 .. Len(list) : more[j + 1] = list[j]
  BY <1>1, <1>2
<1> HIDE DEF more
<1>4. Once(more)
  <2> SUFFICES ASSUME NEW j \in 1 .. Len(more), NEW k \in 1 .. Len(more), more[j] = more[k]
               PROVE  j = k
    BY DEF Once
  <2>1. \A m \in 2 .. Len(more) : m - 1 \in 1 .. Len(list) /\ more[m] = list[m - 1]
    BY <1>1, <1>2
  <2>2. CASE j = 1 /\ k # 1
    <3>1. k - 1 \in 1 .. Len(list) /\ more[k] = list[k - 1]
      BY <1>1, <1>2, <2>1, <2>2
    <3> QED
      BY <1>3, <2>2, <3>1 DEF Has
  <2>3. CASE k = 1 /\ j # 1
    <3>1. j - 1 \in 1 .. Len(list) /\ more[j] = list[j - 1]
      BY <1>1, <1>2, <2>1, <2>3
    <3> QED
      BY <1>3, <2>3, <3>1 DEF Has
  <2>4. CASE k # 1 /\ j # 1
    <3>1. j \in 2 .. Len(more) /\ k \in 2 .. Len(more)
      BY <1>1, <1>2, <2>4
    <3>2. list[j - 1] = list[k - 1] /\ j - 1 \in 1 .. Len(list) /\ k - 1 \in 1 .. Len(list)
      BY <2>1, <3>1
    <3>3. j - 1 = k - 1
      BY <3>2 DEF Once
    <3> QED
      BY <3>1, <3>3
  <2> QED
    BY <2>2, <2>3, <2>4
<1>5. ASSUME NEW c
      PROVE  Has(more, c) <=> Has(list, c) \/ c = b
  <2>1. \A m \in 2 .. Len(more) : m - 1 \in 1 .. Len(list) /\ more[m] = list[m - 1]
    BY <1>1, <1>2
  <2>2. \A m \in 1 .. Len(list) : m + 1 \in 1 .. Len(more) /\ more[m + 1] = list[m]
    BY <1>1, <1>2, <1>3
  <2>3. 1 \in 1 .. Len(more)
    BY <1>1, <1>2
  <2>4. \A m \in 1 .. Len(more) : m = 1 \/ m \in 2 .. Len(more)
    BY <1>1, <1>2
  <2>5. ASSUME Has(more, c)
        PROVE  Has(list, c) \/ c = b
    <3>1. PICK m \in 1 .. Len(more) : more[m] = c
      BY <2>5 DEF Has
    <3> QED
      BY <1>3, <2>1, <2>4, <3>1 DEF Has
  <2>6. ASSUME Has(list, c) \/ c = b
        PROVE  Has(more, c)
    <3>1. ASSUME NEW m \in 1 .. Len(list), list[m] = c
          PROVE  Has(more, c)
      BY <2>2, <3>1 DEF Has
    <3>2. Has(more, b)
      BY <1>3, <2>3 DEF Has
    <3> QED
      BY <2>6, <3>1, <3>2 DEF Has
  <2> QED
    BY <2>5, <2>6
<1> QED
  BY <1>2, <1>4, <1>5 DEF more

LEMMA FrontIsPrefix ==
    ASSUME NEW S, NEW list \in Seq(S), list # << >>
    PROVE  /\ Len(list) \in Nat /\ Len(list) > 0
           /\ B!Front(list) \in Seq(S) /\ Len(B!Front(list)) = Len(list) - 1
           /\ \A j \in 1 .. Len(list) - 1 : B!Front(list)[j] = list[j]
<1>1. Len(list) \in Nat /\ Len(list) > 0
  BY LenProperties, EmptySeq
<1>2. /\ B!Front(list) \in Seq(S) /\ Len(B!Front(list)) = Len(list) - 1
      /\ \A j \in 1 .. Len(list) - 1 : B!Front(list)[j] = list[j]
  <2>1. \A j \in 1 .. Len(list) - 1 : list[j] \in S
    BY <1>1, ElementOfSeq
  <2>2. 1 \in Int /\ Len(list) - 1 \in Int
    BY <1>1
  <2> DEFINE f == SubSeq(list, 1, Len(list) - 1)
  <2>3. /\ f \in Seq(S)
        /\ Len(f) = IF 1 <= Len(list) - 1 THEN Len(list) - 1 - 1 + 1 ELSE 0
        /\ \A j \in 1 .. Len(list) - 1 - 1 + 1 : f[j] = list[1 + j - 1]
    BY <2>1, <2>2, SubSeqProperties
  <2> HIDE DEF f
  <2>4. /\ f \in Seq(S) /\ Len(f) = Len(list) - 1
        /\ \A j \in 1 .. Len(list) - 1 : f[j] = list[j]
    <3>1. Len(f) = Len(list) - 1
      <4>1. Len(f) = IF 1 <= Len(list) - 1 THEN Len(list) - 1 - 1 + 1 ELSE 0
        BY <2>3
      <4>2. CASE 1 <= Len(list) - 1
        BY <1>1, <4>1, <4>2
      <4>3. CASE ~ (1 <= Len(list) - 1)
        <5>1. \A n \in Nat : n > 0 /\ ~ (1 <= n - 1) => 0 = n - 1
          OBVIOUS
        <5> QED
          BY <1>1, <4>1, <4>3, <5>1
      <4> QED
        BY <4>2, <4>3
    <3>2. ASSUME NEW j \in 1 .. Len(list) - 1
          PROVE  f[j] = list[j]
      <4>1. j \in 1 .. Len(list) - 1 - 1 + 1 /\ 1 + j - 1 = j
        BY <1>1
      <4>2. f[j] = list[1 + j - 1]
        BY <2>3, <4>1
      <4> QED
        BY <4>1, <4>2
    <3> QED
      BY <2>3, <3>1, <3>2
  <2> QED
    BY <2>4 DEF B!Front, f
<1> QED
  BY <1>1, <1>2

LEMMA FrontElements ==
    ASSUME NEW S, NEW list \in Seq(S), Once(list), list # << >>
    PROVE  /\ B!Front(list) \in Seq(S)
           /\ Once(B!Front(list))
           /\ \A c : Has(B!Front(list), c) <=> Has(list, c) /\ c # B!Last(list)
           /\ Has(list, B!Last(list))
<1>1. Len(list) \in Nat /\ Len(list) > 0
  BY FrontIsPrefix
<1>2. /\ B!Front(list) \in Seq(S) /\ Len(B!Front(list)) = Len(list) - 1
      /\ \A j \in 1 .. Len(list) - 1 : B!Front(list)[j] = list[j]
  BY FrontIsPrefix
<1>3. B!Last(list) = list[Len(list)]
  BY DEF B!Last
<1> QED
  BY <1>1, <1>2, <1>3 DEF Once, Has

-----------------------------------------------------------------------------
(* References.                                                             *)

LEMMA ReferencesFinite ==
    ASSUME B!BufferAssumption, NEW b
    PROVE  IsFiniteSet(B!References(b)) /\ IsFiniteSet(B!References(b))'
<1>1. IsFiniteSet(0 .. MaxHeld)
  BY FS_Interval DEF B!BufferAssumption
<1>2. IsFiniteSet(Users \X (0 .. MaxHeld))
  BY <1>1, FS_Product, SizesAgree DEF B!BufferAssumption
<1>3. B!References(b) \subseteq Users \X (0 .. MaxHeld)
  BY DEF B!References
<1>4. B!References(b)' \subseteq Users \X (0 .. MaxHeld)
  BY DEF B!References
<1> QED
  BY <1>2, <1>3, <1>4, FS_Subset

\* A reference is a reason why the count is not 0.
LEMMA ReferredIsCounted ==
    ASSUME B!BufferAssumption, B!CountIsReferences, NEW b \in B!Buffers,
           NEW t \in Users, NEW i \in 0 .. MaxHeld, B!Refers(t, i, b)
    PROVE  count[b] \in Nat /\ count[b] > 0
<1>1. <<t, i>> \in B!References(b)
  BY DEF B!References
<1>2. Cardinality(B!References(b)) \in Nat /\ Cardinality(B!References(b)) # 0
  BY <1>1, ReferencesFinite, FS_CardinalityType, FS_EmptySet
<1> QED
  BY <1>2, SizesAgree DEF B!CountIsReferences

LEMMA ReferencesStay ==
    ASSUME NEW b,
           \A u \in Users : \A j \in 0 .. MaxHeld : B!Refers(u, j, b)' <=> B!Refers(u, j, b)
    PROVE  B!References(b)' = B!References(b)
BY DEF B!References

LEMMA ReferencesGrow ==
    ASSUME B!BufferAssumption, NEW b, NEW t \in Users, NEW i \in 0 .. MaxHeld,
           ~ B!Refers(t, i, b),
           \A u \in Users : \A j \in 0 .. MaxHeld :
              B!Refers(u, j, b)' <=> B!Refers(u, j, b) \/ (u = t /\ j = i)
    PROVE  Cardinality(B!References(b)') = Cardinality(B!References(b)) + 1
<1>1. <<t, i>> \notin B!References(b)
  BY DEF B!References
<1>2. B!References(b)' = B!References(b) \cup {<<t, i>>}
  <2>1. ASSUME NEW r \in B!References(b)'
        PROVE  r \in B!References(b) \cup {<<t, i>>}
    BY DEF B!References
  <2>2. ASSUME NEW r \in B!References(b) \cup {<<t, i>>}
        PROVE  r \in B!References(b)'
    BY DEF B!References
  <2> QED
    BY <2>1, <2>2
<1> QED
  BY <1>1, <1>2, ReferencesFinite, FS_AddElement

LEMMA ReferencesShrink ==
    ASSUME B!BufferAssumption, NEW b, NEW t \in Users, NEW i \in 0 .. MaxHeld,
           B!Refers(t, i, b),
           \A u \in Users : \A j \in 0 .. MaxHeld :
              B!Refers(u, j, b)' <=> B!Refers(u, j, b) /\ ~ (u = t /\ j = i)
    PROVE  Cardinality(B!References(b)') = Cardinality(B!References(b)) - 1
<1>1. <<t, i>> \in B!References(b)
  BY DEF B!References
<1>2. B!References(b)' = B!References(b) \ {<<t, i>>}
  <2>1. ASSUME NEW r \in B!References(b)'
        PROVE  r \in B!References(b) \ {<<t, i>>}
    BY DEF B!References
  <2>2. ASSUME NEW r \in B!References(b) \ {<<t, i>>}
        PROVE  r \in B!References(b)'
    BY DEF B!References
  <2> QED
    BY <2>1, <2>2
<1> QED
  BY <1>1, <1>2, ReferencesFinite, FS_RemoveElement

\* The i-th reference of task t to buffer b becomes the k-th.
Moves(t, i, k, b) ==
    /\ i # k /\ B!Refers(t, i, b) /\ ~ B!Refers(t, k, b)
    /\ \A u \in Users : \A j \in 0 .. MaxHeld :
        B!Refers(u, j, b)' <=> (B!Refers(u, j, b) /\ ~ (u = t /\ j = i)) \/ (u = t /\ j = k)

LEMMA ReferenceMoves ==
    ASSUME B!BufferAssumption, NEW b, NEW t \in Users,
           NEW i \in 0 .. MaxHeld, NEW k \in 0 .. MaxHeld, Moves(t, i, k, b)
    PROVE  Cardinality(B!References(b)') = Cardinality(B!References(b))
<1> DEFINE Rest == B!References(b) \ {<<t, i>>}
<1>1. <<t, i>> \in B!References(b) /\ <<t, k>> \notin Rest
  BY DEF B!References, Moves
<1>2. B!References(b)' = Rest \cup {<<t, k>>}
  <2>1. ASSUME NEW r \in B!References(b)'
        PROVE  r \in Rest \cup {<<t, k>>}
    BY DEF B!References, Moves
  <2>2. ASSUME NEW r \in Rest \cup {<<t, k>>}
        PROVE  r \in B!References(b)'
    BY DEF B!References, Moves
  <2> QED
    BY <2>1, <2>2
<1>3. IsFiniteSet(Rest) /\ Cardinality(Rest) = Cardinality(B!References(b)) - 1
  BY <1>1, ReferencesFinite, FS_RemoveElement
<1>4. Cardinality(B!References(b)') = Cardinality(Rest) + 1
  BY <1>1, <1>2, <1>3, FS_AddElement
<1>5. Cardinality(B!References(b)) \in Nat
  BY ReferencesFinite, FS_CardinalityType
<1> QED
  BY <1>3, <1>4, <1>5

\* A task that gives up the i-th buffer it holds counts the later ones anew.
LEMMA ReferencesShift ==
    ASSUME B!BufferAssumption, NEW b, NEW t \in Users, NEW i \in 1 .. MaxHeld,
           ~ B!Refers(t, 0, b),
           \A u \in Users : \A j \in 0 .. MaxHeld : ~ (u = t /\ j = 0) =>
              (B!Refers(u, j, b)' <=>
                IF u = t /\ j >= i THEN j + 1 \in 0 .. MaxHeld /\ B!Refers(t, j + 1, b)
                                  ELSE B!Refers(u, j, b))
    PROVE  Cardinality(B!References(b)' \ {<<t, 0>>}) = Cardinality(B!References(b) \ {<<t, i>>})
<1> DEFINE Now == B!References(b)' \ {<<t, 0>>}
           Rest == B!References(b) \ {<<t, i>>}
           Renamed(r) == IF r[1] = t /\ r[2] > i THEN <<t, r[2] - 1>> ELSE r
           f == [r \in Rest |-> Renamed(r)]
<1>1. MaxHeld \in Nat
  BY DEF B!BufferAssumption
<1>2. \A r \in Rest : /\ r = <<r[1], r[2]>> /\ r[1] \in Users /\ r[2] \in 0 .. MaxHeld
                       /\ B!Refers(r[1], r[2], b) /\ ~ (r[1] = t /\ r[2] = i)
                       /\ ~ (r[1] = t /\ r[2] = 0)
  BY DEF B!References
<1>3. ASSUME NEW r \in Rest
      PROVE  Renamed(r) \in Now
  <2>1. CASE r[1] = t /\ r[2] > i
    <3>1. /\ r[2] - 1 \in 0 .. MaxHeld /\ r[2] - 1 >= i /\ r[2] - 1 + 1 = r[2]
      BY <1>1, <1>2, <2>1
    <3>2. B!Refers(t, r[2] - 1, b)'
      BY <1>2, <2>1, <3>1
    <3> QED
      BY <2>1, <3>1, <3>2 DEF B!References
  <2>2. CASE ~ (r[1] = t /\ r[2] > i)
    <3>1. ~ (r[1] = t /\ r[2] >= i)
      BY <1>1, <1>2, <2>2
    <3>2. B!Refers(r[1], r[2], b)'
      BY <1>2, <3>1
    <3> QED
      BY <1>2, <2>2, <3>2 DEF B!References
  <2> QED
    BY <2>1, <2>2
<1>4. ASSUME NEW q \in Now
      PROVE  \E r \in Rest : Renamed(r) = q
  <2>1. /\ q = <<q[1], q[2]>> /\ q[1] \in Users /\ q[2] \in 0 .. MaxHeld
        /\ B!Refers(q[1], q[2], b)' /\ ~ (q[1] = t /\ q[2] = 0)
    BY DEF B!References
  <2>2. CASE q[1] = t /\ q[2] >= i
    <3>1. q[2] + 1 \in 0 .. MaxHeld /\ B!Refers(t, q[2] + 1, b)
      BY <2>1, <2>2
    <3>2. <<t, q[2] + 1>> \in Rest
      BY <2>1, <2>2, <3>1 DEF B!References
    <3>3. Renamed(<<t, q[2] + 1>>) = q
      BY <1>1, <2>1, <2>2
    <3> QED
      BY <3>2, <3>3
  <2>3. CASE ~ (q[1] = t /\ q[2] >= i)
    <3>1. B!Refers(q[1], q[2], b)
      BY <2>1, <2>3
    <3>2. q \in Rest
      BY <1>1, <2>1, <2>3, <3>1 DEF B!References
    <3>3. Renamed(q) = q
      BY <1>1, <2>1, <2>3
    <3> QED
      BY <3>2, <3>3
  <2> QED
    BY <2>2, <2>3
<1>5. ASSUME NEW r \in Rest, NEW q \in Rest, Renamed(r) = Renamed(q)
      PROVE  r = q
  <2>1. Renamed(r)[1] = r[1] /\ Renamed(q)[1] = q[1]
    BY <1>2
  <2>2. CASE r[1] # t
    BY <1>2, <1>5, <2>1, <2>2
  <2>3. CASE r[1] = t
    <3>1. Renamed(r)[2] = (IF r[2] > i THEN r[2] - 1 ELSE r[2])
      BY <1>2, <2>3
    <3>2. q[1] = t
      BY <1>5, <2>1, <2>3
    <3>3. Renamed(q)[2] = (IF q[2] > i THEN q[2] - 1 ELSE q[2])
      BY <1>2, <3>2
    <3>4. r[2] \in Nat /\ q[2] \in Nat /\ i \in Nat /\ r[2] # i /\ q[2] # i
      BY <1>1, <1>2, <2>3, <3>2
    <3>5. r[2] = q[2]
      BY <1>5, <3>1, <3>3, <3>4
    <3> QED
      BY <1>2, <2>3, <3>2, <3>5
  <2> QED
    BY <2>2, <2>3
<1> HIDE DEF Rest, Renamed, Now
<1>6. f \in Bijection(Rest, Now)
  BY <1>3, <1>4, <1>5 DEF Bijection, Injection, Surjection, IsInjective
<1>7. ExistsBijection(Rest, Now)
  BY <1>6 DEF ExistsBijection
<1>8. IsFiniteSet(Rest)
  BY ReferencesFinite, FS_RemoveElement DEF Rest
<1> QED
  BY <1>7, <1>8, FS_Bijection DEF Rest, Now

-----------------------------------------------------------------------------
(* The invariant.                                                          *)

Waiting == {"lock", "reading", "flushing", "flushed"}

BufferType ==
    /\ buffer_count \in 0 .. NBuffers
    /\ block \in [B!Buffers -> Blocks \cup {None}]
    /\ count \in [B!Buffers -> Nat]
    /\ dirty \in [B!Buffers -> BOOLEAN] /\ valid \in [B!Buffers -> BOOLEAN]
    /\ data \in [B!Buffers -> Data \cup {None}]
    /\ lock \in [B!Buffers -> Users \cup {None}]
    /\ free_list \in Seq(B!Buffers) /\ wait_list \in Seq(Users)
    /\ disk \in [Blocks -> Data]
    /\ pc \in [Users -> {"run", "wait", "writing", "written"} \cup Waiting]
    /\ cur \in [Users -> B!Buffers \cup {None}]
    /\ want \in [Users -> Blocks \cup {None}]
    /\ held \in [Users -> Seq(Blocks \X B!Buffers)]
    /\ halted \in BOOLEAN

Unmade == \A b \in B!Buffers : b > buffer_count => count[b] = 0

ValidHasData == \A b \in B!Buffers : valid[b] => data[b] \in Data

\* A bread that is blocked keeps the buffer of its block, and one that reads
\* has the lock of a buffer whose data nobody can have used yet.
Reads ==
    \A t \in Users :
        /\ pc[t] \in {"lock", "reading"} =>
            /\ cur[t] \in B!Buffers /\ want[t] \in Blocks
            /\ block[cur[t]] = want[t] /\ Len(held[t]) < MaxHeld
        /\ pc[t] = "reading" => lock[cur[t]] = t /\ ~ valid[cur[t]]

\* What is written is valid, and bwrite writes what its caller holds.
Writes ==
    \A t \in Users :
        /\ pc[t] \in {"writing", "written", "flushing", "flushed"} =>
            cur[t] \in B!Buffers /\ valid[cur[t]]
        /\ pc[t] \in {"writing", "written"} =>
            \E i \in 1 .. Len(held[t]) : held[t][i][2] = cur[t]

Holds ==
    \A t \in Users :
        /\ Len(held[t]) <= MaxHeld
        /\ \A i \in 1 .. Len(held[t]) :
            block[held[t][i][2]] = held[t][i][1] /\ valid[held[t][i][2]]

BufferInv ==
    /\ BufferType /\ Unmade /\ ValidHasData /\ Reads /\ Writes /\ Holds
    /\ B!CountIsReferences /\ B!FreeIsUnused /\ B!OneBufferPerBlock

LEMMA BuffersStart ==
    ASSUME B!BufferAssumption, B!Init
    PROVE  BufferInv
<1>1. NBuffers \in Nat /\ Blank \in Data
  BY DEF B!BufferAssumption
<1>2. BufferType
  <2>1. << >> \in Seq(B!Buffers) /\ << >> \in Seq(Users) /\ << >> \in Seq(Blocks \X B!Buffers)
    BY EmptySeq
  <2>2. held \in [Users -> Seq(Blocks \X B!Buffers)]
    BY <2>1 DEF B!Init
  <2>3. block \in [B!Buffers -> Blocks \cup {None}] /\ count \in [B!Buffers -> Nat]
    BY DEF B!Init
  <2>4. disk \in [Blocks -> Data]
    BY <1>1 DEF B!Init
  <2>5. pc \in [Users -> {"run", "wait", "writing", "written"} \cup Waiting]
    BY DEF B!Init
  <2>6. buffer_count \in 0 .. NBuffers
    BY <1>1 DEF B!Init
  <2> QED
    BY <2>1, <2>2, <2>3, <2>4, <2>5, <2>6 DEF B!Init, BufferType
<1>3. Unmade /\ ValidHasData /\ Reads /\ Writes
  BY DEF B!Init, Unmade, ValidHasData, Reads, Writes
<1>4. Holds
  BY DEF B!Init, Holds, B!BufferAssumption
<1>5. B!CountIsReferences
  <2> SUFFICES ASSUME NEW b \in B!Buffers
               PROVE  count[b] = Cardinality(B!References(b))
    BY SizesAgree DEF B!CountIsReferences
  <2>1. B!References(b) = {}
    BY DEF B!Init, B!References, B!Refers
  <2> QED
    BY <2>1, FS_EmptySet DEF B!Init
<1>6. B!FreeIsUnused /\ B!OneBufferPerBlock
  BY DEF B!Init, B!FreeIsUnused, B!OneBufferPerBlock, B!Made
<1> QED
  BY <1>2, <1>3, <1>4, <1>5, <1>6 DEF BufferInv

\* What a task holds or waits for is counted, so it is in the cache.
LEMMA InUse ==
    ASSUME B!BufferAssumption, BufferInv, NEW t \in Users
    PROVE  /\ \A i \in 1 .. Len(held[t]) :
                /\ i \in 0 .. MaxHeld /\ i # 0
                /\ held[t][i][1] \in Blocks /\ held[t][i][2] \in B!Buffers
                /\ B!Refers(t, i, held[t][i][2])
                /\ count[held[t][i][2]] > 0 /\ held[t][i][2] <= buffer_count
           /\ pc[t] \in Waiting \cup {"writing", "written"} =>
                cur[t] \in B!Buffers /\ count[cur[t]] > 0 /\ cur[t] <= buffer_count
           /\ pc[t] \in Waiting => B!Refers(t, 0, cur[t])
           /\ pc[t] \notin Waiting => \A b : ~ B!Refers(t, 0, b)
           /\ Len(held[t]) \in Nat /\ DOMAIN held[t] = 1 .. Len(held[t])
<1>1. /\ MaxHeld \in Nat /\ buffer_count \in Nat /\ B!Buffers \subseteq Nat
      /\ held[t] \in Seq(Blocks \X B!Buffers) /\ Len(held[t]) <= MaxHeld
  BY DEF B!BufferAssumption, BufferInv, BufferType, B!Buffers, Holds
<1>2. Len(held[t]) \in Nat /\ DOMAIN held[t] = 1 .. Len(held[t])
  BY <1>1, LenProperties
<1>3. \A b \in B!Buffers : count[b] > 0 => b <= buffer_count
  BY <1>1 DEF BufferInv, Unmade
<1>4. ASSUME NEW i \in 1 .. Len(held[t])
      PROVE  /\ i \in 0 .. MaxHeld /\ i # 0
             /\ held[t][i][1] \in Blocks /\ held[t][i][2] \in B!Buffers
             /\ B!Refers(t, i, held[t][i][2])
             /\ count[held[t][i][2]] > 0 /\ held[t][i][2] <= buffer_count
  <2>1. i \in 0 .. MaxHeld /\ i # 0
    BY <1>1, <1>2
  <2>2. held[t][i] \in Blocks \X B!Buffers
    BY <1>1, ElementOfSeq
  <2>3. held[t][i][1] \in Blocks /\ held[t][i][2] \in B!Buffers
    BY <2>2
  <2>4. B!Refers(t, i, held[t][i][2])
    BY <1>2, <2>1 DEF B!Refers
  <2>5. count[held[t][i][2]] > 0
    BY <2>1, <2>3, <2>4, ReferredIsCounted DEF BufferInv
  <2> QED
    BY <1>3, <2>1, <2>3, <2>4, <2>5
<1>5. pc[t] \in Waiting => B!Refers(t, 0, cur[t])
  BY DEF B!Refers, Waiting
<1>6. pc[t] \notin Waiting => \A b : ~ B!Refers(t, 0, b)
  BY DEF B!Refers, Waiting
<1>7. ASSUME pc[t] \in Waiting \cup {"writing", "written"}
      PROVE  cur[t] \in B!Buffers /\ count[cur[t]] > 0
  <2>1. cur[t] \in B!Buffers
    BY <1>7 DEF Waiting, BufferInv, Reads, Writes
  <2>2. CASE pc[t] \in Waiting
    <3>1. 0 \in 0 .. MaxHeld
      BY <1>1
    <3> QED
      BY <1>5, <2>1, <2>2, <3>1, ReferredIsCounted DEF BufferInv
  <2>3. CASE pc[t] \in {"writing", "written"}
    <3>1. \E i \in 1 .. Len(held[t]) : held[t][i][2] = cur[t]
      BY <2>3 DEF BufferInv, Writes
    <3> QED
      BY <1>4, <2>1, <3>1
  <2> QED
    BY <1>7, <2>2, <2>3
<1> QED
  BY <1>2, <1>3, <1>4, <1>5, <1>6, <1>7

-----------------------------------------------------------------------------
(* What a step of a task does to its references.                           *)

\* A step that changes the place and the buffer of the call in progress.
LEMMA PlaceChanges ==
    ASSUME BufferType, NEW t \in Users, NEW p, NEW x,
           pc' = [pc EXCEPT ![t] = p], cur' = [cur EXCEPT ![t] = x], held' = held,
           NEW u \in Users, NEW j \in 0 .. MaxHeld, NEW c
    PROVE  B!Refers(u, j, c)' <=> IF u = t /\ j = 0 THEN x = c /\ p \in Waiting ELSE B!Refers(u, j, c)
BY DEF BufferType, B!Refers, Waiting

\* What a task has after bread has returned b to it.
Returned(t, k, b) ==
    /\ Len(held[t]) \in Nat
    /\ held' \in [Users -> Seq(Blocks \X B!Buffers)]
    /\ Len(held'[t]) = Len(held[t]) + 1
    /\ \A i \in 1 .. Len(held[t]) : held'[t][i] = held[t][i]
    /\ held'[t][Len(held[t]) + 1] = <<k, b>>
    /\ \A u \in Users \ {t} : held'[u] = held[u] /\ pc'[u] = pc[u] /\ cur'[u] = cur[u] /\ want'[u] = want[u]
    /\ pc'[t] = "run"
    /\ \A u \in Users : \A j \in 0 .. MaxHeld : \A c :
         B!Refers(u, j, c)' <=>
             IF u = t /\ j = 0 THEN FALSE
             ELSE IF u = t /\ j = Len(held[t]) + 1 THEN c = b
             ELSE B!Refers(u, j, c)

LEMMA BreadReturns ==
    ASSUME BufferType, NEW t \in Users, NEW k \in Blocks, NEW b \in B!Buffers,
           B!Returns(t, k, b)
    PROVE  Returned(t, k, b)
<1> DEFINE n == Len(held[t])
           more == Append(held[t], <<k, b>>)
<1>1. held[t] \in Seq(Blocks \X B!Buffers) /\ <<k, b>> \in Blocks \X B!Buffers
  BY DEF BufferType
<1>2. n \in Nat /\ DOMAIN held[t] = 1 .. n
  BY <1>1, LenProperties
<1>3. /\ more \in Seq(Blocks \X B!Buffers) /\ Len(more) = n + 1
      /\ \A i \in 1 .. n : more[i] = held[t][i]
      /\ more[n + 1] = <<k, b>>
  BY <1>1, AppendProperties
<1>4. DOMAIN more = 1 .. n + 1
  BY <1>3, LenProperties
<1> HIDE DEF more
<1>5. /\ held' = [held EXCEPT ![t] = more]
      /\ pc' = [pc EXCEPT ![t] = "run"] /\ cur' = [cur EXCEPT ![t] = None]
      /\ want' = [want EXCEPT ![t] = None]
  BY DEF B!Returns, more
<1>6. held'[t] = more /\ pc'[t] = "run" /\ held' \in [Users -> Seq(Blocks \X B!Buffers)]
  BY <1>3, <1>5 DEF BufferType
<1>7. \A u \in Users \ {t} : held'[u] = held[u] /\ pc'[u] = pc[u] /\ cur'[u] = cur[u] /\ want'[u] = want[u]
  BY <1>5 DEF BufferType
<1>8. ASSUME NEW u \in Users, NEW j \in 0 .. MaxHeld, NEW c
      PROVE  B!Refers(u, j, c)' <=>
                IF u = t /\ j = 0 THEN FALSE
                ELSE IF u = t /\ j = n + 1 THEN c = b
                ELSE B!Refers(u, j, c)
  <2>1. CASE u # t
    BY <1>7, <2>1 DEF B!Refers
  <2>2. CASE u = t /\ j = 0
    BY <1>6, <2>2 DEF B!Refers
  <2>3. CASE u = t /\ j # 0 /\ j = n + 1
    <3>1. j \in DOMAIN more /\ more[j][2] = b
      BY <1>2, <1>3, <1>4, <2>3
    <3> QED
      BY <1>6, <2>3, <3>1 DEF B!Refers
  <2>4. CASE u = t /\ j # 0 /\ j # n + 1
    <3>1. j \in DOMAIN more <=> j \in DOMAIN held[t]
      BY <1>2, <1>4, <2>4
    <3>2. j \in DOMAIN held[t] => more[j] = held[t][j]
      BY <1>2, <1>3
    <3> QED
      BY <1>6, <2>4, <3>1, <3>2 DEF B!Refers
  <2> QED
    BY <2>1, <2>2, <2>3, <2>4
<1> QED
  BY <1>2, <1>3, <1>6, <1>7, <1>8 DEF Returned

\* Task t takes buffer b as its i-th reference.
Takes(t, i, b) ==
    /\ \A c : ~ B!Refers(t, i, c)
    /\ \A u \in Users : \A j \in 0 .. MaxHeld : \A c :
        B!Refers(u, j, c)' <=> IF u = t /\ j = i THEN c = b ELSE B!Refers(u, j, c)

LEMMA CountTaken ==
    ASSUME B!BufferAssumption, BufferInv, NEW t \in Users, NEW i \in 0 .. MaxHeld, NEW b \in B!Buffers,
           Takes(t, i, b), count' = [count EXCEPT ![b] = @ + 1]
    PROVE  B!CountIsReferences'
<1> SUFFICES ASSUME NEW c \in B!Buffers
             PROVE  count'[c] = Cardinality(B!References(c)')
  BY SizesAgree DEF B!CountIsReferences
<1>1. count[c] = Cardinality(B!References(c)) /\ count \in [B!Buffers -> Nat]
  BY SizesAgree DEF BufferInv, B!CountIsReferences, BufferType
<1>2. CASE c = b
  <2>1. Cardinality(B!References(c)') = Cardinality(B!References(c)) + 1
    BY <1>2, ReferencesGrow DEF Takes
  <2> QED
    BY <1>1, <1>2, <2>1
<1>3. CASE c # b
  <2>1. B!References(c)' = B!References(c)
    BY <1>3, ReferencesStay DEF Takes
  <2> QED
    BY <1>1, <1>3, <2>1
<1> QED
  BY <1>2, <1>3

\* What StartRead leaves: a bread that is blocked at a buffer of its block.
LEMMA ReadStarts ==
    ASSUME B!BufferAssumption, BufferType, Reads, NEW t \in Users, NEW k \in Blocks, NEW b \in B!Buffers,
           B!StartRead(t, k, b), Len(held[t]) < MaxHeld,
           block'[b] = k, ~ valid'[b],
           \A u \in Users \ {t} : pc[u] \in {"lock", "reading"} =>
              block'[cur[u]] = block[cur[u]] /\ valid'[cur[u]] = valid[cur[u]]
    PROVE  /\ Reads'
           /\ \A u \in Users : \A j \in 0 .. MaxHeld : \A c :
                B!Refers(u, j, c)' <=> IF u = t /\ j = 0 THEN c = b ELSE B!Refers(u, j, c)
           /\ pc' \in [Users -> {"run", "wait", "writing", "written"} \cup Waiting]
           /\ pc'[t] \in {"lock", "reading"}
           /\ cur' \in [Users -> B!Buffers \cup {None}]
           /\ want' \in [Users -> Blocks \cup {None}]
           /\ lock' \in [B!Buffers -> Users \cup {None}]
           /\ held' = held
           /\ \A u \in Users \ {t} : pc'[u] = pc[u] /\ cur'[u] = cur[u]
<1>1. PICK p \in {"lock", "reading"} :
        /\ pc' = [pc EXCEPT ![t] = p]
        /\ cur' = [cur EXCEPT ![t] = b] /\ want' = [want EXCEPT ![t] = k] /\ held' = held
        /\ p = "reading" => lock[b] = None /\ lock' = [lock EXCEPT ![b] = t]
        /\ p = "lock" => lock' = lock
  BY DEF B!StartRead
<1>2. /\ pc' \in [Users -> {"run", "wait", "writing", "written"} \cup Waiting]
      /\ pc'[t] = p /\ cur'[t] = b /\ want'[t] = k
      /\ cur' \in [Users -> B!Buffers \cup {None}]
      /\ want' \in [Users -> Blocks \cup {None}]
      /\ lock' \in [B!Buffers -> Users \cup {None}]
      /\ \A u \in Users \ {t} : pc'[u] = pc[u] /\ cur'[u] = cur[u] /\ want'[u] = want[u]
  <2>1. /\ pc' \in [Users -> {"run", "wait", "writing", "written"} \cup Waiting]
        /\ pc'[t] = p /\ \A u \in Users \ {t} : pc'[u] = pc[u]
    BY <1>1 DEF BufferType, Waiting
  <2>2. /\ cur' \in [Users -> B!Buffers \cup {None}] /\ want' \in [Users -> Blocks \cup {None}]
        /\ cur'[t] = b /\ want'[t] = k
        /\ \A u \in Users \ {t} : cur'[u] = cur[u] /\ want'[u] = want[u]
    BY <1>1 DEF BufferType
  <2>3. lock' \in [B!Buffers -> Users \cup {None}]
    BY <1>1 DEF BufferType
  <2> QED
    BY <2>1, <2>2, <2>3
<1>3. \A u \in Users : \A j \in 0 .. MaxHeld : \A c :
        B!Refers(u, j, c)' <=> IF u = t /\ j = 0 THEN c = b ELSE B!Refers(u, j, c)
  <2>1. p \in Waiting
    BY DEF Waiting
  <2>2. ASSUME NEW u \in Users, NEW j \in 0 .. MaxHeld, NEW c
        PROVE  B!Refers(u, j, c)' <=> IF u = t /\ j = 0 THEN b = c /\ p \in Waiting ELSE B!Refers(u, j, c)
    BY <1>1, PlaceChanges
  <2> QED
    BY <2>1, <2>2
<1>4. ASSUME NEW u \in Users
      PROVE  /\ pc'[u] \in {"lock", "reading"} =>
                /\ cur'[u] \in B!Buffers /\ want'[u] \in Blocks
                /\ block'[cur'[u]] = want'[u] /\ Len(held'[u]) < MaxHeld
             /\ pc'[u] = "reading" => lock'[cur'[u]] = u /\ ~ valid'[cur'[u]]
  <2>1. CASE u = t
    BY <1>1, <1>2, <2>1 DEF BufferType
  <2>2. CASE u # t
    <3>1. None \notin Users
      BY DEF B!BufferAssumption
    <3>2. pc[u] = "reading" => lock'[cur[u]] = lock[cur[u]]
      BY <1>1, <3>1 DEF BufferType, Reads
    <3> QED
      BY <1>1, <1>2, <2>2, <3>2 DEF Reads
  <2> QED
    BY <2>1, <2>2
<1> QED
  BY <1>1, <1>2, <1>3, <1>4 DEF Reads

\* The list after list_remove and one more reference.
LEMMA TakenLeavesList ==
    ASSUME B!BufferAssumption, BufferInv, NEW b \in B!Buffers, b <= buffer_count,
           count' = [count EXCEPT ![b] = @ + 1], free_list' = B!Without(free_list, b),
           UNCHANGED <<buffer_count, dirty>>
    PROVE  /\ B!FreeIsUnused' /\ free_list' \in Seq(B!Buffers) /\ count' \in [B!Buffers -> Nat]
           /\ free_list = << >> => free_list' = << >>
<1>1. /\ free_list \in Seq(B!Buffers) /\ Once(free_list) /\ count \in [B!Buffers -> Nat]
      /\ \A c \in B!Buffers : Has(free_list, c) <=> c \in B!Made /\ count[c] = 0
      /\ \A c \in B!Buffers : count[c] = 0 => ~ dirty[c]
  BY DEF BufferInv, BufferType, B!FreeIsUnused, Once, Has
<1>2. /\ free_list' \in Seq(B!Buffers) /\ Once(free_list')
      /\ \A c : Has(free_list', c) <=> Has(free_list, c) /\ c # b
      /\ free_list = << >> => free_list' = << >>
  BY <1>1, WithoutElements
<1>3. /\ count' \in [B!Buffers -> Nat] /\ count'[b] > 0
      /\ \A c \in B!Buffers \ {b} : count'[c] = count[c]
  BY <1>1
<1>4. \A c \in B!Buffers : Has(free_list', c) <=> c \in B!Made /\ count'[c] = 0
  BY <1>1, <1>2, <1>3
<1>5. \A c \in B!Buffers : count'[c] = 0 => ~ dirty[c]
  BY <1>1, <1>3
<1>6. B!Made' = B!Made
  BY DEF B!Made
<1> QED
  BY <1>2, <1>3, <1>4, <1>5, <1>6 DEF B!FreeIsUnused, Once, Has

-----------------------------------------------------------------------------
(* The operations.                                                         *)

LEMMA BreadHitKeeps ==
    ASSUME B!BufferAssumption, BufferInv, NEW t \in Users, NEW k \in Blocks, B!BreadHit(t, k)
    PROVE  BufferInv'
<1>1. PICK b \in B!Cached(k) :
        /\ count' = [count EXCEPT ![b] = @ + 1]
        /\ free_list' = B!Without(free_list, b)
        /\ IF valid[b] THEN B!Returns(t, k, b) /\ UNCHANGED lock ELSE B!StartRead(t, k, b)
  BY DEF B!BreadHit
<1>2. /\ UNCHANGED <<buffer_count, block, dirty, valid, data, wait_list, disk, halted>>
      /\ pc[t] = "run" /\ Len(held[t]) < MaxHeld
  BY DEF B!BreadHit, B!MayRead
<1>3. BufferType /\ MaxHeld \in Nat
  BY DEF BufferInv, B!BufferAssumption
<1>4. b \in B!Buffers /\ b <= buffer_count /\ block[b] = k
  BY <1>3 DEF B!Cached, B!Made, BufferType, B!Buffers, B!BufferAssumption
<1>5. Unmade'
  <2>1. buffer_count \in Nat /\ B!Buffers \subseteq Nat
    BY <1>3 DEF BufferType, B!Buffers
  <2> QED
    BY <1>1, <1>2, <1>3, <1>4, <2>1 DEF BufferInv, Unmade, BufferType
<1>6. ValidHasData'
  BY <1>2 DEF BufferInv, ValidHasData
<1>7. B!FreeIsUnused' /\ free_list' \in Seq(B!Buffers) /\ count' \in [B!Buffers -> Nat]
      /\ (free_list = << >> => free_list' = << >>)
  BY <1>1, <1>2, <1>4, TakenLeavesList
<1>8. B!OneBufferPerBlock'
  BY <1>2 DEF BufferInv, B!OneBufferPerBlock, B!Made
<1>10. /\ \A c : ~ B!Refers(t, 0, c)
       /\ Len(held[t]) \in Nat /\ DOMAIN held[t] = 1 .. Len(held[t])
  BY <1>2, InUse DEF Waiting
<1>11. CASE valid[b]
  <2>1. B!Returns(t, k, b) /\ lock' = lock
    BY <1>1, <1>11
  <2> DEFINE n == Len(held[t]) + 1
  <2>2. /\ held' \in [Users -> Seq(Blocks \X B!Buffers)]
        /\ Len(held'[t]) = n
        /\ \A i \in 1 .. Len(held[t]) : held'[t][i] = held[t][i]
        /\ held'[t][n] = <<k, b>>
        /\ \A u \in Users \ {t} : held'[u] = held[u] /\ pc'[u] = pc[u] /\ cur'[u] = cur[u] /\ want'[u] = want[u]
        /\ pc'[t] = "run"
        /\ \A u \in Users : \A j \in 0 .. MaxHeld : \A c :
             B!Refers(u, j, c)' <=>
                 IF u = t /\ j = 0 THEN FALSE
                 ELSE IF u = t /\ j = n THEN c = b
                 ELSE B!Refers(u, j, c)
    <3>1. BufferType /\ b \in B!Buffers
      BY <1>3, <1>4
    <3>2. Returned(t, k, b)
      BY <2>1, <3>1, BreadReturns
    <3> QED
      BY <3>2 DEF Returned
  <2>3. n \in 1 .. MaxHeld /\ \A c : ~ B!Refers(t, n, c)
    BY <1>2, <1>3, <1>10 DEF B!Refers
  <2>4. BufferType'
    BY <1>2, <1>3, <1>7, <2>1, <2>2 DEF BufferType, B!Returns
  <2>5. Reads'
    BY <1>2, <2>1, <2>2 DEF BufferInv, Reads
  <2>6. Writes'
    BY <1>2, <2>2 DEF BufferInv, Writes
  <2>7. Holds'
    <3>1. ASSUME NEW u \in Users
          PROVE  /\ Len(held'[u]) <= MaxHeld
                 /\ \A i \in 1 .. Len(held'[u]) :
                      block'[held'[u][i][2]] = held'[u][i][1] /\ valid'[held'[u][i][2]]
      <4>1. CASE u # t
        BY <1>2, <2>2, <4>1 DEF BufferInv, Holds
      <4>2. CASE u = t
        <5>1. ASSUME NEW i \in 1 .. n
              PROVE  block[held'[t][i][2]] = held'[t][i][1] /\ valid[held'[t][i][2]]
          <6>1. CASE i = n
            BY <1>4, <1>11, <2>2, <6>1
          <6>2. CASE i # n
            <7>1. i \in 1 .. Len(held[t])
              BY <1>10, <6>2
            <7>2. block[held[t][i][2]] = held[t][i][1] /\ valid[held[t][i][2]]
              BY <7>1 DEF BufferInv, Holds
            <7>3. held'[t][i] = held[t][i]
              BY <2>2, <7>1
            <7> QED
              BY <7>2, <7>3
          <6> QED
            BY <6>1, <6>2
        <5> QED
          BY <1>2, <2>2, <2>3, <4>2, <5>1
      <4> QED
        BY <4>1, <4>2
    <3> QED
      BY <3>1 DEF Holds
  <2>8. B!CountIsReferences'
    <3>1. ASSUME NEW u \in Users, NEW j \in 0 .. MaxHeld, NEW c
          PROVE  B!Refers(u, j, c)' <=> IF u = t /\ j = n THEN c = b ELSE B!Refers(u, j, c)
      BY <1>10, <2>2, <2>3
    <3>2. n \in 0 .. MaxHeld /\ \A c : ~ B!Refers(t, n, c)
      BY <1>3, <2>3
    <3>3. b \in B!Buffers /\ count' = [count EXCEPT ![b] = @ + 1]
      BY <1>1, <1>4
    <3> HIDE DEF n
    <3>4. Takes(t, n, b)
      BY <3>1, <3>2 DEF Takes
    <3> QED
      BY <3>2, <3>3, <3>4, CountTaken
  <2> QED
    BY <1>5, <1>6, <1>7, <1>8, <2>4, <2>5, <2>6, <2>7, <2>8 DEF BufferInv
<1>12. CASE ~ valid[b]
  <2>1. B!StartRead(t, k, b)
    BY <1>1, <1>12
  <2>2. /\ Reads'
        /\ \A u \in Users : \A j \in 0 .. MaxHeld : \A c :
             B!Refers(u, j, c)' <=> IF u = t /\ j = 0 THEN c = b ELSE B!Refers(u, j, c)
        /\ pc' \in [Users -> {"run", "wait", "writing", "written"} \cup Waiting]
        /\ pc'[t] \in {"lock", "reading"}
        /\ cur' \in [Users -> B!Buffers \cup {None}]
        /\ want' \in [Users -> Blocks \cup {None}]
        /\ lock' \in [B!Buffers -> Users \cup {None}]
        /\ held' = held
        /\ \A u \in Users \ {t} : pc'[u] = pc[u] /\ cur'[u] = cur[u]
    BY <1>2, <1>3, <1>4, <1>12, <2>1, ReadStarts DEF BufferInv
  <2>3. BufferType'
    BY <1>2, <1>3, <1>7, <2>2 DEF BufferType
  <2>4. Writes' /\ Holds'
    BY <1>2, <2>2 DEF BufferInv, Writes, Holds
  <2>5. B!CountIsReferences'
    <3>1. \A u \in Users : \A j \in 0 .. MaxHeld : \A c :
            B!Refers(u, j, c)' <=> IF u = t /\ j = 0 THEN c = b ELSE B!Refers(u, j, c)
      BY <2>2
    <3>2. 0 \in 0 .. MaxHeld /\ \A c : ~ B!Refers(t, 0, c)
      BY <1>3, <1>10
    <3>3. b \in B!Buffers /\ count' = [count EXCEPT ![b] = @ + 1]
      BY <1>1, <1>4
    <3>4. Takes(t, 0, b)
      BY <3>1, <3>2 DEF Takes
    <3> QED
      BY <3>2, <3>3, <3>4, CountTaken
  <2> QED
    BY <1>5, <1>6, <1>7, <1>8, <2>2, <2>3, <2>4, <2>5 DEF BufferInv
<1> QED
  BY <1>11, <1>12

\* What get_free_buffer gives has no reference.
LEMMA FreeBufferIsUnused ==
    ASSUME B!BufferAssumption, BufferInv, NEW b \in B!FreeBuffer
    PROVE  b \in B!Buffers /\ count[b] = 0
<1>1. NBuffers \in Nat /\ BufferType
  BY DEF BufferInv, B!BufferAssumption
<1>2. CASE buffer_count < NBuffers
  <2>1. b = buffer_count + 1 /\ b \in B!Buffers /\ b > buffer_count
    BY <1>1, <1>2 DEF B!FreeBuffer, B!Buffers, BufferType
  <2> QED
    BY <2>1 DEF BufferInv, Unmade
<1>3. CASE ~ (buffer_count < NBuffers)
  <2>1. free_list # << >> /\ b = B!Last(free_list)
    BY <1>3 DEF B!FreeBuffer
  <2>2. free_list \in Seq(B!Buffers) /\ Once(free_list)
    BY <1>1 DEF BufferInv, BufferType, B!FreeIsUnused, Once
  <2>3. Has(free_list, b)
    BY <2>1, <2>2, FrontElements
  <2>4. b \in B!Buffers
    BY <2>2, <2>3, ElementOfSeq DEF Has
  <2> QED
    BY <2>3, <2>4 DEF BufferInv, B!FreeIsUnused, Has
<1> QED
  BY <1>2, <1>3

LEMMA BreadMissKeeps ==
    ASSUME B!BufferAssumption, BufferInv, NEW t \in Users, NEW k \in Blocks, B!BreadMiss(t, k)
    PROVE  BufferInv'
<1>1. PICK b \in B!FreeBuffer :
        /\ buffer_count' = IF b > buffer_count THEN b ELSE buffer_count
        /\ free_list' = IF b > buffer_count THEN free_list ELSE B!Front(free_list)
        /\ block' = [block EXCEPT ![b] = k]
        /\ count' = [count EXCEPT ![b] = 1]
        /\ valid' = [valid EXCEPT ![b] = FALSE]
        /\ B!StartRead(t, k, b)
  BY DEF B!BreadMiss
<1>2. /\ UNCHANGED <<dirty, data, wait_list, disk, halted>>
      /\ pc[t] = "run" /\ Len(held[t]) < MaxHeld /\ ~ halted /\ B!Cached(k) = {}
  BY DEF B!BreadMiss, B!MayRead
<1>3. /\ BufferType /\ MaxHeld \in Nat /\ NBuffers \in Nat /\ None \notin Blocks
      /\ buffer_count \in Nat /\ B!Buffers \subseteq Nat
  BY DEF BufferInv, B!BufferAssumption, BufferType, B!Buffers
<1>4. /\ free_list \in Seq(B!Buffers) /\ Once(free_list)
      /\ \A c \in B!Buffers : Has(free_list, c) <=> c \in B!Made /\ count[c] = 0
      /\ \A c \in B!Buffers : count[c] = 0 => ~ dirty[c]
  BY DEF BufferInv, BufferType, B!FreeIsUnused, Once, Has
<1>5. /\ b \in B!Buffers /\ count[b] = 0
      /\ buffer_count' \in 0 .. NBuffers /\ buffer_count <= buffer_count' /\ b <= buffer_count'
      /\ \A c \in B!Buffers : c <= buffer_count' <=> c <= buffer_count \/ c = b
      /\ free_list' \in Seq(B!Buffers) /\ Once(free_list')
      /\ \A c \in B!Buffers : Has(free_list', c) <=> Has(free_list, c) /\ c # b
  <2>1. CASE buffer_count < NBuffers
    <3>1. b = buffer_count + 1 /\ b \in B!Buffers /\ b > buffer_count
      BY <1>3, <2>1 DEF B!FreeBuffer, B!Buffers
    <3>2. count[b] = 0 /\ ~ Has(free_list, b)
      BY <1>3, <1>4, <3>1 DEF BufferInv, Unmade, B!Made
    <3>3. buffer_count' = b /\ free_list' = free_list
      BY <1>1, <3>1
    <3>4. buffer_count' \in 0 .. NBuffers /\ buffer_count <= buffer_count' /\ b <= buffer_count'
      BY <1>3, <2>1, <3>1, <3>3
    <3>5. \A c \in B!Buffers : c <= buffer_count' <=> c <= buffer_count \/ c = b
      BY <1>3, <3>1, <3>3
    <3> QED
      BY <1>4, <3>1, <3>2, <3>3, <3>4, <3>5
  <2>2. CASE ~ (buffer_count < NBuffers)
    <3>1. free_list # << >> /\ b = B!Last(free_list)
      BY <2>2 DEF B!FreeBuffer
    <3>2. /\ B!Front(free_list) \in Seq(B!Buffers) /\ Once(B!Front(free_list))
          /\ \A c : Has(B!Front(free_list), c) <=> Has(free_list, c) /\ c # b
          /\ Has(free_list, b)
      BY <1>4, <3>1, FrontElements
    <3>3. b \in B!Buffers
      BY <1>4, <3>2, ElementOfSeq DEF Has
    <3>4. count[b] = 0 /\ b <= buffer_count
      BY <1>3, <1>4, <3>2, <3>3 DEF B!Made
    <3>5. buffer_count' = buffer_count /\ free_list' = B!Front(free_list)
      BY <1>1, <1>3, <3>3, <3>4
    <3> QED
      BY <1>3, <3>2, <3>3, <3>4, <3>5 DEF BufferType
  <2> QED
    BY <2>1, <2>2
<1>6. /\ block'[b] = k /\ count'[b] = 1 /\ ~ valid'[b]
      /\ \A c \in B!Buffers \ {b} : block'[c] = block[c] /\ count'[c] = count[c] /\ valid'[c] = valid[c]
      /\ block' \in [B!Buffers -> Blocks \cup {None}] /\ count' \in [B!Buffers -> Nat] /\ valid' \in [B!Buffers -> BOOLEAN]
  BY <1>1, <1>3, <1>5 DEF BufferType
<1>7. ASSUME NEW u \in Users
      PROVE  /\ pc[u] \in Waiting \cup {"writing", "written"} => cur[u] \in B!Buffers \ {b}
             /\ \A i \in 1 .. Len(held[u]) : held[u][i][2] \in B!Buffers \ {b}
  BY <1>5, InUse
<1>8. /\ Reads'
      /\ \A u \in Users : \A j \in 0 .. MaxHeld : \A c :
           B!Refers(u, j, c)' <=> IF u = t /\ j = 0 THEN c = b ELSE B!Refers(u, j, c)
      /\ pc' \in [Users -> {"run", "wait", "writing", "written"} \cup Waiting]
      /\ pc'[t] \in {"lock", "reading"}
      /\ cur' \in [Users -> B!Buffers \cup {None}]
      /\ want' \in [Users -> Blocks \cup {None}]
      /\ lock' \in [B!Buffers -> Users \cup {None}]
      /\ held' = held
      /\ \A u \in Users \ {t} : pc'[u] = pc[u] /\ cur'[u] = cur[u]
  <2>1. \A u \in Users \ {t} : pc[u] \in {"lock", "reading"} =>
          block'[cur[u]] = block[cur[u]] /\ valid'[cur[u]] = valid[cur[u]]
    BY <1>6, <1>7 DEF Waiting
  <2> QED
    BY <1>1, <1>2, <1>3, <1>5, <1>6, <2>1, ReadStarts DEF BufferInv
<1>9. BufferType'
  BY <1>2, <1>3, <1>5, <1>6, <1>8 DEF BufferType
<1>10. Unmade'
  BY <1>3, <1>5, <1>6, <1>9 DEF BufferInv, Unmade, BufferType
<1>11. ValidHasData'
  BY <1>2, <1>6 DEF BufferInv, ValidHasData
<1>12. Writes'
  <2> SUFFICES ASSUME NEW u \in Users
               PROVE  /\ pc'[u] \in {"writing", "written", "flushing", "flushed"} =>
                            cur'[u] \in B!Buffers /\ valid'[cur'[u]]
                      /\ pc'[u] \in {"writing", "written"} =>
                            \E i \in 1 .. Len(held'[u]) : held'[u][i][2] = cur'[u]
    BY DEF Writes
  <2>1. CASE u = t
    BY <1>8, <2>1
  <2>2. CASE u # t
    <3>1. /\ pc'[u] = pc[u] /\ cur'[u] = cur[u] /\ held'[u] = held[u]
      BY <1>8, <2>2
    <3>2. pc[u] \in {"writing", "written", "flushing", "flushed"} =>
            cur[u] \in B!Buffers /\ valid[cur[u]] /\ cur[u] # b
      BY <1>7 DEF BufferInv, Writes, Waiting
    <3>3. pc[u] \in {"writing", "written"} => \E i \in 1 .. Len(held[u]) : held[u][i][2] = cur[u]
      BY DEF BufferInv, Writes
    <3> QED
      BY <1>6, <3>1, <3>2, <3>3
  <2> QED
    BY <2>1, <2>2
<1>13. Holds'
  <2>1. ASSUME NEW u \in Users, NEW i \in 1 .. Len(held[u])
        PROVE  block'[held[u][i][2]] = held[u][i][1] /\ valid'[held[u][i][2]]
    <3>1. block[held[u][i][2]] = held[u][i][1] /\ valid[held[u][i][2]]
      BY DEF BufferInv, Holds
    <3> QED
      BY <1>6, <1>7, <3>1
  <2> QED
    BY <1>8, <2>1 DEF BufferInv, Holds
<1>14. B!FreeIsUnused'
  <2>1. \A c \in B!Buffers : Has(free_list', c) <=> c \in B!Made' /\ count'[c] = 0
    <3> SUFFICES ASSUME NEW c \in B!Buffers
                 PROVE  Has(free_list', c) <=> c \in B!Made' /\ count'[c] = 0
      OBVIOUS
    <3>1. (c \in B!Made <=> c <= buffer_count) /\ (c \in B!Made' <=> c <= buffer_count')
      BY <1>3, <1>9 DEF B!Made, B!Buffers, BufferType
    <3>2. CASE c = b
      BY <1>5, <1>6, <3>2
    <3>3. CASE c # b
      BY <1>4, <1>5, <1>6, <3>1, <3>3
    <3> QED
      BY <3>2, <3>3
  <2>2. \A c \in B!Buffers : count'[c] = 0 => ~ dirty'[c]
    BY <1>2, <1>4, <1>6
  <2> QED
    BY <1>5, <2>1, <2>2 DEF B!FreeIsUnused, Once, Has
<1>15. B!OneBufferPerBlock'
  <2>1. \A c \in B!Made : block[c] # k
    BY <1>2 DEF B!Cached
  <2>2. \A c \in B!Made' : c \in B!Buffers /\ (c \in B!Made \/ c = b)
    <3> SUFFICES ASSUME NEW c \in 1 .. buffer_count'
                 PROVE  c \in B!Buffers /\ (c \in 1 .. buffer_count \/ c = b)
      BY DEF B!Made
    <3>1. c \in B!Buffers /\ c <= buffer_count'
      BY <1>3, <1>5 DEF B!Buffers
    <3>2. c <= buffer_count \/ c = b
      BY <1>5, <3>1
    <3> QED
      BY <1>3, <3>1, <3>2 DEF B!Buffers
  <2> QED
    BY <1>6, <2>1, <2>2 DEF BufferInv, B!OneBufferPerBlock
<1>17. B!CountIsReferences'
  <2>1. 0 \in 0 .. MaxHeld /\ \A c : ~ B!Refers(t, 0, c)
    BY <1>2, <1>3, InUse DEF Waiting
  <2>2. Takes(t, 0, b)
    BY <1>8, <2>1 DEF Takes
  <2>3. count' = [count EXCEPT ![b] = @ + 1]
    BY <1>1, <1>3, <1>5 DEF BufferType
  <2> QED
    BY <1>5, <2>1, <2>2, <2>3, CountTaken
<1> QED
  BY <1>8, <1>9, <1>10, <1>11, <1>12, <1>13, <1>14, <1>15, <1>17 DEF BufferInv

LEMMA BreadWaitKeeps ==
    ASSUME B!BufferAssumption, BufferInv, NEW t \in Users, NEW k \in Blocks, B!BreadWait(t, k)
    PROVE  BufferInv'
<1>1. /\ UNCHANGED <<buffer_count, B!fields, lock, free_list, disk, cur, held, halted>>
      /\ wait_list' = <<t>> \o wait_list
      /\ pc' = [pc EXCEPT ![t] = "wait"] /\ want' = [want EXCEPT ![t] = k]
      /\ pc[t] = "run" /\ B!FreeBuffer = {}
  BY DEF B!BreadWait, B!MayRead
<1>2. UNCHANGED <<buffer_count, block, count, dirty, valid, data, lock, free_list, disk, cur, held, halted>>
  BY <1>1 DEF B!fields
<1>3. wait_list' \in Seq(Users)
  BY <1>1, ConcatProperties DEF BufferInv, BufferType
<1>4. BufferType'
  BY <1>1, <1>2, <1>3 DEF BufferInv, BufferType
<1>5. /\ pc'[t] = "wait"
      /\ \A u \in Users \ {t} : pc'[u] = pc[u] /\ want'[u] = want[u]
  BY <1>1 DEF BufferInv, BufferType
<1>6. Unmade' /\ ValidHasData' /\ Holds' /\ B!FreeIsUnused' /\ B!OneBufferPerBlock'
  BY <1>2 DEF BufferInv, Unmade, ValidHasData, Holds, B!FreeIsUnused, B!OneBufferPerBlock, B!Made
<1>7. Reads' /\ Writes'
  BY <1>2, <1>5 DEF BufferInv, Reads, Writes
<1>9. B!CountIsReferences'
  <2>1. \A u \in Users : \A j \in 0 .. MaxHeld : \A c : B!Refers(u, j, c)' <=> B!Refers(u, j, c)
    BY <1>1, <1>2, <1>5 DEF B!Refers
  <2> QED
    BY <1>2, <2>1, ReferencesStay DEF BufferInv, B!CountIsReferences
<1> QED
  BY <1>4, <1>6, <1>7, <1>9 DEF BufferInv

\* A bread that was blocked returns its buffer with valid data.
LEMMA BlockedReadReturns ==
    ASSUME B!BufferAssumption, BufferInv, NEW t \in Users, pc[t] \in {"lock", "reading"},
           B!Returns(t, want[t], cur[t]),
           UNCHANGED <<buffer_count, block, count, B!lists, disk, halted>>,
           valid' = [valid EXCEPT ![cur[t]] = TRUE],
           \A u \in Users \ {t} : pc[u] = "reading" =>
              cur[u] # cur[t] /\ lock'[cur[u]] = lock[cur[u]]
    PROVE  /\ pc' \in [Users -> {"run", "wait", "writing", "written"} \cup Waiting]
           /\ cur' \in [Users -> B!Buffers \cup {None}]
           /\ want' \in [Users -> Blocks \cup {None}]
           /\ held' \in [Users -> Seq(Blocks \X B!Buffers)]
           /\ Reads' /\ Writes' /\ Holds' /\ B!CountIsReferences'
           /\ Unmade' /\ B!OneBufferPerBlock'
<1> DEFINE b == cur[t]
           k == want[t]
           n == Len(held[t]) + 1
<1>1. /\ BufferType /\ MaxHeld \in Nat
      /\ b \in B!Buffers /\ k \in Blocks /\ block[b] = k /\ Len(held[t]) < MaxHeld
  BY DEF BufferInv, B!BufferAssumption, Reads
<1>2. UNCHANGED <<buffer_count, block, count, free_list, wait_list, disk, halted>>
  BY DEF B!lists
<1>3. /\ Len(held[t]) \in Nat
      /\ held' \in [Users -> Seq(Blocks \X B!Buffers)]
      /\ Len(held'[t]) = n
      /\ \A i \in 1 .. Len(held[t]) : held'[t][i] = held[t][i]
      /\ held'[t][n] = <<k, b>>
      /\ \A u \in Users \ {t} : held'[u] = held[u] /\ pc'[u] = pc[u] /\ cur'[u] = cur[u] /\ want'[u] = want[u]
      /\ pc'[t] = "run"
      /\ \A u \in Users : \A j \in 0 .. MaxHeld : \A c :
           B!Refers(u, j, c)' <=>
               IF u = t /\ j = 0 THEN FALSE
               ELSE IF u = t /\ j = n THEN c = b
               ELSE B!Refers(u, j, c)
  <2>1. Returned(t, k, b)
    BY <1>1, BreadReturns
  <2> QED
    BY <2>1 DEF Returned
<1>4. /\ pc' \in [Users -> {"run", "wait", "writing", "written"} \cup Waiting]
      /\ cur' \in [Users -> B!Buffers \cup {None}]
      /\ want' \in [Users -> Blocks \cup {None}]
  BY <1>1 DEF B!Returns, BufferType
<1>5. valid'[b] /\ \A c \in B!Buffers : valid[c] => valid'[c]
  BY <1>1 DEF BufferType
<1>6. Reads'
  <2>1. ASSUME NEW u \in Users \ {t}
        PROVE  /\ pc[u] \in {"lock", "reading"} =>
                    /\ cur[u] \in B!Buffers /\ want[u] \in Blocks
                    /\ block[cur[u]] = want[u] /\ Len(held[u]) < MaxHeld
               /\ pc[u] = "reading" => lock'[cur[u]] = u /\ ~ valid'[cur[u]]
    <3>1. /\ pc[u] \in {"lock", "reading"} =>
               /\ cur[u] \in B!Buffers /\ want[u] \in Blocks
               /\ block[cur[u]] = want[u] /\ Len(held[u]) < MaxHeld
          /\ pc[u] = "reading" => lock[cur[u]] = u /\ ~ valid[cur[u]]
      BY DEF BufferInv, Reads
    <3>2. pc[u] = "reading" => valid'[cur[u]] = valid[cur[u]]
      BY <1>1, <3>1 DEF BufferType
    <3> QED
      BY <3>1, <3>2
  <2>2. ASSUME NEW u \in Users
        PROVE  /\ pc'[u] \in {"lock", "reading"} =>
                    /\ cur'[u] \in B!Buffers /\ want'[u] \in Blocks
                    /\ block'[cur'[u]] = want'[u] /\ Len(held'[u]) < MaxHeld
               /\ pc'[u] = "reading" => lock'[cur'[u]] = u /\ ~ valid'[cur'[u]]
    <3>1. CASE u = t
      BY <1>3, <3>1
    <3>2. CASE u # t
      <4>1. pc'[u] = pc[u] /\ cur'[u] = cur[u] /\ want'[u] = want[u] /\ held'[u] = held[u]
        BY <1>3, <3>2
      <4> QED
        BY <1>2, <2>1, <3>2, <4>1
    <3> QED
      BY <3>1, <3>2
  <2> QED
    BY <2>2 DEF Reads
<1>7. Writes'
  <2>1. \A u \in Users : pc[u] \in {"writing", "written", "flushing", "flushed"} =>
          cur[u] \in B!Buffers /\ valid'[cur[u]]
    BY <1>5 DEF BufferInv, Writes
  <2> QED
    BY <1>3, <2>1 DEF BufferInv, Writes
<1>8. Holds'
  <2>1. ASSUME NEW u \in Users, NEW i \in 1 .. Len(held[u])
        PROVE  block'[held[u][i][2]] = held[u][i][1] /\ valid'[held[u][i][2]]
    BY <1>2, <1>5, InUse DEF BufferInv, Holds
  <2>2. ASSUME NEW u \in Users
        PROVE  /\ Len(held'[u]) <= MaxHeld
               /\ \A i \in 1 .. Len(held'[u]) :
                    block'[held'[u][i][2]] = held'[u][i][1] /\ valid'[held'[u][i][2]]
    <3>1. CASE u # t
      BY <1>3, <2>1, <3>1 DEF BufferInv, Holds
    <3>2. CASE u = t
      <4>1. Len(held'[t]) <= MaxHeld
        BY <1>1, <1>3
      <4>2. ASSUME NEW i \in 1 .. Len(held'[t])
            PROVE  block'[held'[t][i][2]] = held'[t][i][1] /\ valid'[held'[t][i][2]]
        <5>1. CASE i = n
          BY <1>1, <1>2, <1>3, <1>5, <5>1
        <5>2. CASE i # n
          <6>1. i \in 1 .. Len(held[t])
            BY <1>3, <5>2
          <6>2. held'[t][i] = held[t][i]
            BY <1>3, <6>1
          <6>3. block'[held[t][i][2]] = held[t][i][1] /\ valid'[held[t][i][2]]
            BY <2>1, <6>1
          <6> QED
            BY <6>2, <6>3
        <5> QED
          BY <5>1, <5>2
      <4> QED
        BY <3>2, <4>1, <4>2
    <3> QED
      BY <3>1, <3>2
  <2> QED
    BY <2>2 DEF Holds
<1>9. B!CountIsReferences'
  <2>1. 0 \in 0 .. MaxHeld /\ n \in 0 .. MaxHeld /\ n # 0
    BY <1>1, <1>3
  <2>2. B!Refers(t, 0, b) /\ \A c : B!Refers(t, 0, c) => c = b
    BY DEF B!Refers
  <2>3. \A c : ~ B!Refers(t, n, c)
    BY <1>3, <2>1, InUse DEF B!Refers
  <2>4. \A u \in Users : \A j \in 0 .. MaxHeld : \A c :
           B!Refers(u, j, c)' <=>
               IF u = t /\ j = 0 THEN FALSE
               ELSE IF u = t /\ j = n THEN c = b
               ELSE B!Refers(u, j, c)
    BY <1>3
  <2> SUFFICES ASSUME NEW c \in B!Buffers
               PROVE  count'[c] = Cardinality(B!References(c)')
    BY SizesAgree DEF B!CountIsReferences
  <2>5. count'[c] = Cardinality(B!References(c))
    BY <1>2, SizesAgree DEF BufferInv, B!CountIsReferences
  <2>6. PICK m \in 0 .. MaxHeld : m = n
    BY <2>1
  <2> HIDE DEF n, b
  <2>7. CASE c = b
    <3>1. ASSUME NEW u \in Users, NEW j \in 0 .. MaxHeld
          PROVE  B!Refers(u, j, c)' <=> (B!Refers(u, j, c) /\ ~ (u = t /\ j = 0)) \/ (u = t /\ j = m)
      <4>1. CASE u = t /\ j = 0
        BY <2>1, <2>4, <2>6, <4>1
      <4>2. CASE u = t /\ j = m
        BY <2>1, <2>4, <2>6, <2>7, <4>2
      <4>3. CASE ~ (u = t /\ j = 0) /\ ~ (u = t /\ j = m)
        BY <2>4, <2>6, <4>3
      <4> QED
        BY <4>1, <4>2, <4>3
    <3>2. Moves(t, 0, m, c)
      BY <2>1, <2>2, <2>3, <2>6, <2>7, <3>1 DEF Moves
    <3>3. Cardinality(B!References(c)') = Cardinality(B!References(c))
      BY <2>1, <3>2, ReferenceMoves
    <3> QED
      BY <2>5, <3>3
  <2>8. CASE c # b
    <3>1. ASSUME NEW u \in Users, NEW j \in 0 .. MaxHeld
          PROVE  B!Refers(u, j, c)' <=> B!Refers(u, j, c)
      BY <2>2, <2>3, <2>4, <2>8
    <3>2. B!References(c)' = B!References(c)
      BY <3>1, ReferencesStay
    <3> QED
      BY <2>5, <3>2
  <2> QED
    BY <2>7, <2>8
<1>10. Unmade' /\ B!OneBufferPerBlock'
  BY <1>2 DEF BufferInv, Unmade, B!OneBufferPerBlock, B!Made
<1> QED
  BY <1>3, <1>4, <1>6, <1>7, <1>8, <1>9, <1>10

\* A step that changes no reference and no count.
LEMMA CountStays ==
    ASSUME B!CountIsReferences, count' = count,
           \A u \in Users : \A j \in 0 .. MaxHeld : \A c : B!Refers(u, j, c)' <=> B!Refers(u, j, c)
    PROVE  B!CountIsReferences'
<1>1. \A c : B!References(c)' = B!References(c)
  BY ReferencesStay
<1> QED
  BY <1>1 DEF B!CountIsReferences

LEMMA BreadLockedKeeps ==
    ASSUME B!BufferAssumption, BufferInv, NEW t \in Users, B!BreadLocked(t)
    PROVE  BufferInv'
<1> DEFINE b == cur[t]
<1>1. /\ UNCHANGED <<buffer_count, B!fields, B!lists, disk, halted>>
      /\ pc[t] = "lock" /\ lock[b] = None
      /\ IF valid[b] THEN B!Returns(t, want[t], b) /\ UNCHANGED lock ELSE B!StartRead(t, want[t], b)
  BY DEF B!BreadLocked
<1>2. UNCHANGED <<buffer_count, block, count, dirty, valid, data, free_list, wait_list, disk, halted>>
  BY <1>1 DEF B!fields, B!lists
<1>3. BufferType /\ b \in B!Buffers /\ want[t] \in Blocks /\ block[b] = want[t] /\ Len(held[t]) < MaxHeld
  BY <1>1 DEF BufferInv, Reads
<1>4. ValidHasData' /\ B!FreeIsUnused'
  BY <1>2 DEF BufferInv, ValidHasData, B!FreeIsUnused, B!Made
<1>5. CASE valid[b]
  <2>1. B!Returns(t, want[t], b) /\ lock' = lock
    BY <1>1, <1>5
  <2>2. valid' = [valid EXCEPT ![b] = TRUE]
    BY <1>2, <1>3, <1>5 DEF BufferType
  <2>3. \A u \in Users \ {t} : pc[u] = "reading" => cur[u] # b /\ lock'[cur[u]] = lock[cur[u]]
    BY <1>5, <2>1 DEF BufferInv, Reads
  <2>4. /\ pc' \in [Users -> {"run", "wait", "writing", "written"} \cup Waiting]
        /\ cur' \in [Users -> B!Buffers \cup {None}]
        /\ want' \in [Users -> Blocks \cup {None}]
        /\ held' \in [Users -> Seq(Blocks \X B!Buffers)]
        /\ Reads' /\ Writes' /\ Holds' /\ B!CountIsReferences'
        /\ Unmade' /\ B!OneBufferPerBlock'
    <3>1. pc[t] \in {"lock", "reading"} /\ UNCHANGED <<buffer_count, block, count, B!lists, disk, halted>>
      BY <1>1, <1>2
    <3> QED
      BY <2>1, <2>2, <2>3, <3>1, BlockedReadReturns
  <2>5. BufferType'
    BY <1>2, <1>3, <2>1, <2>4 DEF BufferType
  <2> QED
    BY <1>4, <2>4, <2>5 DEF BufferInv
<1>6. CASE ~ valid[b]
  <2>1. B!StartRead(t, want[t], b)
    BY <1>1, <1>6
  <2>2. /\ Reads'
        /\ \A u \in Users : \A j \in 0 .. MaxHeld : \A c :
             B!Refers(u, j, c)' <=> IF u = t /\ j = 0 THEN c = b ELSE B!Refers(u, j, c)
        /\ pc' \in [Users -> {"run", "wait", "writing", "written"} \cup Waiting]
        /\ pc'[t] \in {"lock", "reading"}
        /\ cur' \in [Users -> B!Buffers \cup {None}]
        /\ want' \in [Users -> Blocks \cup {None}]
        /\ lock' \in [B!Buffers -> Users \cup {None}]
        /\ held' = held
        /\ \A u \in Users \ {t} : pc'[u] = pc[u] /\ cur'[u] = cur[u]
    BY <1>2, <1>3, <1>6, <2>1, ReadStarts DEF BufferInv
  <2>3. BufferType'
    BY <1>2, <1>3, <2>2 DEF BufferType
  <2>4. Unmade' /\ B!OneBufferPerBlock'
    BY <1>2 DEF BufferInv, Unmade, B!OneBufferPerBlock, B!Made
  <2>6. Writes' /\ Holds'
    BY <1>2, <2>2 DEF BufferInv, Writes, Holds
  <2>5. B!CountIsReferences'
    <3>1. \A c : B!Refers(t, 0, c) <=> c = b
      BY <1>1 DEF B!Refers
    <3>2. \A u \in Users : \A j \in 0 .. MaxHeld : \A c : B!Refers(u, j, c)' <=> B!Refers(u, j, c)
      BY <2>2, <3>1
    <3> QED
      BY <1>2, <3>2, CountStays DEF BufferInv
  <2> QED
    BY <1>4, <2>2, <2>3, <2>4, <2>5, <2>6 DEF BufferInv
<1> QED
  BY <1>5, <1>6

LEMMA BreadDoneKeeps ==
    ASSUME B!BufferAssumption, BufferInv, NEW t \in Users, B!BreadDone(t)
    PROVE  BufferInv'
<1> DEFINE b == cur[t]
<1>1. /\ UNCHANGED <<buffer_count, block, count, B!lists, disk, halted>>
      /\ pc[t] = "reading"
      /\ data' = [data EXCEPT ![b] = disk[block[b]]]
      /\ dirty' = [dirty EXCEPT ![b] = FALSE]
      /\ valid' = [valid EXCEPT ![b] = TRUE]
      /\ lock' = [lock EXCEPT ![b] = None]
      /\ B!Returns(t, want[t], b)
  BY DEF B!BreadDone
<1>2. UNCHANGED <<buffer_count, block, count, free_list, wait_list, disk, halted>>
  BY <1>1 DEF B!lists
<1>3. /\ BufferType /\ b \in B!Buffers /\ want[t] \in Blocks /\ block[b] = want[t]
      /\ lock[b] = t
  BY <1>1 DEF BufferInv, Reads
<1>4. \A u \in Users \ {t} : pc[u] = "reading" => cur[u] # b /\ lock'[cur[u]] = lock[cur[u]]
  BY <1>1, <1>3 DEF BufferInv, Reads, BufferType
<1>5. /\ pc' \in [Users -> {"run", "wait", "writing", "written"} \cup Waiting]
      /\ cur' \in [Users -> B!Buffers \cup {None}]
      /\ want' \in [Users -> Blocks \cup {None}]
      /\ held' \in [Users -> Seq(Blocks \X B!Buffers)]
      /\ Reads' /\ Writes' /\ Holds' /\ B!CountIsReferences'
      /\ Unmade' /\ B!OneBufferPerBlock'
  BY <1>1, <1>4, BlockedReadReturns
<1>6. BufferType'
  BY <1>1, <1>2, <1>3, <1>5 DEF BufferType
<1>7. ValidHasData'
  BY <1>1, <1>3 DEF BufferInv, ValidHasData, BufferType
<1>8. B!FreeIsUnused'
  BY <1>1, <1>2, <1>3 DEF BufferInv, B!FreeIsUnused, B!Made, BufferType
<1> QED
  BY <1>5, <1>6, <1>7, <1>8 DEF BufferInv

LEMMA ModifyKeeps ==
    ASSUME B!BufferAssumption, BufferInv, NEW t \in Users, NEW i \in DOMAIN held[t], NEW d \in Data,
           B!Modify(t, i, d)
    PROVE  BufferInv'
<1> DEFINE b == held[t][i][2]
<1>1. /\ data' = [data EXCEPT ![b] = d] /\ dirty' = [dirty EXCEPT ![b] = TRUE]
      /\ UNCHANGED <<buffer_count, block, count, valid, lock, free_list, wait_list, disk, pc, cur, want, held, halted>>
  BY DEF B!Modify, B!lists, B!callers
<1>2. BufferType /\ b \in B!Buffers /\ count[b] > 0
  BY InUse DEF BufferInv
<1>3. BufferType'
  BY <1>1, <1>2 DEF BufferType
<1>4. ValidHasData'
  BY <1>1, <1>2 DEF BufferInv, ValidHasData, BufferType
<1>5. B!FreeIsUnused'
  BY <1>1, <1>2 DEF BufferInv, B!FreeIsUnused, B!Made, BufferType
<1>6. Unmade' /\ B!OneBufferPerBlock'
  BY <1>1 DEF BufferInv, Unmade, B!OneBufferPerBlock, B!Made
<1>7. Reads' /\ Holds'
  BY <1>1 DEF BufferInv, Reads, Holds
<1>8. Writes'
  BY <1>1 DEF BufferInv, Writes
<1>9. B!CountIsReferences'
  BY <1>1, CountStays DEF BufferInv, B!Refers
<1> QED
  BY <1>3, <1>4, <1>5, <1>6, <1>7, <1>8, <1>9 DEF BufferInv

LEMMA BwriteKeeps ==
    ASSUME B!BufferAssumption, BufferInv, NEW t \in Users, NEW i \in DOMAIN held[t], B!Bwrite(t, i)
    PROVE  BufferInv'
<1> DEFINE b == held[t][i][2]
<1>1. /\ UNCHANGED <<buffer_count, block, count, dirty, valid, data, lock, free_list, wait_list, disk, want, held, halted>>
      /\ pc[t] = "run" /\ pc' = [pc EXCEPT ![t] = "writing"] /\ cur' = [cur EXCEPT ![t] = b]
  BY DEF B!Bwrite, B!fields, B!lists
<1>2. /\ BufferType /\ i \in 1 .. Len(held[t])
      /\ b \in B!Buffers /\ valid[b]
  BY InUse DEF BufferInv, Holds
<1>3. BufferType'
  BY <1>1, <1>2 DEF BufferType
<1>4. /\ pc'[t] = "writing" /\ cur'[t] = b
      /\ \A u \in Users \ {t} : pc'[u] = pc[u] /\ cur'[u] = cur[u]
  BY <1>1, <1>2 DEF BufferType
<1>5. Unmade' /\ ValidHasData' /\ Holds' /\ B!FreeIsUnused' /\ B!OneBufferPerBlock'
  <2>1. Unmade' /\ B!OneBufferPerBlock'
    BY <1>1 DEF BufferInv, Unmade, B!OneBufferPerBlock, B!Made
  <2>2. ValidHasData' /\ Holds'
    BY <1>1 DEF BufferInv, ValidHasData, Holds
  <2>3. B!FreeIsUnused'
    BY <1>1 DEF BufferInv, B!FreeIsUnused, B!Made
  <2> QED
    BY <2>1, <2>2, <2>3
<1>6. Reads'
  BY <1>1, <1>4 DEF BufferInv, Reads
<1>7. Writes'
  BY <1>1, <1>2, <1>4 DEF BufferInv, Writes
<1>8. B!CountIsReferences'
  <2>1. \A u \in Users : \A j \in 0 .. MaxHeld : \A c : B!Refers(u, j, c)' <=> B!Refers(u, j, c)
    BY <1>1, <1>4 DEF B!Refers
  <2> QED
    BY <1>1, <2>1, CountStays DEF BufferInv
<1> QED
  BY <1>3, <1>5, <1>6, <1>7, <1>8 DEF BufferInv

LEMMA TransferKeeps ==
    ASSUME B!BufferAssumption, BufferInv, NEW t \in Users, B!Transfer(t)
    PROVE  BufferInv'
<1>1. /\ UNCHANGED <<buffer_count, block, count, dirty, valid, data, lock, free_list, wait_list, cur, want, held, halted>>
      /\ pc[t] \in {"writing", "flushing"}
      /\ pc' = [pc EXCEPT ![t] = IF pc[t] = "writing" THEN "written" ELSE "flushed"]
      /\ disk' = [disk EXCEPT ![block[cur[t]]] = data[cur[t]]]
  BY DEF B!Transfer, B!fields, B!lists
<1>2. BufferType /\ cur[t] \in B!Buffers /\ data[cur[t]] \in Data
  BY <1>1 DEF BufferInv, Writes, ValidHasData
<1>3. disk' \in [Blocks -> Data]
  BY <1>1, <1>2 DEF BufferType
<1>4. /\ pc'[t] = IF pc[t] = "writing" THEN "written" ELSE "flushed"
      /\ \A u \in Users \ {t} : pc'[u] = pc[u]
  BY <1>1, <1>2 DEF BufferType
<1>5. pc' \in [Users -> {"run", "wait", "writing", "written"} \cup Waiting]
  BY <1>1, <1>2 DEF BufferType, Waiting
<1>6. BufferType'
  BY <1>1, <1>2, <1>3, <1>5 DEF BufferType
<1>7. Unmade' /\ ValidHasData' /\ Holds' /\ B!FreeIsUnused' /\ B!OneBufferPerBlock'
  <2>1. Unmade' /\ B!OneBufferPerBlock'
    BY <1>1 DEF BufferInv, Unmade, B!OneBufferPerBlock, B!Made
  <2>2. ValidHasData' /\ Holds'
    BY <1>1 DEF BufferInv, ValidHasData, Holds
  <2>3. B!FreeIsUnused'
    BY <1>1 DEF BufferInv, B!FreeIsUnused, B!Made
  <2> QED
    BY <2>1, <2>2, <2>3
<1>8. Reads'
  BY <1>1, <1>4 DEF BufferInv, Reads
<1>9. Writes'
  BY <1>1, <1>4 DEF BufferInv, Writes
<1>10. B!CountIsReferences'
  <2>1. \A u \in Users : \A j \in 0 .. MaxHeld : \A c : B!Refers(u, j, c)' <=> B!Refers(u, j, c)
    BY <1>1, <1>4 DEF B!Refers
  <2> QED
    BY <1>1, <2>1, CountStays DEF BufferInv
<1> QED
  BY <1>6, <1>7, <1>8, <1>9, <1>10 DEF BufferInv

LEMMA BwriteDoneKeeps ==
    ASSUME B!BufferAssumption, BufferInv, NEW t \in Users, B!BwriteDone(t)
    PROVE  BufferInv'
<1>1. /\ UNCHANGED <<buffer_count, block, count, data, lock, free_list, wait_list, disk, want, held, halted>>
      /\ pc[t] = "written" /\ pc' = [pc EXCEPT ![t] = "run"] /\ cur' = [cur EXCEPT ![t] = None]
      /\ dirty' = [dirty EXCEPT ![cur[t]] = FALSE] /\ valid' = [valid EXCEPT ![cur[t]] = TRUE]
  BY DEF B!BwriteDone, B!Written, B!lists
<1>2. BufferType /\ cur[t] \in B!Buffers /\ valid[cur[t]]
  BY <1>1 DEF BufferInv, Writes
<1>3. valid' = valid
  BY <1>1, <1>2 DEF BufferType
<1>4. BufferType'
  BY <1>1, <1>2, <1>3 DEF BufferType
<1>5. pc'[t] = "run" /\ \A u \in Users \ {t} : pc'[u] = pc[u] /\ cur'[u] = cur[u]
  BY <1>1, <1>2 DEF BufferType
<1>6. Unmade' /\ ValidHasData' /\ Holds' /\ B!OneBufferPerBlock'
  <2>1. Unmade' /\ B!OneBufferPerBlock'
    BY <1>1, <1>3 DEF BufferInv, Unmade, B!OneBufferPerBlock, B!Made
  <2>2. ValidHasData' /\ Holds'
    BY <1>1, <1>3 DEF BufferInv, ValidHasData, Holds
  <2> QED
    BY <2>1, <2>2
<1>7. B!FreeIsUnused'
  BY <1>1, <1>2 DEF BufferInv, B!FreeIsUnused, B!Made, BufferType
<1>8. Reads'
  BY <1>1, <1>3, <1>5 DEF BufferInv, Reads
<1>9. Writes'
  BY <1>1, <1>3, <1>5 DEF BufferInv, Writes
<1>10. B!CountIsReferences'
  <2>1. \A u \in Users : \A j \in 0 .. MaxHeld : \A c : B!Refers(u, j, c)' <=> B!Refers(u, j, c)
    BY <1>1, <1>5 DEF B!Refers
  <2> QED
    BY <1>1, <2>1, CountStays DEF BufferInv
<1> QED
  BY <1>4, <1>6, <1>7, <1>8, <1>9, <1>10 DEF BufferInv

\* The end of brelse, when buffer b has one reference less.
LEMMA ReleaseKeeps ==
    ASSUME B!BufferAssumption, BufferInv, ~ halted, NEW b \in B!Buffers, B!Release(b),
           count[b] > 0, b <= buffer_count, buffer_count' = buffer_count,
           ~ dirty'[b], \A c \in B!Buffers : dirty'[c] => dirty[c],
           \A c \in B!Buffers : Cardinality(B!References(c)') =
              IF c = b THEN Cardinality(B!References(c)) - 1 ELSE Cardinality(B!References(c))
    PROVE  /\ count' \in [B!Buffers -> Nat] /\ free_list' \in Seq(B!Buffers)
           /\ wait_list' \in Seq(Users) /\ halted' \in BOOLEAN
           /\ Unmade' /\ B!CountIsReferences' /\ B!FreeIsUnused'
<1>1. /\ BufferType /\ buffer_count \in Nat /\ B!Buffers \subseteq Nat
      /\ count' = [count EXCEPT ![b] = @ - 1]
  <2>1. BufferType /\ NBuffers \in Nat
    BY DEF BufferInv, B!BufferAssumption
  <2>2. buffer_count \in Nat /\ B!Buffers \subseteq Nat
    BY <2>1 DEF BufferType, B!Buffers
  <2> QED
    BY <2>1, <2>2 DEF B!Release
<1>2. /\ count' \in [B!Buffers -> Nat] /\ count'[b] = count[b] - 1
      /\ \A c \in B!Buffers \ {b} : count'[c] = count[c]
  BY <1>1 DEF BufferType
<1>3. Unmade'
  BY <1>1, <1>2 DEF BufferInv, Unmade
<1>4. B!CountIsReferences'
  BY <1>2, SizesAgree DEF BufferInv, B!CountIsReferences
<1>5. /\ free_list \in Seq(B!Buffers) /\ Once(free_list)
      /\ \A c \in B!Buffers : Has(free_list, c) <=> c \in B!Made /\ count[c] = 0
      /\ \A c \in B!Buffers : count[c] = 0 => ~ dirty[c]
  BY DEF BufferInv, BufferType, B!FreeIsUnused, Once, Has
<1>6. b \in B!Made /\ B!Made' = B!Made /\ count[b] \in Nat
  BY <1>1 DEF B!Made, B!Buffers, BufferType
<1>7. \A c \in B!Buffers : count'[c] = 0 => ~ dirty'[c]
  BY <1>2, <1>5
<1>8. CASE count[b] = 1
  <2>1. free_list' = <<b>> \o free_list
    BY <1>8 DEF B!Release
  <2>2. /\ free_list' \in Seq(B!Buffers) /\ Once(free_list')
        /\ \A c : Has(free_list', c) <=> Has(free_list, c) \/ c = b
    BY <1>5, <1>8, <2>1, PushElements
  <2>3. \A c \in B!Buffers : Has(free_list', c) <=> c \in B!Made /\ count'[c] = 0
    BY <1>2, <1>5, <1>6, <1>8, <2>2
  <2>4. B!FreeIsUnused'
    BY <1>6, <1>7, <2>2, <2>3 DEF B!FreeIsUnused, Once, Has
  <2>5. CASE wait_list = << >>
    <3>1. wait_list' = wait_list /\ halted' = halted
      BY <1>8, <2>5 DEF B!Release
    <3> QED
      BY <1>1, <1>2, <1>3, <1>4, <2>2, <2>4, <3>1 DEF BufferType
  <2>6. CASE wait_list # << >>
    <3>1. wait_list' = B!Front(wait_list) /\ halted' = TRUE
      BY <1>8, <2>6 DEF B!Release
    <3>2. wait_list' \in Seq(Users)
      BY <1>1, <2>6, <3>1, FrontIsPrefix DEF BufferType
    <3> QED
      BY <1>2, <1>3, <1>4, <2>2, <2>4, <3>1, <3>2
  <2> QED
    BY <2>5, <2>6
<1>9. CASE count[b] # 1
  <2>1. free_list' = free_list /\ wait_list' = wait_list /\ halted' = halted
    BY <1>9 DEF B!Release, B!lists
  <2>2. \A c \in B!Buffers : Has(free_list, c) <=> c \in B!Made /\ count'[c] = 0
    <3>1. count[b] # 0 /\ count'[b] # 0
      BY <1>2, <1>6, <1>9
    <3> QED
      BY <1>2, <1>5, <3>1
  <2>3. B!FreeIsUnused'
    BY <1>5, <1>6, <1>7, <2>1, <2>2 DEF B!FreeIsUnused, Once, Has
  <2> QED
    BY <1>1, <1>2, <1>3, <1>4, <2>1, <2>3 DEF BufferType
<1> QED
  BY <1>8, <1>9

LEMMA BrelseKeeps ==
    ASSUME B!BufferAssumption, BufferInv, NEW t \in Users, NEW i \in DOMAIN held[t], B!Brelse(t, i)
    PROVE  BufferInv'
<1>1. PICK b \in B!Buffers : b = held[t][i][2]
  BY InUse
<1> DEFINE rest == B!RemoveAt(held[t], i)
<1>2. /\ UNCHANGED <<buffer_count, block, dirty, valid, data, lock, disk, want>>
      /\ ~ halted /\ pc[t] = "run" /\ held' = [held EXCEPT ![t] = rest]
      /\ dirty[b] => /\ pc' = [pc EXCEPT ![t] = "flushing"] /\ cur' = [cur EXCEPT ![t] = b]
                     /\ UNCHANGED <<count, free_list, wait_list, halted>>
      /\ ~ dirty[b] => B!Release(b) /\ pc' = pc /\ cur' = cur
  BY <1>1 DEF B!Brelse, B!lists
<1>3. /\ BufferType /\ MaxHeld \in Nat /\ Len(held[t]) \in Nat /\ Len(held[t]) <= MaxHeld
      /\ i \in 1 .. Len(held[t]) /\ i \in 1 .. MaxHeld /\ DOMAIN held[t] = 1 .. Len(held[t])
      /\ B!Refers(t, i, b) /\ count[b] > 0 /\ b <= buffer_count /\ valid[b]
      /\ \A c : ~ B!Refers(t, 0, c)
  <2>1. BufferType /\ MaxHeld \in Nat /\ Len(held[t]) <= MaxHeld
    BY DEF BufferInv, B!BufferAssumption, Holds
  <2>2. Len(held[t]) \in Nat /\ DOMAIN held[t] = 1 .. Len(held[t]) /\ i \in 1 .. Len(held[t])
    BY InUse
  <2>3. i \in 1 .. MaxHeld
    BY <2>1, <2>2
  <2>4. B!Refers(t, i, b) /\ count[b] > 0 /\ b <= buffer_count
    BY <1>1, <2>2, InUse
  <2>5. valid[b]
    BY <1>1, <2>2 DEF BufferInv, Holds
  <2>6. \A c : ~ B!Refers(t, 0, c)
    BY <1>2, InUse DEF Waiting
  <2> QED
    BY <2>1, <2>2, <2>3, <2>4, <2>5, <2>6
<1>4. /\ rest \in Seq(Blocks \X B!Buffers)
      /\ Len(rest) = Len(held[t]) - 1 /\ DOMAIN rest = 1 .. Len(held[t]) - 1
      /\ \A j \in 1 .. Len(held[t]) - 1 : rest[j] = IF j < i THEN held[t][j] ELSE held[t][j + 1]
  <2>1. held[t] \in Seq(Blocks \X B!Buffers)
    BY <1>3 DEF BufferType
  <2>2. /\ rest \in Seq(Blocks \X B!Buffers) /\ Len(rest) = Len(held[t]) - 1
        /\ \A j \in 1 .. Len(held[t]) - 1 : rest[j] = IF j < i THEN held[t][j] ELSE held[t][j + 1]
    <3>1. i \in 1 .. Len(held[t])
      BY <1>3
    <3> QED
      BY <2>1, <3>1, RemoveAtElements
  <2> HIDE DEF rest
  <2> QED
    BY <2>2, LenProperties
<1> HIDE DEF rest
<1>5. /\ held'[t] = rest /\ held' \in [Users -> Seq(Blocks \X B!Buffers)]
      /\ \A u \in Users \ {t} : held'[u] = held[u] /\ pc'[u] = pc[u] /\ cur'[u] = cur[u]
      /\ pc'[t] = IF dirty[b] THEN "flushing" ELSE "run"
      /\ dirty[b] => cur'[t] = b
      /\ pc' \in [Users -> {"run", "wait", "writing", "written"} \cup Waiting]
      /\ cur' \in [Users -> B!Buffers \cup {None}]
  <2>1. held'[t] = rest /\ held' \in [Users -> Seq(Blocks \X B!Buffers)]
        /\ \A u \in Users \ {t} : held'[u] = held[u]
    BY <1>2, <1>3, <1>4 DEF BufferType
  <2>2. CASE dirty[b]
    <3>1. pc' = [pc EXCEPT ![t] = "flushing"] /\ cur' = [cur EXCEPT ![t] = b]
      BY <1>2, <2>2
    <3> QED
      BY <1>3, <2>1, <2>2, <3>1 DEF BufferType, Waiting
  <2>3. CASE ~ dirty[b]
    <3>1. pc' = pc /\ cur' = cur
      BY <1>2, <2>3
    <3> QED
      BY <1>2, <1>3, <2>1, <2>3, <3>1 DEF BufferType
  <2> QED
    BY <2>2, <2>3
<1>6. ASSUME NEW u \in Users, NEW j \in 0 .. MaxHeld, NEW c, ~ (u = t /\ j = 0)
      PROVE  B!Refers(u, j, c)' <=>
                IF u = t /\ j >= i THEN j + 1 \in 0 .. MaxHeld /\ B!Refers(t, j + 1, c)
                                  ELSE B!Refers(u, j, c)
  <2>1. CASE u # t
    BY <1>5, <2>1 DEF B!Refers
  <2>2. CASE u = t /\ j < i
    <3>1. j # 0 /\ j \in DOMAIN rest /\ j \in DOMAIN held[t] /\ rest[j] = held[t][j]
      BY <1>3, <1>4, <1>6, <2>2
    <3>2. ~ (j >= i)
      BY <1>3, <2>2
    <3> QED
      BY <1>5, <2>2, <3>1, <3>2 DEF B!Refers
  <2>3. CASE u = t /\ j >= i
    <3>1. j # 0 /\ j + 1 # 0
      BY <1>3, <2>3
    <3>2. CASE j + 1 <= Len(held[t])
      <4>1. /\ j \in DOMAIN rest /\ j + 1 \in DOMAIN held[t] /\ rest[j] = held[t][j + 1]
            /\ j + 1 \in 0 .. MaxHeld
        <5>1. j \in Int /\ 1 <= j /\ j <= Len(held[t]) - 1 /\ ~ (j < i)
          BY <1>3, <2>3, <3>2
        <5>2. j \in 1 .. Len(held[t]) - 1 /\ j + 1 \in 1 .. Len(held[t])
          BY <1>3, <5>1
        <5>3. j + 1 \in 0 .. MaxHeld
          BY <1>3, <5>1
        <5> QED
          BY <1>3, <1>4, <5>1, <5>2, <5>3
      <4> QED
        BY <1>5, <2>3, <3>1, <4>1 DEF B!Refers
    <3>3. CASE ~ (j + 1 <= Len(held[t]))
      <4>1. j \notin DOMAIN rest /\ j + 1 \notin DOMAIN held[t]
        BY <1>3, <1>4, <2>3, <3>3
      <4> QED
        BY <1>5, <2>3, <3>1, <4>1 DEF B!Refers
    <3> QED
      BY <3>2, <3>3
  <2> QED
    BY <1>3, <2>1, <2>2, <2>3
<1>7. ASSUME NEW c \in B!Buffers
      PROVE  Cardinality(B!References(c)') =
                IF c = b /\ ~ dirty[b] THEN Cardinality(B!References(c)) - 1
                ELSE Cardinality(B!References(c))
  <2>1. Cardinality(B!References(c)' \ {<<t, 0>>}) = Cardinality(B!References(c) \ {<<t, i>>})
    BY <1>3, <1>6, ReferencesShift
  <2>2. IsFiniteSet(B!References(c)) /\ IsFiniteSet(B!References(c)')
    BY ReferencesFinite
  <2>3. Cardinality(B!References(c)) \in Nat /\ Cardinality(B!References(c)') \in Nat
    BY <2>2, FS_CardinalityType
  <2>4. <<t, i>> \in B!References(c) <=> c = b
    <3>1. B!Refers(t, i, c) <=> c = b
      BY <1>1, <1>3 DEF B!Refers
    <3> QED
      BY <1>3, <3>1 DEF B!References
  <2>5. <<t, 0>> \in B!References(c)' <=> c = b /\ dirty[b]
    <3>1. B!Refers(t, 0, c)' <=> c = b /\ dirty[b]
      BY <1>5 DEF B!Refers
    <3>2. 0 \in 0 .. MaxHeld
      BY <1>3
    <3> QED
      BY <3>1, <3>2 DEF B!References
  <2>6. Cardinality(B!References(c) \ {<<t, i>>}) =
          IF c = b THEN Cardinality(B!References(c)) - 1 ELSE Cardinality(B!References(c))
    BY <2>2, <2>4, FS_RemoveElement
  <2>7. Cardinality(B!References(c)' \ {<<t, 0>>}) =
          IF c = b /\ dirty[b] THEN Cardinality(B!References(c)') - 1 ELSE Cardinality(B!References(c)')
    BY <2>2, <2>5, FS_RemoveElement
  <2>8. CASE c = b /\ dirty[b]
    BY <2>1, <2>3, <2>6, <2>7, <2>8
  <2>9. CASE ~ (c = b /\ dirty[b])
    BY <2>1, <2>3, <2>6, <2>7, <2>9
  <2> QED
    BY <2>8, <2>9
<1>8. ValidHasData' /\ B!OneBufferPerBlock'
  BY <1>2 DEF BufferInv, ValidHasData, B!OneBufferPerBlock, B!Made
<1>9. Reads'
  BY <1>2, <1>5 DEF BufferInv, Reads
<1>10. Writes'
  <2>1. ASSUME NEW u \in Users
        PROVE  /\ pc'[u] \in {"writing", "written", "flushing", "flushed"} =>
                    cur'[u] \in B!Buffers /\ valid'[cur'[u]]
               /\ pc'[u] \in {"writing", "written"} =>
                    \E j \in 1 .. Len(held'[u]) : held'[u][j][2] = cur'[u]
    <3>1. CASE u = t
      BY <1>2, <1>3, <1>5, <3>1
    <3>2. CASE u # t
      BY <1>2, <1>5, <3>2 DEF BufferInv, Writes
    <3> QED
      BY <3>1, <3>2
  <2> QED
    BY <2>1 DEF Writes
<1>11. Holds'
  <2>1. ASSUME NEW u \in Users
        PROVE  /\ Len(held'[u]) <= MaxHeld
               /\ \A j \in 1 .. Len(held'[u]) :
                    block'[held'[u][j][2]] = held'[u][j][1] /\ valid'[held'[u][j][2]]
    <3>1. CASE u # t
      BY <1>2, <1>5, <3>1 DEF BufferInv, Holds
    <3>2. CASE u = t
      <4>1. Len(rest) <= MaxHeld
        BY <1>3, <1>4
      <4>2. ASSUME NEW j \in 1 .. Len(rest)
            PROVE  block[rest[j][2]] = rest[j][1] /\ valid[rest[j][2]]
        <5>1. PICK m \in 1 .. Len(held[t]) : rest[j] = held[t][m]
          <6>1. CASE j < i
            BY <1>3, <1>4, <6>1
          <6>2. CASE ~ (j < i)
            <7>1. j + 1 \in 1 .. Len(held[t]) /\ rest[j] = held[t][j + 1]
              BY <1>3, <1>4, <6>2
            <7> QED
              BY <7>1
          <6> QED
            BY <6>1, <6>2
        <5> QED
          BY <5>1 DEF BufferInv, Holds
      <4> QED
        BY <1>2, <1>5, <3>2, <4>1, <4>2
    <3> QED
      BY <3>1, <3>2
  <2> QED
    BY <2>1 DEF Holds
<1>12. CASE dirty[b]
  <2>1. UNCHANGED <<count, free_list, wait_list, halted>>
    BY <1>2, <1>12
  <2>2. BufferType'
    <3>1. UNCHANGED <<buffer_count, block, dirty, valid, data, lock, disk, want>>
      BY <1>2
    <3> QED
      BY <1>3, <1>5, <2>1, <3>1 DEF BufferType
  <2>3. Unmade' /\ B!FreeIsUnused'
    <3>1. buffer_count' = buffer_count /\ dirty' = dirty
      BY <1>2
    <3>2. Unmade'
      BY <2>1, <3>1 DEF BufferInv, Unmade
    <3>3. B!FreeIsUnused'
      BY <2>1, <3>1 DEF BufferInv, B!FreeIsUnused, B!Made
    <3> QED
      BY <3>2, <3>3
  <2>4. B!CountIsReferences'
    BY <1>7, <1>12, <2>1, SizesAgree DEF BufferInv, B!CountIsReferences
  <2> QED
    BY <1>8, <1>9, <1>10, <1>11, <2>2, <2>3, <2>4 DEF BufferInv
<1>13. CASE ~ dirty[b]
  <2>1. B!Release(b) /\ ~ dirty'[b] /\ \A c \in B!Buffers : dirty'[c] => dirty[c]
    BY <1>2, <1>13
  <2>2. \A c \in B!Buffers : Cardinality(B!References(c)') =
          IF c = b THEN Cardinality(B!References(c)) - 1 ELSE Cardinality(B!References(c))
    BY <1>7, <1>13
  <2>3. /\ count' \in [B!Buffers -> Nat] /\ free_list' \in Seq(B!Buffers)
        /\ wait_list' \in Seq(Users) /\ halted' \in BOOLEAN
        /\ Unmade' /\ B!CountIsReferences' /\ B!FreeIsUnused'
    BY <1>2, <1>3, <2>1, <2>2, ReleaseKeeps
  <2>4. BufferType'
    BY <1>2, <1>3, <1>5, <2>3 DEF BufferType
  <2> QED
    BY <1>8, <1>9, <1>10, <1>11, <2>3, <2>4 DEF BufferInv
<1> QED
  BY <1>12, <1>13

LEMMA BrelseDoneKeeps ==
    ASSUME B!BufferAssumption, BufferInv, NEW t \in Users, B!BrelseDone(t)
    PROVE  BufferInv'
<1>1. PICK b \in B!Buffers : b = cur[t]
  BY DEF B!BrelseDone, BufferInv, Writes
<1>2. /\ UNCHANGED <<buffer_count, block, data, lock, disk, want, held>>
      /\ ~ halted /\ pc[t] = "flushed" /\ B!Release(b)
      /\ pc' = [pc EXCEPT ![t] = "run"] /\ cur' = [cur EXCEPT ![t] = None]
      /\ dirty' = [dirty EXCEPT ![b] = FALSE] /\ valid' = [valid EXCEPT ![b] = TRUE]
  BY <1>1 DEF B!BrelseDone, B!Written
<1>3. BufferType /\ valid[b] /\ count[b] > 0 /\ b <= buffer_count /\ 0 \in 0 .. MaxHeld
  BY <1>1, <1>2, InUse DEF BufferInv, Writes, Waiting, B!BufferAssumption
<1>4. valid' = valid /\ dirty' \in [B!Buffers -> BOOLEAN]
      /\ ~ dirty'[b] /\ \A c \in B!Buffers : dirty'[c] => dirty[c]
  BY <1>2, <1>3 DEF BufferType
<1>5. /\ pc'[t] = "run" /\ \A u \in Users \ {t} : pc'[u] = pc[u] /\ cur'[u] = cur[u]
      /\ pc' \in [Users -> {"run", "wait", "writing", "written"} \cup Waiting]
      /\ cur' \in [Users -> B!Buffers \cup {None}]
  BY <1>2, <1>3 DEF BufferType
<1>6. ASSUME NEW c \in B!Buffers
      PROVE  Cardinality(B!References(c)') =
                IF c = b THEN Cardinality(B!References(c)) - 1 ELSE Cardinality(B!References(c))
  <2>1. B!Refers(t, 0, c) <=> c = b
    BY <1>1, <1>2 DEF B!Refers
  <2>2. ASSUME NEW u \in Users, NEW j \in 0 .. MaxHeld
        PROVE  B!Refers(u, j, c)' <=> B!Refers(u, j, c) /\ ~ (u = t /\ j = 0)
    BY <1>2, <1>5 DEF B!Refers
  <2>3. CASE c = b
    <3>1. Cardinality(B!References(c)') = Cardinality(B!References(c)) - 1
      BY <1>3, <2>1, <2>2, <2>3, ReferencesShrink
    <3> QED
      BY <2>3, <3>1
  <2>4. CASE c # b
    <3>1. B!References(c)' = B!References(c)
      BY <2>1, <2>2, <2>4, ReferencesStay
    <3> QED
      BY <2>4, <3>1
  <2> QED
    BY <2>3, <2>4
<1>7. /\ count' \in [B!Buffers -> Nat] /\ free_list' \in Seq(B!Buffers)
      /\ wait_list' \in Seq(Users) /\ halted' \in BOOLEAN
      /\ Unmade' /\ B!CountIsReferences' /\ B!FreeIsUnused'
  BY <1>2, <1>3, <1>4, <1>6, ReleaseKeeps
<1>8. BufferType'
  BY <1>2, <1>3, <1>4, <1>5, <1>7 DEF BufferType
<1>9. ValidHasData' /\ Holds' /\ B!OneBufferPerBlock'
  BY <1>2, <1>4 DEF BufferInv, ValidHasData, Holds, B!OneBufferPerBlock, B!Made
<1>10. Reads'
  BY <1>2, <1>4, <1>5 DEF BufferInv, Reads
<1>11. Writes'
  BY <1>2, <1>4, <1>5 DEF BufferInv, Writes
<1> QED
  BY <1>7, <1>8, <1>9, <1>10, <1>11 DEF BufferInv

LEMMA StepKeeps ==
    ASSUME B!BufferAssumption, BufferInv, [B!Next]_B!vars
    PROVE  BufferInv'
<1>1. CASE UNCHANGED B!vars
  <2>1. UNCHANGED <<buffer_count, block, count, dirty, valid, data, lock, free_list, wait_list, disk, pc, cur, want, held, halted>>
    BY <1>1 DEF B!vars, B!fields, B!lists, B!callers
  <2>2. BufferType'
    BY <2>1 DEF BufferInv, BufferType
  <2>3. Unmade' /\ ValidHasData' /\ Reads'
    BY <2>1 DEF BufferInv, Unmade, ValidHasData, Reads
  <2>4. Writes' /\ Holds'
    BY <2>1 DEF BufferInv, Writes, Holds
  <2>5. B!FreeIsUnused' /\ B!OneBufferPerBlock'
    BY <2>1 DEF BufferInv, B!FreeIsUnused, B!OneBufferPerBlock, B!Made
  <2>6. B!CountIsReferences'
    BY <2>1, CountStays DEF BufferInv, B!Refers
  <2> QED
    BY <2>2, <2>3, <2>4, <2>5, <2>6 DEF BufferInv
<1>2. CASE B!Next
  <2> SUFFICES ASSUME NEW t \in Users,
                      \/ \E k \in Blocks : B!BreadHit(t, k) \/ B!BreadMiss(t, k) \/ B!BreadWait(t, k)
                      \/ B!BreadLocked(t) \/ B!BreadDone(t)
                      \/ \E i \in DOMAIN held[t] :
                          \/ \E d \in Data : B!Modify(t, i, d)
                          \/ B!Bwrite(t, i) \/ B!Brelse(t, i)
                      \/ B!Transfer(t) \/ B!BwriteDone(t) \/ B!BrelseDone(t)
               PROVE  BufferInv'
    BY <1>2 DEF B!Next
  <2>1. ASSUME NEW k \in Blocks, B!BreadHit(t, k) \/ B!BreadMiss(t, k) \/ B!BreadWait(t, k)
        PROVE  BufferInv'
    BY <2>1, BreadHitKeeps, BreadMissKeeps, BreadWaitKeeps
  <2>2. CASE B!BreadLocked(t) \/ B!BreadDone(t)
    BY <2>2, BreadLockedKeeps, BreadDoneKeeps
  <2>3. ASSUME NEW i \in DOMAIN held[t], NEW d \in Data, B!Modify(t, i, d)
        PROVE  BufferInv'
    BY <2>3, ModifyKeeps
  <2>4. ASSUME NEW i \in DOMAIN held[t], B!Bwrite(t, i) \/ B!Brelse(t, i)
        PROVE  BufferInv'
    BY <2>4, BwriteKeeps, BrelseKeeps
  <2>5. CASE B!Transfer(t) \/ B!BwriteDone(t) \/ B!BrelseDone(t)
    BY <2>5, TransferKeeps, BwriteDoneKeeps, BrelseDoneKeeps
  <2> QED
    BY <2>1, <2>2, <2>3, <2>4, <2>5
<1> QED
  BY <1>1, <1>2

\* Whoever uses a buffer keeps it: only getblk gives a buffer to another
\* block, and it takes one without references; only a bread that has the lock
\* of a buffer without valid data reads the disk into it.
LEMMA StepKeepsWhatIsUsed ==
    ASSUME B!BufferAssumption, BufferInv, [B!Next]_B!vars
    PROVE  B!InUseIsKept
<1>1. BufferType
  BY DEF BufferInv
<1>2. ASSUME block' = block, valid' = valid, data' = data
      PROVE  B!InUseIsKept
  BY <1>2 DEF B!InUseIsKept
<1>3. CASE UNCHANGED B!vars
  BY <1>2, <1>3 DEF B!vars, B!fields
<1>4. CASE B!Next
  <2>1. PICK t \in Users :
          \/ \E k \in Blocks : B!BreadHit(t, k) \/ B!BreadMiss(t, k) \/ B!BreadWait(t, k)
          \/ B!BreadLocked(t) \/ B!BreadDone(t)
          \/ \E i \in DOMAIN held[t] :
              \/ \E d \in Data : B!Modify(t, i, d)
              \/ B!Bwrite(t, i) \/ B!Brelse(t, i)
          \/ B!Transfer(t) \/ B!BwriteDone(t) \/ B!BrelseDone(t)
    BY <1>4 DEF B!Next
  <2>2. ASSUME NEW k \in Blocks, B!BreadHit(t, k) \/ B!BreadWait(t, k)
        PROVE  B!InUseIsKept
    BY <1>2, <2>2 DEF B!BreadHit, B!BreadWait, B!fields
  <2>3. ASSUME NEW k \in Blocks, B!BreadMiss(t, k)
        PROVE  B!InUseIsKept
    <3>1. PICK b \in B!FreeBuffer :
            block' = [block EXCEPT ![b] = k] /\ valid' = [valid EXCEPT ![b] = FALSE] /\ data' = data
      BY <2>3 DEF B!BreadMiss
    <3>2. b \in B!Buffers /\ count[b] = 0
      BY FreeBufferIsUnused
    <3> QED
      BY <1>1, <3>1, <3>2 DEF B!InUseIsKept, BufferType
  <2>4. CASE B!BreadLocked(t)
    BY <1>2, <2>4 DEF B!BreadLocked, B!fields
  <2>5. CASE B!BreadDone(t)
    <3>1. cur[t] \in B!Buffers /\ ~ valid[cur[t]]
      BY <2>5 DEF B!BreadDone, BufferInv, Reads
    <3> QED
      BY <1>1, <2>5, <3>1 DEF B!BreadDone, B!InUseIsKept, BufferType
  <2>6. ASSUME NEW i \in DOMAIN held[t], NEW d \in Data, B!Modify(t, i, d)
        PROVE  B!InUseIsKept
    <3>1. held[t][i][2] \in B!Buffers
      BY InUse
    <3> QED
      BY <1>1, <2>6, <3>1 DEF B!Modify, B!InUseIsKept, BufferType
  <2>7. ASSUME NEW i \in DOMAIN held[t], B!Bwrite(t, i) \/ B!Brelse(t, i)
        PROVE  B!InUseIsKept
    BY <1>2, <2>7 DEF B!Bwrite, B!Brelse, B!fields
  <2>8. CASE B!Transfer(t)
    BY <1>2, <2>8 DEF B!Transfer, B!fields
  <2>9. CASE B!BwriteDone(t) \/ B!BrelseDone(t)
    <3>1. cur[t] \in B!Buffers /\ valid[cur[t]]
      BY <2>9 DEF B!BwriteDone, B!BrelseDone, BufferInv, Writes
    <3>2. /\ valid' = [valid EXCEPT ![cur[t]] = TRUE] /\ block' = block /\ data' = data
      BY <2>9 DEF B!BwriteDone, B!BrelseDone, B!Written
    <3>3. valid' = valid
      BY <1>1, <3>1, <3>2 DEF BufferType
    <3> QED
      BY <1>2, <3>2, <3>3
  <2> QED
    BY <2>1, <2>2, <2>3, <2>4, <2>5, <2>6, <2>7, <2>8, <2>9
<1> QED
  BY <1>3, <1>4

LEMMA InvariantMeans ==
    ASSUME BufferInv
    PROVE  B!OneBufferPerBlock /\ B!HeldIsAsked
<1>1. ASSUME NEW t \in Users, NEW i \in DOMAIN held[t]
      PROVE  block[held[t][i][2]] = held[t][i][1] /\ valid[held[t][i][2]]
  BY <1>1, InUse DEF BufferInv, Holds
<1>2. \A t \in Users : pc[t] \in {"lock", "reading"} => block[cur[t]] = want[t]
  BY DEF BufferInv, Reads
<1>3. B!OneBufferPerBlock
  BY DEF BufferInv
<1> QED
  BY <1>1, <1>2, <1>3 DEF B!HeldIsAsked

-----------------------------------------------------------------------------
(* The arena.                                                              *)

Ptrs == A!Pages \X Nat

Span(d, c, ptr) == IF d[ptr[1]] = A!Large THEN ptr[1] .. ptr[1] + c[ptr[1]] - 1 ELSE {ptr[1]}

\* The block of the page p that b is, of the pages with blocks of size s in use.
Owned(d, h, s, b) ==
    /\ d[b[1]] = s /\ b[2] \in 1 .. A!TotalBlock[s] /\ b \in Ptrs
    /\ \E ptr \in h : ptr[1] = b[1]

\* The arena with the pages u in use, the descriptors d, the counts c, the free
\* lists f and the pointers h in the hands of the kernel.
Typed(u, d, c, f, h) ==
    /\ u \subseteq A!Pages /\ h \subseteq Ptrs
    /\ d \in [A!Pages -> Sizes \cup {A!Large}] /\ c \in [A!Pages -> Nat]
    /\ f \in [Sizes -> Seq(Ptrs)]

\* A pointer is to a large piece, whose pages are its own, or to a block.
PointersOk(u, d, c, h) ==
    /\ \A ptr \in h :
        /\ Span(d, c, ptr) \subseteq u /\ ptr[1] \in Span(d, c, ptr)
        /\ ptr[2] = 0 <=> d[ptr[1]] = A!Large
        /\ ptr[2] # 0 => ptr[2] \in 1 .. A!TotalBlock[d[ptr[1]]]
    /\ \A p \in u : \E ptr \in h : p \in Span(d, c, ptr)
    /\ \A ptr, q \in h : ptr[2] = 0 /\ ptr # q => Span(d, c, ptr) \cap Span(d, c, q) = {}

\* The free lists are what is not in use of the pages with blocks in use.
ListsOk(d, f, h) ==
    \A s \in Sizes :
        /\ Once(f[s])
        /\ \A b : Has(f[s], b) <=> b \notin h /\ Owned(d, h, s, b)

CountsOk(d, c, h) ==
    \A ptr \in h : ptr[2] # 0 => c[ptr[1]] = Cardinality(A!BlocksOf(ptr[1], d[ptr[1]]) \ h)

Accounts(u, d, c, f, h) ==
    Typed(u, d, c, f, h) /\ PointersOk(u, d, c, h) /\ ListsOk(d, f, h) /\ CountsOk(d, c, h)

ArenaInv == Accounts(used, desc, count, free_list, held)

LEMMA ArenaAssumed ==
    ASSUME A!ArenaAssumption
    PROVE  /\ PageRoom \in Nat /\ LastPage \in Nat /\ MaxPages \in Nat
           /\ A!Pages = 1 .. LastPage /\ A!Large = 0
           /\ \A s \in Sizes : s # A!Large /\ A!TotalBlock[s] \in Nat \ {0}
<1>1. /\ PageRoom \in Nat /\ LastPage \in Nat /\ MaxPages \in Nat /\ Sizes \subseteq 1 .. PageRoom
      /\ A!Pages = 1 .. LastPage /\ A!Large = 0
  BY DEF A!ArenaAssumption, A!Pages, A!Large
<1>2. ASSUME NEW s \in Sizes
      PROVE  s # A!Large /\ A!TotalBlock[s] \in Nat \ {0}
  <2>1. PICK n \in Nat, r \in Nat : r = s /\ n = PageRoom /\ 1 <= r /\ r <= n
    BY <1>1
  <2>2. n \div r \in Nat
    BY <2>1
  <2>3. n \div r # 0
    BY <2>1
  <2> QED
    BY <1>1, <2>1, <2>2, <2>3 DEF A!TotalBlock
<1> QED
  BY <1>1, <1>2

LEMMA BlocksAre ==
    ASSUME A!ArenaAssumption, NEW p \in A!Pages, NEW s \in Sizes
    PROVE  /\ IsFiniteSet(A!BlocksOf(p, s)) /\ Cardinality(A!BlocksOf(p, s)) = A!TotalBlock[s]
           /\ A!BlocksOf(p, s) \subseteq Ptrs
           /\ \A b : b \in A!BlocksOf(p, s) <=> b \in Ptrs /\ b[1] = p /\ b[2] \in 1 .. A!TotalBlock[s]
<1>1. PICK n \in Nat : n = A!TotalBlock[s]
  BY ArenaAssumed
<1>2. PICK f : f = [i \in 1 .. n |-> <<p, i>>]
  OBVIOUS
<1>3. A!BlocksOf(p, s) = {<<p, i>> : i \in 1 .. n}
  BY <1>1 DEF A!BlocksOf
<1>4. f \in Bijection(1 .. n, A!BlocksOf(p, s))
  BY <1>2, <1>3 DEF Bijection, Injection, Surjection, IsInjective
<1>5. IsFiniteSet(1 .. n) /\ Cardinality(1 .. n) = n
  BY FS_Interval
<1>6. IsFiniteSet(A!BlocksOf(p, s)) /\ Cardinality(A!BlocksOf(p, s)) = n
  BY <1>4, <1>5, FS_Bijection DEF ExistsBijection
<1> QED
  BY <1>1, <1>3, <1>6 DEF Ptrs

-----------------------------------------------------------------------------
\* list_remove, block after block.

LEMMA SameWithout ==
    ASSUME NEW list, NEW b
    PROVE  A!Without(list, b) = B!Without(list, b)
BY DEF A!Without, B!Without, A!RemoveAt, B!RemoveAt

LEMMA WithoutIs ==
    ASSUME NEW list \in Seq(Ptrs), Once(list), NEW b
    PROVE  /\ A!Without(list, b) \in Seq(Ptrs) /\ Once(A!Without(list, b))
           /\ \A c : Has(A!Without(list, b), c) <=> Has(list, c) /\ c # b
BY SameWithout, WithoutElements

FreeLists == {l \in Seq(Ptrs) : Once(l)}

RemoveStep(list, p, g, i) == IF i = 0 THEN list ELSE A!Without(g[i - 1], <<p, i>>)

LEMMA RemovedUnrolls ==
    ASSUME A!ArenaAssumption, NEW list \in FreeLists, NEW p, NEW s \in Sizes
    PROVE  \A i \in 0 .. A!TotalBlock[s] :
              A!Removed(list, p, s)[i] = RemoveStep(list, p, A!Removed(list, p, s), i)
<1>0. PICK n \in Nat : n = A!TotalBlock[s]
  BY ArenaAssumed
<1> DEFINE Unrolled(m, g) == \A i \in 0 .. m : g[i] = RemoveStep(list, p, g, i)
           Stuck == {m \in 0 .. n : ~ \E g \in [0 .. m -> FreeLists] : Unrolled(m, g)}
<1>5. Stuck \in SUBSET Nat
  BY <1>0
<1> HIDE DEF Stuck
<1>1. ASSUME Stuck # {}
      PROVE  FALSE
  <2>1. PICK m \in Stuck : \A z \in Stuck : m <= z
    BY <1>1, <1>5, LeastNumber
  <2>2. m # 0
    <3>1. ASSUME m = 0
          PROVE  [i \in 0 .. 0 |-> list] \in [0 .. 0 -> FreeLists]
                 /\ Unrolled(0, [i \in 0 .. 0 |-> list])
      BY DEF RemoveStep
    <3> QED
      BY <2>1, <3>1 DEF Stuck
  <2>3. m - 1 \in 0 .. n /\ m - 1 \notin Stuck /\ m \in Nat
    <3>1. m \in 0 .. n
      BY DEF Stuck
    <3> QED
      BY <1>0, <2>1, <2>2, <3>1
  <2>4. PICK g \in [0 .. m - 1 -> FreeLists] : Unrolled(m - 1, g)
    BY <2>3 DEF Stuck
  <2> DEFINE h == [i \in 0 .. m |-> IF i < m THEN g[i] ELSE RemoveStep(list, p, g, m)]
  <2>5. RemoveStep(list, p, g, m) \in FreeLists
    <3>1. g[m - 1] \in FreeLists
      BY <2>2, <2>3
    <3> QED
      BY <2>2, <3>1, WithoutIs DEF RemoveStep, FreeLists
  <2>6. h \in [0 .. m -> FreeLists]
    BY <2>3, <2>5
  <2>7. Unrolled(m, h)
    <3> SUFFICES ASSUME NEW i \in 0 .. m
                 PROVE  h[i] = RemoveStep(list, p, h, i)
      OBVIOUS
    <3>1. i # 0 => h[i - 1] = g[i - 1]
      BY <2>3
    <3>2. RemoveStep(list, p, h, i) = RemoveStep(list, p, g, i)
      BY <3>1 DEF RemoveStep
    <3>3. CASE i < m
      BY <2>3, <2>4, <3>2, <3>3
    <3>4. CASE i = m
      BY <2>3, <3>2, <3>4
    <3> QED
      BY <2>3, <3>3, <3>4
  <2> QED
    BY <2>1, <2>6, <2>7 DEF Stuck
<1>2. PICK g \in [0 .. n -> FreeLists] : Unrolled(n, g)
  <2>1. n \in 0 .. n /\ n \notin Stuck
    BY <1>0, <1>1
  <2> QED
    BY <2>1 DEF Stuck
<1>3. g = [i \in 0 .. n |-> IF i = 0 THEN list ELSE A!Without(g[i - 1], <<p, i>>)]
  BY <1>2 DEF RemoveStep
<1>4. A!Removed(list, p, s) =
        CHOOSE f : f = [i \in 0 .. n |-> IF i = 0 THEN list ELSE A!Without(f[i - 1], <<p, i>>)]
  BY <1>0 DEF A!Removed
<1>6. PICK r : r = A!Removed(list, p, s)
  OBVIOUS
<1>7. r = [i \in 0 .. n |-> IF i = 0 THEN list ELSE A!Without(r[i - 1], <<p, i>>)]
  BY <1>3, <1>4, <1>6
<1> QED
  BY <1>0, <1>6, <1>7 DEF RemoveStep

\* After the loop of kfree no block of the page is on the list.
LEMMA RemovedIs ==
    ASSUME A!ArenaAssumption, NEW list \in FreeLists, NEW p, NEW s \in Sizes
    PROVE  /\ A!Removed(list, p, s)[A!TotalBlock[s]] \in FreeLists
           /\ \A c : Has(A!Removed(list, p, s)[A!TotalBlock[s]], c)
                    <=> Has(list, c) /\ \A j \in 1 .. A!TotalBlock[s] : c # <<p, j>>
<1>0. PICK n \in Nat : n = A!TotalBlock[s]
  BY ArenaAssumed
<1>1. PICK r : r = A!Removed(list, p, s) /\ \A i \in 0 .. n : r[i] = RemoveStep(list, p, r, i)
  BY <1>0, RemovedUnrolls
<1> DEFINE Good(i) == /\ r[i] \in FreeLists
                      /\ \A c : Has(r[i], c) <=> Has(list, c) /\ \A j \in 1 .. i : c # <<p, j>>
           Bad == {i \in 0 .. n : ~Good(i)}
<1>2. Bad \in SUBSET Nat
  BY <1>0
<1> HIDE DEF Bad
<1>3. ASSUME Bad # {}
      PROVE  FALSE
  <2>1. PICK m \in Bad : \A z \in Bad : m <= z
    BY <1>2, <1>3, LeastNumber
  <2>2. m \in 0 .. n /\ ~Good(m)
    BY <2>1 DEF Bad
  <2>3. m # 0
    <3>1. ASSUME m = 0
          PROVE  r[m] = list
      BY <1>0, <1>1, <2>2, <3>1 DEF RemoveStep
    <3>2. ASSUME m = 0
          PROVE  1 .. m = {}
      BY <3>2
    <3> QED
      BY <2>2, <3>1, <3>2
  <2>4. m - 1 \in 0 .. n /\ m - 1 < m
    BY <1>0, <2>2, <2>3
  <2>5. Good(m - 1)
    BY <1>2, <2>1, <2>4 DEF Bad
  <2>6. r[m] = A!Without(r[m - 1], <<p, m>>)
    BY <1>1, <2>2, <2>3 DEF RemoveStep
  <2>7. PICK before, after : before = r[m - 1] /\ after = r[m]
    OBVIOUS
  <2>8. before \in Seq(Ptrs) /\ Once(before)
    BY <2>5, <2>7 DEF FreeLists
  <2>9. /\ after \in FreeLists
        /\ \A c : Has(after, c) <=> Has(before, c) /\ c # <<p, m>>
    BY <2>6, <2>7, <2>8, WithoutIs DEF FreeLists
  <2>10. \A c : (\A j \in 1 .. m : c # <<p, j>>) <=> (\A j \in 1 .. m - 1 : c # <<p, j>>) /\ c # <<p, m>>
    <3>1. \A j : j \in 1 .. m <=> j \in 1 .. m - 1 \/ j = m
      BY <1>0, <2>2, <2>3
    <3> QED
      BY <3>1
  <2> QED
    BY <2>2, <2>5, <2>7, <2>9, <2>10
<1>4. Good(n)
  BY <1>0, <1>3 DEF Bad
<1> QED
  BY <1>0, <1>1, <1>4

-----------------------------------------------------------------------------
\* The pointers of a page in use.

LEMMA OnlyLarge ==
    ASSUME A!ArenaAssumption, NEW u, NEW d, NEW c, NEW f, NEW h, Accounts(u, d, c, f, h), NEW ptr \in h
    PROVE  /\ ptr \in Ptrs /\ ptr = <<ptr[1], ptr[2]>> /\ ptr[1] \in A!Pages /\ ptr[2] \in Nat /\ ptr[1] \in u
           /\ ptr[1] \in Int
           /\ d[ptr[1]] = A!Large => ptr[2] = 0 /\ Span(d, c, ptr) = ptr[1] .. ptr[1] + c[ptr[1]] - 1
           /\ d[ptr[1]] # A!Large =>
                /\ d[ptr[1]] \in Sizes /\ ptr[2] \in 1 .. A!TotalBlock[d[ptr[1]]]
                /\ ptr \in A!BlocksOf(ptr[1], d[ptr[1]]) /\ Span(d, c, ptr) = {ptr[1]}
<1>1. Typed(u, d, c, f, h) /\ PointersOk(u, d, c, h)
  BY DEF Accounts
<1>2. ptr \in Ptrs /\ ptr = <<ptr[1], ptr[2]>> /\ ptr[1] \in A!Pages /\ ptr[2] \in Nat /\ ptr[1] \in u
  BY <1>1 DEF Typed, PointersOk, Ptrs
<1>3. ptr[1] \in Int
  BY <1>2, ArenaAssumed
<1>4. d[ptr[1]] = A!Large => ptr[2] = 0 /\ Span(d, c, ptr) = ptr[1] .. ptr[1] + c[ptr[1]] - 1
  BY <1>1 DEF PointersOk, Span
<1>5. ASSUME d[ptr[1]] # A!Large
      PROVE  /\ d[ptr[1]] \in Sizes /\ ptr[2] \in 1 .. A!TotalBlock[d[ptr[1]]]
             /\ ptr \in A!BlocksOf(ptr[1], d[ptr[1]]) /\ Span(d, c, ptr) = {ptr[1]}
  <2>1. d[ptr[1]] \in Sizes
    BY <1>1, <1>2, <1>5 DEF Typed
  <2>2. ptr[2] \in 1 .. A!TotalBlock[d[ptr[1]]] /\ Span(d, c, ptr) = {ptr[1]}
    BY <1>1, <1>5 DEF PointersOk, Span
  <2> QED
    BY <1>2, <2>1, <2>2, BlocksAre
<1> QED
  BY <1>2, <1>3, <1>4, <1>5

\* alloc_kpage finds free pages.
LEMMA FirstFits ==
    ASSUME A!ArenaAssumption, NEW n \in Nat \ {0}, A!Fits(n) # {}
    PROVE  /\ A!First(n) \in A!Pages /\ A!First(n) + n - 1 <= LastPage
           /\ (A!First(n) .. A!First(n) + n - 1) \cap used = {}
           /\ A!First(n) \in A!First(n) .. A!First(n) + n - 1
           /\ A!First(n) .. A!First(n) + n - 1 \subseteq A!Pages
<1>1. A!Fits(n) \in SUBSET Nat
  BY ArenaAssumed DEF A!Fits
<1>2. PICK m \in A!Fits(n) : \A q \in A!Fits(n) : m <= q
  BY <1>1, LeastNumber
<1>3. A!First(n) \in A!Fits(n)
  BY <1>2 DEF A!First
<1>4. PICK p : p = A!First(n)
  OBVIOUS
<1>5. p \in A!Pages /\ p + n - 1 <= LastPage /\ (p .. p + n - 1) \cap used = {}
  BY <1>3, <1>4 DEF A!Fits
<1>6. p \in p .. p + n - 1 /\ p .. p + n - 1 \subseteq A!Pages
  BY <1>5, ArenaAssumed
<1> QED
  BY <1>4, <1>5, <1>6

-----------------------------------------------------------------------------
\* The operations.

LEMMA ArenaStarts ==
    ASSUME A!ArenaAssumption, A!Init
    PROVE  ArenaInv
<1> SUFFICES Accounts(used, desc, count, free_list, held)
  BY DEF ArenaInv
<1>1. /\ used = {} /\ desc = [p \in A!Pages |-> A!Large] /\ count = [p \in A!Pages |-> 0]
      /\ free_list = [s \in Sizes |-> << >>] /\ held = {}
  BY DEF A!Init
<1>2. Typed(used, desc, count, free_list, held)
  BY <1>1 DEF Typed
<1>3. PointersOk(used, desc, count, held) /\ CountsOk(desc, count, held)
  BY <1>1 DEF PointersOk, CountsOk
<1>4. ListsOk(desc, free_list, held)
  <2> SUFFICES ASSUME NEW s \in Sizes
               PROVE  /\ Once(free_list[s])
                      /\ \A b : Has(free_list[s], b) <=> b \notin held /\ Owned(desc, held, s, b)
    BY DEF ListsOk
  <2>1. free_list[s] = << >> /\ Len(free_list[s]) = 0 /\ 1 .. Len(free_list[s]) = {}
    BY <1>1
  <2> QED
    BY <1>1, <2>1 DEF Once, Has, Owned
<1> QED
  BY <1>2, <1>3, <1>4 DEF Accounts

\* A large piece.
LEMMA ArenaLarge ==
    ASSUME A!ArenaAssumption, NEW u, NEW d, NEW c, NEW f, NEW h, Accounts(u, d, c, f, h),
           NEW u2, NEW d2, NEW c2, NEW h2, NEW n \in Nat \ {0}, NEW p \in A!Pages,
           p .. p + n - 1 \subseteq A!Pages, (p .. p + n - 1) \cap u = {},
           u2 = u \cup (p .. p + n - 1), d2 = [d EXCEPT ![p] = A!Large],
           c2 = [c EXCEPT ![p] = n], h2 = h \cup {<<p, 0>>}
    PROVE  Accounts(u2, d2, c2, f, h2)
<1>1. Typed(u, d, c, f, h) /\ PointersOk(u, d, c, h) /\ ListsOk(d, f, h) /\ CountsOk(d, c, h)
  BY DEF Accounts
<1>2. p \in Int /\ p \in p .. p + n - 1 /\ p \notin u
  BY ArenaAssumed
<1>3. d \in [A!Pages -> Sizes \cup {A!Large}] /\ c \in [A!Pages -> Nat] /\ u \subseteq A!Pages /\ h \subseteq Ptrs
  BY <1>1 DEF Typed
<1>4. \A ptr \in h : ptr[1] \in u /\ ptr[1] # p /\ ptr[1] \in A!Pages
  BY <1>2, OnlyLarge
<1>5. PICK new : new = <<p, 0>>
  OBVIOUS
<1>6. /\ d2[p] = A!Large /\ c2[p] = n
      /\ \A q \in A!Pages : q # p => d2[q] = d[q] /\ c2[q] = c[q]
      /\ new[1] = p /\ new[2] = 0 /\ h2 = h \cup {new} /\ new \in Ptrs
  BY <1>3, <1>5 DEF Ptrs
<1>7. Span(d2, c2, new) = p .. p + n - 1 /\ \A ptr \in h : Span(d2, c2, ptr) = Span(d, c, ptr)
  BY <1>4, <1>6 DEF Span
<1>8. Typed(u2, d2, c2, f, h2)
  <2>1. d2 \in [A!Pages -> Sizes \cup {A!Large}] /\ c2 \in [A!Pages -> Nat]
    BY <1>3
  <2> QED
    BY <1>1, <1>6, <2>1 DEF Typed
<1>9. PointersOk(u2, d2, c2, h2)
  <2>1. \A ptr \in h2 :
        /\ Span(d2, c2, ptr) \subseteq u2 /\ ptr[1] \in Span(d2, c2, ptr)
        /\ ptr[2] = 0 <=> d2[ptr[1]] = A!Large
        /\ ptr[2] # 0 => ptr[2] \in 1 .. A!TotalBlock[d2[ptr[1]]]
    <3>1. \A ptr \in h :
        /\ Span(d2, c2, ptr) \subseteq u2 /\ ptr[1] \in Span(d2, c2, ptr)
        /\ ptr[2] = 0 <=> d2[ptr[1]] = A!Large
        /\ ptr[2] # 0 => ptr[2] \in 1 .. A!TotalBlock[d2[ptr[1]]]
      BY <1>1, <1>4, <1>6, <1>7 DEF PointersOk
    <3>2. /\ Span(d2, c2, new) \subseteq u2 /\ new[1] \in Span(d2, c2, new)
          /\ new[2] = 0 /\ d2[new[1]] = A!Large
      BY <1>2, <1>6, <1>7
    <3> QED
      BY <1>6, <3>1, <3>2
  <2>2. \A q \in u2 : \E ptr \in h2 : q \in Span(d2, c2, ptr)
    BY <1>1, <1>6, <1>7 DEF PointersOk
  <2>3. \A ptr, q \in h2 : ptr[2] = 0 /\ ptr # q => Span(d2, c2, ptr) \cap Span(d2, c2, q) = {}
    <3>1. ASSUME NEW ptr \in h
          PROVE  Span(d2, c2, ptr) \cap Span(d2, c2, new) = {} /\ Span(d2, c2, new) \cap Span(d2, c2, ptr) = {}
      <4>1. Span(d2, c2, ptr) \subseteq u
        BY <1>1, <1>7 DEF PointersOk
      <4>2. Span(d2, c2, new) \cap u = {}
        BY <1>7
      <4> QED
        BY <4>1, <4>2
    <3>2. ASSUME NEW ptr \in h, NEW q \in h, ptr[2] = 0, ptr # q
          PROVE  Span(d2, c2, ptr) \cap Span(d2, c2, q) = {}
      <4>1. Span(d, c, ptr) \cap Span(d, c, q) = {}
        BY <1>1, <3>2 DEF PointersOk
      <4> QED
        BY <1>7, <4>1
    <3> SUFFICES ASSUME NEW ptr \in h2, NEW q \in h2, ptr[2] = 0, ptr # q
                 PROVE  Span(d2, c2, ptr) \cap Span(d2, c2, q) = {}
      OBVIOUS
    <3>3. ptr = new \/ ptr \in h
      BY <1>6
    <3>4. q = new \/ q \in h
      BY <1>6
    <3> QED
      BY <3>1, <3>2, <3>3, <3>4
  <2> QED
    BY <2>1, <2>2, <2>3 DEF PointersOk
<1>10. ListsOk(d2, f, h2)
  <2> SUFFICES ASSUME NEW s \in Sizes, NEW b
               PROVE  /\ Once(f[s])
                      /\ Has(f[s], b) <=> b \notin h2 /\ Owned(d2, h2, s, b)
    BY DEF ListsOk
  <2>1. Once(f[s]) /\ (Has(f[s], b) <=> b \notin h /\ Owned(d, h, s, b))
    BY <1>1 DEF ListsOk
  <2>2. s # A!Large
    BY ArenaAssumed
  <2>3. Owned(d2, h2, s, b) => Owned(d, h, s, b) /\ b # new
    <3> SUFFICES ASSUME Owned(d2, h2, s, b)
                 PROVE  Owned(d, h, s, b) /\ b # new
      OBVIOUS
    <3>1. b[1] # p /\ b[1] \in A!Pages
      BY <1>6, <2>2 DEF Owned, Ptrs
    <3> QED
      BY <1>6, <3>1 DEF Owned
  <2>4. Owned(d, h, s, b) => Owned(d2, h2, s, b) /\ b # new
    <3> SUFFICES ASSUME Owned(d, h, s, b)
                 PROVE  Owned(d2, h2, s, b) /\ b # new
      OBVIOUS
    <3>1. b[1] # p /\ b[1] \in A!Pages
      BY <1>4 DEF Owned
    <3> QED
      BY <1>6, <3>1 DEF Owned
  <2> QED
    BY <1>6, <2>1, <2>3, <2>4
<1>11. CountsOk(d2, c2, h2)
  <2> SUFFICES ASSUME NEW ptr \in h, ptr[2] # 0
               PROVE  c2[ptr[1]] = Cardinality(A!BlocksOf(ptr[1], d2[ptr[1]]) \ h2)
    BY <1>6 DEF CountsOk
  <2>1. d2[ptr[1]] = d[ptr[1]] /\ c2[ptr[1]] = c[ptr[1]]
    BY <1>4, <1>6
  <2>2. new \notin A!BlocksOf(ptr[1], d[ptr[1]])
    BY <1>4, <1>5 DEF A!BlocksOf
  <2>3. A!BlocksOf(ptr[1], d[ptr[1]]) \ h2 = A!BlocksOf(ptr[1], d[ptr[1]]) \ h
    BY <1>6, <2>2
  <2> QED
    BY <1>1, <2>1, <2>3 DEF CountsOk
<1> QED
  BY <1>8, <1>9, <1>10, <1>11 DEF Accounts

\* The head of a free list.
LEMMA HeadIs ==
    ASSUME NEW list \in Seq(Ptrs), Once(list), list # << >>
    PROVE  /\ Tail(list) \in Seq(Ptrs) /\ Once(Tail(list)) /\ Has(list, Head(list))
           /\ \A c : Has(Tail(list), c) <=> Has(list, c) /\ c # Head(list)
<1>0. Len(list) \in Nat
  OBVIOUS
<1>1. PICK n, rest, first : n \in Nat /\ n = Len(list) /\ rest = Tail(list) /\ first = Head(list)
  BY <1>0
<1>2. /\ rest \in Seq(Ptrs) /\ Len(rest) = n - 1 /\ n >= 1 /\ first = list[1]
      /\ \A i \in 1 .. n - 1 : rest[i] = list[i + 1]
  BY <1>1
<1>3. \A i, j \in 1 .. n : list[i] = list[j] => i = j
  BY <1>1 DEF Once
<1>4. \A i, j \in 1 .. n - 1 : rest[i] = rest[j] => i = j
  <2> SUFFICES ASSUME NEW i \in 1 .. n - 1, NEW j \in 1 .. n - 1, rest[i] = rest[j]
               PROVE  i = j
    OBVIOUS
  <2>1. i + 1 \in 1 .. n /\ j + 1 \in 1 .. n /\ list[i + 1] = list[j + 1]
    BY <1>1, <1>2
  <2>2. i + 1 = j + 1
    BY <1>3, <2>1
  <2> QED
    BY <2>2
<1>5. ASSUME NEW c
      PROVE  (\E i \in 1 .. n - 1 : rest[i] = c) <=> (\E i \in 1 .. n : list[i] = c) /\ c # first
  <2>1. ASSUME NEW i \in 1 .. n - 1, rest[i] = c
        PROVE  (\E j \in 1 .. n : list[j] = c) /\ c # first
    <3>1. i + 1 \in 1 .. n /\ list[i + 1] = c /\ 1 \in 1 .. n /\ i + 1 # 1
      BY <1>1, <1>2, <2>1
    <3> QED
      BY <1>2, <1>3, <3>1
  <2>2. ASSUME NEW i \in 1 .. n, list[i] = c, c # first
        PROVE  \E j \in 1 .. n - 1 : rest[j] = c
    <3>1. i - 1 \in 1 .. n - 1 /\ (i - 1) + 1 = i
      BY <1>1, <1>2, <2>2
    <3> QED
      BY <1>2, <2>2, <3>1
  <2> QED
    BY <2>1, <2>2
<1>6. Has(list, first)
  BY <1>1, <1>2 DEF Has
<1> QED
  BY <1>1, <1>2, <1>4, <1>5, <1>6 DEF Once, Has

\* A block from a free list.
LEMMA ArenaTakes ==
    ASSUME A!ArenaAssumption, NEW u, NEW d, NEW c, NEW f, NEW h, Accounts(u, d, c, f, h),
           NEW c2, NEW f2, NEW h2, NEW s \in Sizes, f[s] # << >>, NEW node, node = Head(f[s]),
           f2 = [f EXCEPT ![s] = Tail(f[s])], c2 = [c EXCEPT ![node[1]] = c[node[1]] - 1],
           h2 = h \cup {node}
    PROVE  Accounts(u, d, c2, f2, h2)
<1>1. Typed(u, d, c, f, h) /\ PointersOk(u, d, c, h) /\ ListsOk(d, f, h) /\ CountsOk(d, c, h)
  BY DEF Accounts
<1>2. /\ d \in [A!Pages -> Sizes \cup {A!Large}] /\ c \in [A!Pages -> Nat] /\ u \subseteq A!Pages /\ h \subseteq Ptrs
      /\ f \in [Sizes -> Seq(Ptrs)] /\ f[s] \in Seq(Ptrs) /\ s # A!Large
  BY <1>1, ArenaAssumed DEF Typed
<1>3. Once(f[s]) /\ \A b : Has(f[s], b) <=> b \notin h /\ Owned(d, h, s, b)
  BY <1>1 DEF ListsOk
<1>4. /\ Tail(f[s]) \in Seq(Ptrs) /\ Once(Tail(f[s])) /\ Has(f[s], node)
      /\ \A b : Has(Tail(f[s]), b) <=> Has(f[s], b) /\ b # node
  BY <1>2, <1>3, HeadIs
<1>5. node \notin h /\ Owned(d, h, s, node)
  BY <1>3, <1>4
<1>6. PICK p : p = node[1]
  OBVIOUS
<1>7. d[p] = s /\ p \in A!Pages /\ node \in Ptrs /\ node = <<p, node[2]>> /\ node[2] \in 1 .. A!TotalBlock[s]
  BY <1>5, <1>6 DEF Owned, Ptrs
<1>8. PICK on \in h : on[1] = p
  BY <1>5, <1>6 DEF Owned
<1>9. Span(d, c, on) = {p} /\ on[2] # 0 /\ p \in u
  BY <1>2, <1>7, <1>8, OnlyLarge, ArenaAssumed
<1>10. /\ \A q \in A!Pages : q # p => c2[q] = c[q]
       /\ c2[p] = c[p] - 1 /\ c[p] \in Nat
  BY <1>2, <1>6, <1>7
<1>11. \A ptr \in h : Span(d, c2, ptr) = Span(d, c, ptr)
  <2> SUFFICES ASSUME NEW ptr \in h
               PROVE  Span(d, c2, ptr) = Span(d, c, ptr)
    OBVIOUS
  <2>1. ptr[1] \in A!Pages
    BY OnlyLarge
  <2>2. d[ptr[1]] = A!Large => ptr[1] # p
    BY <1>2, <1>7
  <2> QED
    BY <1>10, <2>1, <2>2 DEF Span
<1>12. Span(d, c2, node) = {p}
  BY <1>2, <1>6, <1>7 DEF Span
<1>13. PICK blocks : blocks = A!BlocksOf(p, s)
  OBVIOUS
<1>14. Cardinality(blocks \ h2) = c[p] - 1 /\ c[p] - 1 \in Nat
  <2>1. IsFiniteSet(blocks) /\ node \in blocks
    BY <1>6, <1>7, <1>13, BlocksAre
  <2>2. IsFiniteSet(blocks \ h)
    BY <2>1, FS_Subset
  <2>3. c[p] = Cardinality(blocks \ h)
    BY <1>1, <1>7, <1>8, <1>9, <1>13 DEF CountsOk
  <2>4. blocks \ h2 = (blocks \ h) \ {node} /\ node \in blocks \ h
    BY <1>5, <2>1
  <2>5. IsFiniteSet(blocks \ h2) /\ Cardinality(blocks \ h2) = Cardinality(blocks \ h) - 1
    BY <2>2, <2>4, FS_RemoveElement
  <2>6. Cardinality(blocks \ h2) \in Nat
    BY <2>5, FS_CardinalityType
  <2> QED
    BY <2>3, <2>5, <2>6
<1>15. Typed(u, d, c2, f2, h2)
  <2>1. c2 \in [A!Pages -> Nat]
    BY <1>2, <1>6, <1>7, <1>14
  <2>2. f2 \in [Sizes -> Seq(Ptrs)]
    BY <1>2, <1>4
  <2> QED
    BY <1>2, <1>7, <2>1, <2>2 DEF Typed
<1>16. PointersOk(u, d, c2, h2)
  <2>1. \A ptr \in h2 :
        /\ Span(d, c2, ptr) \subseteq u /\ ptr[1] \in Span(d, c2, ptr)
        /\ ptr[2] = 0 <=> d[ptr[1]] = A!Large
        /\ ptr[2] # 0 => ptr[2] \in 1 .. A!TotalBlock[d[ptr[1]]]
    <3>1. \A ptr \in h :
        /\ Span(d, c2, ptr) \subseteq u /\ ptr[1] \in Span(d, c2, ptr)
        /\ ptr[2] = 0 <=> d[ptr[1]] = A!Large
        /\ ptr[2] # 0 => ptr[2] \in 1 .. A!TotalBlock[d[ptr[1]]]
      BY <1>1, <1>11 DEF PointersOk
    <3>2. Span(d, c2, node) \subseteq u /\ node[1] \in Span(d, c2, node)
      BY <1>6, <1>9, <1>12
    <3>3. node[2] # 0 /\ d[node[1]] # A!Large /\ node[2] \in 1 .. A!TotalBlock[d[node[1]]]
      BY <1>2, <1>6, <1>7, ArenaAssumed
    <3> QED
      BY <3>1, <3>2, <3>3
  <2>2. \A q \in u : \E ptr \in h2 : q \in Span(d, c2, ptr)
    BY <1>1, <1>11 DEF PointersOk
  <2>3. ASSUME NEW ptr \in h2, NEW q \in h2, ptr[2] = 0, ptr # q
        PROVE  Span(d, c2, ptr) \cap Span(d, c2, q) = {}
    <3>1. ptr \in h /\ ptr # on
      BY <1>7, <1>9, <2>3, ArenaAssumed
    <3>2. Span(d, c, ptr) \cap {p} = {}
      BY <1>1, <1>9, <2>3, <3>1 DEF PointersOk
    <3>3. CASE q = node
      BY <1>11, <1>12, <3>1, <3>2, <3>3
    <3>4. CASE q \in h
      <4>1. Span(d, c, ptr) \cap Span(d, c, q) = {}
        BY <1>1, <2>3, <3>1, <3>4 DEF PointersOk
      <4> QED
        BY <1>11, <3>1, <3>4, <4>1
    <3> QED
      BY <3>3, <3>4
  <2>4. \A ptr, q \in h2 : ptr[2] = 0 /\ ptr # q => Span(d, c2, ptr) \cap Span(d, c2, q) = {}
    BY ZenonT(30), <2>3
  <2> QED
    BY <2>1, <2>2, <2>4 DEF PointersOk
<1>17. ListsOk(d, f2, h2)
  <2> SUFFICES ASSUME NEW t \in Sizes, NEW b
               PROVE  /\ Once(f2[t])
                      /\ Has(f2[t], b) <=> b \notin h2 /\ Owned(d, h2, t, b)
    BY DEF ListsOk
  <2>1. Owned(d, h2, t, b) <=> Owned(d, h, t, b)
    BY <1>6, <1>8 DEF Owned
  <2>2. CASE t = s
    <3>1. f2[t] = Tail(f[s])
      BY <1>2, <2>2
    <3> QED
      BY <1>3, <1>4, <2>1, <2>2, <3>1
  <2>3. CASE t # s
    <3>1. f2[t] = f[t]
      BY <1>2, <2>3
    <3>2. Once(f[t]) /\ (Has(f[t], b) <=> b \notin h /\ Owned(d, h, t, b))
      BY <1>1 DEF ListsOk
    <3>3. Owned(d, h, t, b) => b # node
      BY <1>6, <1>7, <2>3 DEF Owned
    <3> QED
      BY <2>1, <3>1, <3>2, <3>3
  <2> QED
    BY <2>2, <2>3
<1>18. CountsOk(d, c2, h2)
  <2> SUFFICES ASSUME NEW ptr \in h2, ptr[2] # 0
               PROVE  c2[ptr[1]] = Cardinality(A!BlocksOf(ptr[1], d[ptr[1]]) \ h2)
    BY DEF CountsOk
  <2>1. CASE ptr[1] = p
    BY <1>7, <1>10, <1>13, <1>14, <2>1
  <2>2. CASE ptr[1] # p
    <3>1. ptr \in h /\ ptr[1] \in A!Pages
      BY <1>6, <2>2, OnlyLarge
    <3>2. node \notin A!BlocksOf(ptr[1], d[ptr[1]])
      BY <1>7, <2>2 DEF A!BlocksOf
    <3>3. A!BlocksOf(ptr[1], d[ptr[1]]) \ h2 = A!BlocksOf(ptr[1], d[ptr[1]]) \ h
      BY <3>2
    <3> QED
      BY <1>1, <1>10, <2>2, <3>1, <3>3 DEF CountsOk
  <2> QED
    BY <2>1, <2>2
<1> QED
  BY <1>15, <1>16, <1>17, <1>18 DEF Accounts

\* The blocks of a new page, behind the first one that goes out.
LEMMA NewListIs ==
    ASSUME NEW p \in A!Pages, NEW n \in Nat \ {0}, NEW list, list = [i \in 1 .. n - 1 |-> <<p, n - i>>]
    PROVE  /\ list \in Seq(Ptrs) /\ Once(list)
           /\ \A b : Has(list, b) <=> b \in Ptrs /\ b[1] = p /\ b[2] \in 1 .. n /\ b # <<p, n>>
<1>1. list \in Seq(Ptrs) /\ Len(list) = n - 1 /\ \A i \in 1 .. n - 1 : list[i] = <<p, n - i>>
  <2>1. \A i \in 1 .. n - 1 : <<p, n - i>> \in Ptrs
    BY DEF Ptrs
  <2>2. PICK m \in Nat : m = n - 1
    OBVIOUS
  <2>3. list \in [1 .. m -> Ptrs] /\ \A i \in 1 .. m : list[i] = <<p, n - i>>
    BY <2>1, <2>2
  <2>4. list \in Seq(Ptrs)
    <3>1. list \in UNION {[1 .. k -> Ptrs] : k \in Nat}
      BY <2>2, <2>3
    <3> QED
      BY <3>1, SeqDef, Zenon
  <2>5. Len(list) = m
    <3>1. DOMAIN list = 1 .. m /\ DOMAIN list = 1 .. Len(list) /\ Len(list) \in Nat
      BY <2>3, <2>4, LenProperties
    <3> QED
      BY <2>2, <3>1
  <2> QED
    BY <2>2, <2>3, <2>4, <2>5
<1>2. Once(list)
  BY <1>1 DEF Once
<1>3. ASSUME NEW b, Has(list, b)
      PROVE  b \in Ptrs /\ b[1] = p /\ b[2] \in 1 .. n /\ b # <<p, n>>
  <2>1. PICK i \in 1 .. n - 1 : b = <<p, n - i>>
    BY <1>1, <1>3 DEF Has
  <2> QED
    BY <2>1 DEF Ptrs
<1>4. ASSUME NEW b, b \in Ptrs, b[1] = p, b[2] \in 1 .. n, b # <<p, n>>
      PROVE  Has(list, b)
  <2>1. b = <<p, b[2]>> /\ b[2] # n
    BY <1>4 DEF Ptrs
  <2>2. n - b[2] \in 1 .. n - 1 /\ n - (n - b[2]) = b[2]
    BY <1>4, <2>1
  <2>3. list[n - b[2]] = b
    BY <1>1, <2>1, <2>2
  <2> QED
    BY <1>1, <2>2, <2>3 DEF Has
<1> QED
  BY <1>1, <1>2, <1>3, <1>4

\* A new page for blocks of size s.
LEMMA ArenaFills ==
    ASSUME A!ArenaAssumption, NEW u, NEW d, NEW c, NEW f, NEW h, Accounts(u, d, c, f, h),
           NEW u2, NEW d2, NEW c2, NEW f2, NEW h2, NEW s \in Sizes, f[s] = << >>,
           NEW p \in A!Pages, p \notin u, NEW n, n = A!TotalBlock[s],
           u2 = u \cup {p}, d2 = [d EXCEPT ![p] = s], c2 = [c EXCEPT ![p] = n - 1],
           NEW list, list = [i \in 1 .. n - 1 |-> <<p, n - i>>], f2 = [f EXCEPT ![s] = list],
           h2 = h \cup {<<p, n>>}
    PROVE  Accounts(u2, d2, c2, f2, h2)
<1>1. Typed(u, d, c, f, h) /\ PointersOk(u, d, c, h) /\ ListsOk(d, f, h) /\ CountsOk(d, c, h)
  BY DEF Accounts
<1>2. n \in Nat \ {0} /\ s # A!Large /\ n - 1 \in Nat
  BY ArenaAssumed
<1>3. /\ d \in [A!Pages -> Sizes \cup {A!Large}] /\ c \in [A!Pages -> Nat] /\ u \subseteq A!Pages
      /\ h \subseteq Ptrs /\ f \in [Sizes -> Seq(Ptrs)]
  BY <1>1 DEF Typed
<1>4. \A ptr \in h : ptr[1] \in u /\ ptr[1] # p /\ ptr[1] \in A!Pages
  BY OnlyLarge
<1>5. PICK new : new = <<p, n>>
  OBVIOUS
<1>6. /\ d2[p] = s /\ c2[p] = n - 1
      /\ \A q \in A!Pages : q # p => d2[q] = d[q] /\ c2[q] = c[q]
      /\ new[1] = p /\ new[2] = n /\ h2 = h \cup {new} /\ new \in Ptrs
  BY <1>2, <1>3, <1>5 DEF Ptrs
<1>7. Span(d2, c2, new) = {p} /\ \A ptr \in h : Span(d2, c2, ptr) = Span(d, c, ptr)
  BY <1>2, <1>4, <1>6 DEF Span
<1>8. /\ list \in Seq(Ptrs) /\ Once(list)
      /\ \A b : Has(list, b) <=> b \in Ptrs /\ b[1] = p /\ b[2] \in 1 .. n /\ b # new
  BY <1>2, <1>5, NewListIs
<1>9. f2[s] = list /\ \A t \in Sizes : t # s => f2[t] = f[t]
  BY <1>3, <1>5
<1>10. Typed(u2, d2, c2, f2, h2)
  <2>1. d2 \in [A!Pages -> Sizes \cup {A!Large}]
    BY <1>3
  <2>2. c2 \in [A!Pages -> Nat]
    BY <1>2, <1>3
  <2>3. f2 \in [Sizes -> Seq(Ptrs)]
    BY <1>3, <1>5, <1>8
  <2> QED
    BY <1>3, <1>6, <2>1, <2>2, <2>3 DEF Typed
<1>11. PointersOk(u2, d2, c2, h2)
  <2>1. \A ptr \in h2 :
        /\ Span(d2, c2, ptr) \subseteq u2 /\ ptr[1] \in Span(d2, c2, ptr)
        /\ ptr[2] = 0 <=> d2[ptr[1]] = A!Large
        /\ ptr[2] # 0 => ptr[2] \in 1 .. A!TotalBlock[d2[ptr[1]]]
    <3>1. \A ptr \in h :
        /\ Span(d2, c2, ptr) \subseteq u2 /\ ptr[1] \in Span(d2, c2, ptr)
        /\ ptr[2] = 0 <=> d2[ptr[1]] = A!Large
        /\ ptr[2] # 0 => ptr[2] \in 1 .. A!TotalBlock[d2[ptr[1]]]
      BY <1>1, <1>4, <1>6, <1>7 DEF PointersOk
    <3>2. Span(d2, c2, new) \subseteq u2 /\ new[1] \in Span(d2, c2, new)
      BY <1>6, <1>7
    <3>3. d2[new[1]] # A!Large /\ new[2] # 0
      BY <1>2, <1>6
    <3>4. d2[new[1]] = s /\ n \in 1 .. n /\ new[2] \in 1 .. A!TotalBlock[s]
      BY <1>2, <1>6
    <3> QED
      BY <1>6, <3>1, <3>2, <3>3, <3>4
  <2>2. \A q \in u2 : \E ptr \in h2 : q \in Span(d2, c2, ptr)
    BY <1>1, <1>6, <1>7 DEF PointersOk
  <2>3. ASSUME NEW ptr \in h2, NEW q \in h2, ptr[2] = 0, ptr # q
        PROVE  Span(d2, c2, ptr) \cap Span(d2, c2, q) = {}
    <3>1. ptr \in h
      BY <1>2, <1>6, <2>3
    <3>2. CASE q = new
      <4>1. Span(d, c, ptr) \subseteq u
        BY <1>1, <3>1 DEF PointersOk
      <4> QED
        BY <1>7, <3>1, <3>2, <4>1
    <3>3. CASE q \in h
      <4>1. Span(d, c, ptr) \cap Span(d, c, q) = {}
        BY <1>1, <2>3, <3>1, <3>3 DEF PointersOk
      <4> QED
        BY <1>7, <3>1, <3>3, <4>1
    <3> QED
      BY <1>6, <3>2, <3>3
  <2>4. \A ptr, q \in h2 : ptr[2] = 0 /\ ptr # q => Span(d2, c2, ptr) \cap Span(d2, c2, q) = {}
    BY ZenonT(30), <2>3
  <2> QED
    BY <2>1, <2>2, <2>4 DEF PointersOk
<1>12. ListsOk(d2, f2, h2)
  <2> SUFFICES ASSUME NEW t \in Sizes, NEW b
               PROVE  /\ Once(f2[t])
                      /\ Has(f2[t], b) <=> b \notin h2 /\ Owned(d2, h2, t, b)
    BY DEF ListsOk
  <2>1. Once(f[t]) /\ (Has(f[t], b) <=> b \notin h /\ Owned(d, h, t, b))
    BY <1>1 DEF ListsOk
  <2>2. b \in Ptrs /\ b[1] # p => b # new /\ (Owned(d2, h2, t, b) <=> Owned(d, h, t, b))
    BY <1>6 DEF Owned, Ptrs
  <2>3. Owned(d, h, t, b) => b \in Ptrs /\ b[1] # p
    BY <1>4 DEF Owned
  <2>4. Owned(d2, h2, t, b) => b \in Ptrs
    BY DEF Owned
  <2>5. b[1] = p => b \notin h
    BY <1>4
  <2>6. CASE t = s
    <3>1. ~Has(f[s], b)
      <4>1. Len(f[s]) = 0 /\ 1 .. Len(f[s]) = {}
        OBVIOUS
      <4> QED
        BY <4>1 DEF Has
    <3>2. CASE b[1] = p
      <4>1. Owned(d2, h2, t, b) <=> b \in Ptrs /\ b[2] \in 1 .. n
        BY <1>6, <2>6, <3>2 DEF Owned
      <4> QED
        BY <1>6, <1>8, <1>9, <2>5, <2>6, <3>2, <4>1
    <3>3. CASE b[1] # p
      BY <1>6, <1>8, <1>9, <2>1, <2>2, <2>4, <2>6, <3>1, <3>3
    <3> QED
      BY <3>2, <3>3
  <2>7. CASE t # s
    <3>1. b[1] = p => ~Owned(d2, h2, t, b)
      BY <1>6, <2>7 DEF Owned
    <3>2. f2[t] = f[t]
      BY <1>9, <2>7
    <3> QED
      BY <1>6, <2>1, <2>2, <2>3, <2>4, <3>1, <3>2
  <2> QED
    BY <2>6, <2>7
<1>13. CountsOk(d2, c2, h2)
  <2> SUFFICES ASSUME NEW ptr \in h2, ptr[2] # 0
               PROVE  c2[ptr[1]] = Cardinality(A!BlocksOf(ptr[1], d2[ptr[1]]) \ h2)
    BY DEF CountsOk
  <2>1. CASE ptr = new
    <3>1. PICK blocks : blocks = A!BlocksOf(p, s)
      OBVIOUS
    <3>2. /\ IsFiniteSet(blocks) /\ Cardinality(blocks) = n /\ new \in blocks
          /\ \A b \in blocks : b[1] = p
      BY <1>2, <1>6, <3>1, BlocksAre
    <3>3. blocks \ h2 = blocks \ {new}
      BY <1>4, <1>6, <3>2
    <3>4. Cardinality(blocks \ {new}) = n - 1
      BY <3>2, FS_RemoveElement
    <3> QED
      BY <1>6, <2>1, <3>1, <3>3, <3>4
  <2>2. CASE ptr \in h
    <3>1. d2[ptr[1]] = d[ptr[1]] /\ c2[ptr[1]] = c[ptr[1]]
      BY <1>4, <1>6, <2>2
    <3>2. new \notin A!BlocksOf(ptr[1], d[ptr[1]])
      BY <1>4, <1>5, <2>2 DEF A!BlocksOf
    <3>3. A!BlocksOf(ptr[1], d[ptr[1]]) \ h2 = A!BlocksOf(ptr[1], d[ptr[1]]) \ h
      BY <1>6, <3>2
    <3> QED
      BY <1>1, <2>2, <3>1, <3>3 DEF CountsOk
  <2> QED
    BY <1>6, <2>1, <2>2
<1> QED
  BY <1>10, <1>11, <1>12, <1>13 DEF Accounts

\* A block goes back, and its page with it when it was the last in use.
LEMMA ArenaFreesBlock ==
    ASSUME A!ArenaAssumption, NEW u, NEW d, NEW c, NEW f, NEW h, Accounts(u, d, c, f, h),
           NEW u2, NEW c2, NEW f2, NEW h2, NEW node \in h, NEW p, p = node[1], NEW s, s = d[p], s # A!Large,
           NEW list, list = <<node>> \o f[s], NEW empty \in BOOLEAN, empty <=> c[p] + 1 = A!TotalBlock[s],
           NEW remain, remain = (IF empty THEN A!Removed(list, p, s)[A!TotalBlock[s]] ELSE list),
           u2 = IF empty THEN u \ {p} ELSE u, c2 = [c EXCEPT ![p] = c[p] + 1],
           f2 = [f EXCEPT ![s] = remain],
           h2 = h \ {node}
    PROVE  Accounts(u2, d, c2, f2, h2)
<1>1. Typed(u, d, c, f, h) /\ PointersOk(u, d, c, h) /\ ListsOk(d, f, h) /\ CountsOk(d, c, h)
  BY DEF Accounts
<1>2. /\ s \in Sizes /\ p \in A!Pages /\ node \in Ptrs /\ node = <<p, node[2]>>
      /\ node[2] \in 1 .. A!TotalBlock[s] /\ Span(d, c, node) = {p} /\ p \in u
  BY OnlyLarge
<1>3. /\ d \in [A!Pages -> Sizes \cup {A!Large}] /\ c \in [A!Pages -> Nat] /\ u \subseteq A!Pages
      /\ h \subseteq Ptrs /\ f \in [Sizes -> Seq(Ptrs)] /\ f[s] \in Seq(Ptrs)
  BY <1>1, <1>2 DEF Typed
<1>4. Once(f[s]) /\ \A b : Has(f[s], b) <=> b \notin h /\ Owned(d, h, s, b)
  BY <1>1, <1>2 DEF ListsOk
<1>5. /\ list \in Seq(Ptrs) /\ Once(list)
      /\ \A b : Has(list, b) <=> Has(f[s], b) \/ b = node
  <2>1. ~ Has(f[s], node)
    BY <1>4
  <2> QED
    BY <1>2, <1>3, <1>4, <2>1, PushElements
<1>6. PICK blocks, n : blocks = A!BlocksOf(p, s) /\ n = A!TotalBlock[s]
  OBVIOUS
<1>7. /\ IsFiniteSet(blocks) /\ Cardinality(blocks) = n /\ node \in blocks /\ blocks \subseteq Ptrs
      /\ \A b : b \in blocks <=> b \in Ptrs /\ b[1] = p /\ b[2] \in 1 .. n
  BY <1>2, <1>6, BlocksAre
<1>8. node[2] # 0 /\ n \in Nat
  BY <1>2, <1>6, ArenaAssumed
<1>9. IsFiniteSet(blocks \ h2) /\ Cardinality(blocks \ h2) = c[p] + 1
  <2>1. c[p] = Cardinality(blocks \ h)
    BY <1>1, <1>6, <1>8 DEF CountsOk
  <2>2. blocks \ h2 = (blocks \ h) \cup {node} /\ node \notin blocks \ h
    BY <1>7
  <2>3. PICK rest : rest = blocks \ h
    OBVIOUS
  <2>4. IsFiniteSet(rest)
    BY <1>7, <2>3, FS_Subset
  <2>5. IsFiniteSet(rest \cup {node}) /\ Cardinality(rest \cup {node}) = Cardinality(rest) + 1
    BY <2>2, <2>3, <2>4, FS_AddElement
  <2> QED
    BY <2>1, <2>2, <2>3, <2>5
<1>10. \A ptr \in h2 : ptr \in h /\ ptr # node /\ Span(d, c2, ptr) = Span(d, c, ptr) /\ ptr[1] \in A!Pages
  <2> SUFFICES ASSUME NEW ptr \in h2
               PROVE  ptr \in h /\ ptr # node /\ Span(d, c2, ptr) = Span(d, c, ptr) /\ ptr[1] \in A!Pages
    OBVIOUS
  <2>1. ptr \in h /\ ptr # node /\ ptr[1] \in A!Pages
    BY OnlyLarge
  <2>2. ptr[1] # p => c2[ptr[1]] = c[ptr[1]]
    BY <1>3, <2>1
  <2> QED
    BY <2>1, <2>2 DEF Span
<1>11. ~empty => \E on \in h2 : on[1] = p
  <2> SUFFICES ASSUME ~empty
               PROVE  \E on \in h2 : on[1] = p
    OBVIOUS
  <2>1. blocks \ h2 # blocks
    BY <1>6, <1>7, <1>9
  <2>2. PICK on : on \in blocks /\ on \in h2
    BY <2>1
  <2> QED
    BY <1>7, <2>2
<1>12. empty => \A ptr \in h2 : ptr[1] # p
  <2> SUFFICES ASSUME empty, NEW ptr \in h2, ptr[1] = p
               PROVE  FALSE
    OBVIOUS
  <2>1. ptr \in blocks
    BY <1>6, <1>10, OnlyLarge
  <2>2. blocks \ h2 \subseteq blocks /\ Cardinality(blocks \ h2) = Cardinality(blocks)
    BY <1>6, <1>7, <1>9
  <2>3. blocks \ h2 = blocks
    BY <1>7, <2>2, FS_Subset
  <2> QED
    BY <2>1, <2>3
<1>13. c2[p] = c[p] + 1 /\ c[p] \in Nat /\ \A q \in A!Pages : q # p => c2[q] = c[q]
  BY <1>2, <1>3
<1>14. remain = f2[s]
  BY <1>2, <1>3
<1>15. \A t \in Sizes : t # s => f2[t] = f[t]
  BY <1>3
<1>16. /\ remain \in Seq(Ptrs) /\ Once(remain)
       /\ \A b : Has(remain, b) <=> Has(list, b) /\ (empty => \A j \in 1 .. n : b # <<p, j>>)
  <2>1. CASE empty
    <3>1. list \in FreeLists
      BY <1>5 DEF FreeLists
    <3>2. /\ remain \in FreeLists
          /\ \A b : Has(remain, b) <=> Has(list, b) /\ \A j \in 1 .. n : b # <<p, j>>
      BY <1>2, <1>6, <1>15, <2>1, <3>1, RemovedIs
    <3> QED
      BY <2>1, <3>2 DEF FreeLists
  <2>2. CASE ~empty
    BY <1>5, <1>15, <2>2
  <2> QED
    BY <2>1, <2>2
<1>17. Typed(u2, d, c2, f2, h2)
  <2>1. c2 \in [A!Pages -> Nat]
    BY <1>3, <1>13
  <2>2. f2 \in [Sizes -> Seq(Ptrs)]
    BY <1>3, <1>16
  <2>3. u2 \subseteq A!Pages /\ h2 \subseteq Ptrs
    BY <1>3
  <2> QED
    BY <1>3, <2>1, <2>2, <2>3 DEF Typed
<1>18. PointersOk(u2, d, c2, h2)
  <2>1. ASSUME NEW ptr \in h2
        PROVE  /\ Span(d, c2, ptr) \subseteq u2 /\ ptr[1] \in Span(d, c2, ptr)
               /\ ptr[2] = 0 <=> d[ptr[1]] = A!Large
               /\ ptr[2] # 0 => ptr[2] \in 1 .. A!TotalBlock[d[ptr[1]]]
    <3>1. Span(d, c, ptr) \subseteq u /\ Span(d, c2, ptr) = Span(d, c, ptr) /\ ptr \in h /\ ptr # node
      BY <1>1, <1>10 DEF PointersOk
    <3>2. empty => p \notin Span(d, c, ptr)
      <4>1. CASE d[ptr[1]] = A!Large
        <5>1. ptr[2] = 0
          BY <3>1, <4>1, OnlyLarge
        <5>2. Span(d, c, ptr) \cap Span(d, c, node) = {}
          BY <1>1, <3>1, <5>1 DEF PointersOk
        <5> QED
          BY <1>2, <5>2
      <4>2. CASE d[ptr[1]] # A!Large
        BY <1>12, <4>2 DEF Span
      <4> QED
        BY <4>1, <4>2
    <3>3. Span(d, c2, ptr) \subseteq u2
      BY <3>1, <3>2
    <3>4. /\ ptr[1] \in Span(d, c, ptr)
          /\ ptr[2] = 0 <=> d[ptr[1]] = A!Large
          /\ ptr[2] # 0 => ptr[2] \in 1 .. A!TotalBlock[d[ptr[1]]]
      BY <1>1, <3>1 DEF PointersOk
    <3> QED
      BY <3>1, <3>3, <3>4
  <2>2. ASSUME NEW q \in u2
        PROVE  \E ptr \in h2 : q \in Span(d, c2, ptr)
    <3>1. q \in u
      OBVIOUS
    <3>2. PICK ptr \in h : q \in Span(d, c, ptr)
      BY <1>1, <3>1 DEF PointersOk
    <3>3. CASE ptr # node
      BY <1>10, <3>2, <3>3
    <3>4. CASE ptr = node
      <4>1. q = p /\ ~empty
        BY <1>2, <3>2, <3>4
      <4>2. PICK on \in h2 : on[1] = p
        BY <1>11, <4>1
      <4>3. Span(d, c2, on) = {p}
        BY <4>2 DEF Span
      <4> QED
        BY <4>1, <4>2, <4>3
    <3> QED
      BY <3>3, <3>4
  <2>3. ASSUME NEW ptr \in h2, NEW q \in h2, ptr[2] = 0, ptr # q
        PROVE  Span(d, c2, ptr) \cap Span(d, c2, q) = {}
    <3>1. ptr \in h /\ q \in h
      BY <1>10
    <3>2. Span(d, c, ptr) \cap Span(d, c, q) = {}
      BY <1>1, <2>3, <3>1 DEF PointersOk
    <3> QED
      BY <1>10, <3>2
  <2>4. \A ptr \in h2 :
        /\ Span(d, c2, ptr) \subseteq u2 /\ ptr[1] \in Span(d, c2, ptr)
        /\ ptr[2] = 0 <=> d[ptr[1]] = A!Large
        /\ ptr[2] # 0 => ptr[2] \in 1 .. A!TotalBlock[d[ptr[1]]]
    BY <2>1
  <2>5. \A ptr, q \in h2 : ptr[2] = 0 /\ ptr # q => Span(d, c2, ptr) \cap Span(d, c2, q) = {}
    BY <2>3
  <2>6. \A q \in u2 : \E ptr \in h2 : q \in Span(d, c2, ptr)
    BY <2>2
  <2> QED
    BY <2>4, <2>5, <2>6 DEF PointersOk
<1>19. ListsOk(d, f2, h2)
  <2> SUFFICES ASSUME NEW t \in Sizes, NEW b
               PROVE  /\ Once(f2[t])
                      /\ Has(f2[t], b) <=> b \notin h2 /\ Owned(d, h2, t, b)
    BY DEF ListsOk
  <2>1. b[1] # p => (Owned(d, h2, t, b) <=> Owned(d, h, t, b)) /\ b # node
    BY <1>2 DEF Owned
  <2>2. b # node => (b \in h2 <=> b \in h)
    OBVIOUS
  <2>3. CASE t # s
    <3>1. f2[t] = f[t] /\ Once(f[t]) /\ (Has(f[t], b) <=> b \notin h /\ Owned(d, h, t, b))
      BY <1>1, <1>15, <2>3 DEF ListsOk
    <3>2. b[1] = p => ~Owned(d, h, t, b) /\ ~Owned(d, h2, t, b)
      BY <2>3 DEF Owned
    <3> QED
      BY <2>1, <2>2, <3>1, <3>2
  <2>4. CASE t = s /\ ~empty
    <3>1. PICK on \in h2 : on[1] = p
      BY <1>11, <2>4
    <3>2. Owned(d, h2, t, b) <=> Owned(d, h, t, b)
      <4>1. (\E ptr \in h : ptr[1] = b[1]) <=> (\E ptr \in h2 : ptr[1] = b[1])
        BY <3>1
      <4> QED
        BY <4>1 DEF Owned
    <3>3. Owned(d, h, t, node)
      BY <1>2, <2>4 DEF Owned
    <3>4. Once(remain) /\ (Has(remain, b) <=> Has(f[s], b) \/ b = node)
      BY <1>5, <1>16, <2>4
    <3>5. Has(f[s], b) <=> b \notin h /\ Owned(d, h, s, b)
      BY <1>4
    <3>6. b \notin h2 <=> b \notin h \/ b = node
      OBVIOUS
    <3> QED
      BY <1>14, <2>4, <3>2, <3>3, <3>4, <3>5, <3>6
  <2>5. CASE t = s /\ empty
    <3>1. Once(remain) /\ (Has(remain, b) <=> Has(list, b) /\ \A j \in 1 .. n : b # <<p, j>>)
      BY <1>16, <2>5
    <3>2. Has(list, b) <=> (b \notin h /\ Owned(d, h, s, b)) \/ b = node
      BY <1>4, <1>5
    <3>3. CASE b[1] = p
      <4>1. ~Owned(d, h2, s, b)
        BY <1>12, <2>5, <3>3 DEF Owned
      <4>2. Owned(d, h, s, b) \/ b = node => b[2] \in 1 .. n /\ b = <<p, b[2]>>
        BY <1>2, <1>6, <3>3 DEF Owned, Ptrs
      <4> QED
        BY <1>14, <2>5, <3>1, <3>2, <4>1, <4>2
    <3>4. CASE b[1] # p
      <4>1. \A j \in 1 .. n : b # <<p, j>>
        BY <3>4
      <4> QED
        BY <1>14, <2>1, <2>2, <2>5, <3>1, <3>2, <3>4, <4>1
    <3> QED
      BY <3>3, <3>4
  <2> QED
    BY <2>3, <2>4, <2>5
<1>20. CountsOk(d, c2, h2)
  <2> SUFFICES ASSUME NEW ptr \in h2, ptr[2] # 0
               PROVE  c2[ptr[1]] = Cardinality(A!BlocksOf(ptr[1], d[ptr[1]]) \ h2)
    BY DEF CountsOk
  <2>1. CASE ptr[1] = p
    BY <1>6, <1>9, <1>13, <2>1
  <2>2. CASE ptr[1] # p
    <3>1. node \notin A!BlocksOf(ptr[1], d[ptr[1]])
      BY <2>2 DEF A!BlocksOf
    <3>2. A!BlocksOf(ptr[1], d[ptr[1]]) \ h2 = A!BlocksOf(ptr[1], d[ptr[1]]) \ h
      BY <3>1
    <3> QED
      BY <1>1, <1>10, <1>13, <2>2, <3>2 DEF CountsOk
  <2> QED
    BY <2>1, <2>2
<1> QED
  BY <1>17, <1>18, <1>19, <1>20 DEF Accounts

\* A large piece goes back.
LEMMA ArenaFreesLarge ==
    ASSUME A!ArenaAssumption, NEW u, NEW d, NEW c, NEW f, NEW h, Accounts(u, d, c, f, h),
           NEW u2, NEW h2, NEW piece \in h, NEW p, p = piece[1], d[p] = A!Large,
           u2 = u \ (p .. p + c[p] - 1), h2 = h \ {piece}
    PROVE  Accounts(u2, d, c, f, h2)
<1>1. Typed(u, d, c, f, h) /\ PointersOk(u, d, c, h) /\ ListsOk(d, f, h) /\ CountsOk(d, c, h)
  BY DEF Accounts
<1>2. piece[2] = 0 /\ Span(d, c, piece) = p .. p + c[p] - 1
  BY OnlyLarge
<1>3. u2 = u \ Span(d, c, piece)
  BY <1>2
<1>4. \A ptr \in h : ptr # piece => Span(d, c, piece) \cap Span(d, c, ptr) = {}
  BY <1>1, <1>2 DEF PointersOk
<1>5. Typed(u2, d, c, f, h2)
  BY <1>1 DEF Typed
<1>6. PointersOk(u2, d, c, h2)
  <2>1. ASSUME NEW ptr \in h2
        PROVE  /\ Span(d, c, ptr) \subseteq u2 /\ ptr[1] \in Span(d, c, ptr)
               /\ ptr[2] = 0 <=> d[ptr[1]] = A!Large
               /\ ptr[2] # 0 => ptr[2] \in 1 .. A!TotalBlock[d[ptr[1]]]
    <3>1. /\ Span(d, c, ptr) \subseteq u /\ ptr[1] \in Span(d, c, ptr)
          /\ ptr[2] = 0 <=> d[ptr[1]] = A!Large
          /\ ptr[2] # 0 => ptr[2] \in 1 .. A!TotalBlock[d[ptr[1]]]
      BY <1>1 DEF PointersOk
    <3>2. Span(d, c, piece) \cap Span(d, c, ptr) = {}
      BY <1>4
    <3>3. Span(d, c, ptr) \subseteq u2
      BY <1>3, <3>1, <3>2
    <3> QED
      BY <3>1, <3>3
  <2>2. \A q \in u2 : \E ptr \in h2 : q \in Span(d, c, ptr)
    BY <1>1, <1>3 DEF PointersOk
  <2>3. \A ptr, q \in h2 : ptr[2] = 0 /\ ptr # q => Span(d, c, ptr) \cap Span(d, c, q) = {}
    BY <1>1 DEF PointersOk
  <2>4. \A ptr \in h2 :
        /\ Span(d, c, ptr) \subseteq u2 /\ ptr[1] \in Span(d, c, ptr)
        /\ ptr[2] = 0 <=> d[ptr[1]] = A!Large
        /\ ptr[2] # 0 => ptr[2] \in 1 .. A!TotalBlock[d[ptr[1]]]
    BY <2>1
  <2> QED
    BY <2>2, <2>3, <2>4 DEF PointersOk
<1>7. ListsOk(d, f, h2)
  <2> SUFFICES ASSUME NEW s \in Sizes, NEW b
               PROVE  /\ Once(f[s])
                      /\ Has(f[s], b) <=> b \notin h2 /\ Owned(d, h2, s, b)
    BY DEF ListsOk
  <2>1. Once(f[s]) /\ (Has(f[s], b) <=> b \notin h /\ Owned(d, h, s, b)) /\ s # A!Large
    BY <1>1, ArenaAssumed DEF ListsOk
  <2>2. d[b[1]] = s => b[1] # p /\ b # piece
    BY <2>1
  <2>3. Owned(d, h2, s, b) <=> Owned(d, h, s, b)
    <3>1. d[b[1]] = s => ((\E ptr \in h : ptr[1] = b[1]) <=> (\E ptr \in h2 : ptr[1] = b[1]))
      BY <2>2
    <3> QED
      BY <3>1 DEF Owned
  <2>4. Owned(d, h, s, b) => (b \in h2 <=> b \in h)
    BY <2>2 DEF Owned
  <2> QED
    BY <2>1, <2>3, <2>4
<1>8. CountsOk(d, c, h2)
  <2> SUFFICES ASSUME NEW ptr \in h2, ptr[2] # 0
               PROVE  c[ptr[1]] = Cardinality(A!BlocksOf(ptr[1], d[ptr[1]]) \ h2)
    BY DEF CountsOk
  <2>1. ptr[1] # p
    BY <1>1 DEF PointersOk
  <2>2. piece \notin A!BlocksOf(ptr[1], d[ptr[1]])
    BY <2>1 DEF A!BlocksOf
  <2>3. A!BlocksOf(ptr[1], d[ptr[1]]) \ h2 = A!BlocksOf(ptr[1], d[ptr[1]]) \ h
    BY <2>2
  <2> QED
    BY <1>1, <2>3 DEF CountsOk
<1> QED
  BY <1>5, <1>6, <1>7, <1>8 DEF Accounts

LEMMA ArenaTakesStep ==
    ASSUME A!ArenaAssumption, ArenaInv, NEW s \in Sizes, A!kmalloc(s)
    PROVE  Accounts(used, desc, count, free_list, held)'
<1>1. Accounts(used, desc, count, free_list, held)
  BY DEF ArenaInv
<1>2. CASE free_list[s] # << >>
  <2>1. PICK node : node = Head(free_list[s])
    OBVIOUS
  <2>2. /\ free_list' = [free_list EXCEPT ![s] = Tail(free_list[s])]
        /\ count' = [count EXCEPT ![node[1]] = count[node[1]] - 1]
        /\ held' = held \cup {node} /\ used' = used /\ desc' = desc
    BY <1>2, <2>1 DEF A!kmalloc
  <2> QED
    BY <1>1, <1>2, <2>1, <2>2, ArenaTakes
<1>3. CASE free_list[s] = << >>
  <2>1. PICK p, n, list : p = A!First(1) /\ n = A!TotalBlock[s] /\ list = [i \in 1 .. n - 1 |-> <<p, n - i>>]
    OBVIOUS
  <2>2. /\ A!Fits(1) # {} /\ used' = used \cup {p} /\ desc' = [desc EXCEPT ![p] = s]
        /\ count' = [count EXCEPT ![p] = n - 1] /\ held' = held \cup {<<p, n>>}
        /\ free_list' = [free_list EXCEPT ![s] = list]
    BY <1>3, <2>1 DEF A!kmalloc
  <2>3. p \in A!Pages /\ p \notin used
    BY <2>1, <2>2, FirstFits
  <2> QED
    BY ZenonT(30), <1>1, <1>3, <2>1, <2>2, <2>3, ArenaFills
<1> QED
  BY <1>2, <1>3

LEMMA ArenaFreesStep ==
    ASSUME A!ArenaAssumption, ArenaInv, NEW ptr \in held, A!kfree(ptr)
    PROVE  Accounts(used, desc, count, free_list, held)'
<1>1. Accounts(used, desc, count, free_list, held)
  BY DEF ArenaInv
<1>2. PICK p, s : p = ptr[1] /\ s = desc[p]
  OBVIOUS
<1>3. held' = held \ {ptr}
  BY DEF A!kfree
<1>4. CASE s = A!Large
  <2>1. used' = used \ (p .. p + count[p] - 1) /\ desc' = desc /\ count' = count /\ free_list' = free_list
    BY <1>2, <1>4 DEF A!kfree, A!kfree_large
  <2> QED
    BY <1>1, <1>2, <1>3, <1>4, <2>1, ArenaFreesLarge
<1>5. CASE s # A!Large
  <2>1. PICK list : list = <<ptr>> \o free_list[s]
    OBVIOUS
  <2>2. PICK empty \in BOOLEAN : empty <=> count[p] + 1 = A!TotalBlock[s]
    OBVIOUS
  <2>3. PICK remain : remain = (IF empty THEN A!Removed(list, p, s)[A!TotalBlock[s]] ELSE list)
    OBVIOUS
  <2>4. /\ count' = [count EXCEPT ![p] = count[p] + 1]
        /\ free_list' = [free_list EXCEPT ![s] = remain]
        /\ used' = (IF empty THEN used \ {p} ELSE used) /\ desc' = desc
    BY <1>2, <1>5, <2>1, <2>2, <2>3 DEF A!kfree, A!kfree_block
  <2> QED
    BY <1>1, <1>2, <1>3, <1>5, <2>1, <2>2, <2>3, <2>4, ArenaFreesBlock
<1> QED
  BY <1>4, <1>5

LEMMA ArenaSteps ==
    ASSUME A!ArenaAssumption, ArenaInv, [A!Next]_A!vars
    PROVE  ArenaInv'
<1> SUFFICES Accounts(used, desc, count, free_list, held)'
  BY DEF ArenaInv
<1>1. Accounts(used, desc, count, free_list, held)
  BY DEF ArenaInv
<1>2. CASE UNCHANGED A!vars
  BY <1>1, <1>2 DEF A!vars
<1>3. ASSUME NEW n \in 1 .. MaxPages, A!kmalloc_large(n)
      PROVE  Accounts(used, desc, count, free_list, held)'
  <2>1. PICK p : p = A!First(n)
    OBVIOUS
  <2>2. /\ A!Fits(n) # {} /\ used' = used \cup (p .. p + n - 1) /\ desc' = [desc EXCEPT ![p] = A!Large]
        /\ count' = [count EXCEPT ![p] = n] /\ held' = held \cup {<<p, 0>>} /\ free_list' = free_list
    BY <1>3, <2>1 DEF A!kmalloc_large
  <2>3. n \in Nat \ {0}
    BY ArenaAssumed
  <2>4. /\ p \in A!Pages /\ p .. p + n - 1 \subseteq A!Pages /\ (p .. p + n - 1) \cap used = {}
    BY <2>1, <2>2, <2>3, FirstFits
  <2> QED
    BY <1>1, <2>2, <2>3, <2>4, ArenaLarge
<1> QED
  BY <1>2, <1>3, ArenaTakesStep, ArenaFreesStep DEF A!Next

LEMMA ArenaMeans ==
    ASSUME A!ArenaAssumption, ArenaInv
    PROVE  A!BlocksAccounted
<1>0. Accounts(used, desc, count, free_list, held)
  BY DEF ArenaInv
<1>1. /\ Typed(used, desc, count, free_list, held) /\ PointersOk(used, desc, count, held)
      /\ ListsOk(desc, free_list, held) /\ CountsOk(desc, count, held)
  BY <1>0 DEF Accounts
<1>2. \A ptr : A!PagesOf(ptr) = Span(desc, count, ptr)
  BY DEF A!PagesOf, Span
<1>3. used = UNION {A!PagesOf(ptr) : ptr \in held}
  <2>1. \A q : q \in used <=> \E ptr \in held : q \in A!PagesOf(ptr)
    BY <1>1, <1>2 DEF PointersOk
  <2> QED
    BY <2>1
<1>4. \A ptr, q \in held : ptr[2] = 0 /\ ptr # q => A!PagesOf(ptr) \cap A!PagesOf(q) = {}
  BY <1>1, <1>2 DEF PointersOk
<1>5. \A s \in Sizes : DOMAIN free_list[s] = 1 .. Len(free_list[s])
  BY <1>1 DEF Typed
<1>6. \A s \in Sizes : \A b : b \in A!ToSet(free_list[s]) <=> b \notin held /\ Owned(desc, held, s, b)
  <2> SUFFICES ASSUME NEW s \in Sizes, NEW b
               PROVE  b \in A!ToSet(free_list[s]) <=> b \notin held /\ Owned(desc, held, s, b)
    OBVIOUS
  <2>1. b \in A!ToSet(free_list[s]) <=> Has(free_list[s], b)
    BY <1>5 DEF A!ToSet, Has
  <2> QED
    BY <1>1, <2>1 DEF ListsOk
<1>7. ASSUME NEW s \in Sizes
      PROVE  LET pages == {p \in used : desc[p] = s /\ \E ptr \in held : ptr[1] = p}
             IN  /\ A!IsInjective(free_list[s])
                 /\ A!ToSet(free_list[s]) = (UNION {A!BlocksOf(p, s) : p \in pages}) \ held
  <2> DEFINE pages == {p \in used : desc[p] = s /\ \E ptr \in held : ptr[1] = p}
  <2>1. A!IsInjective(free_list[s])
    <3>1. Once(free_list[s])
      BY <1>1 DEF ListsOk
    <3> QED
      BY <1>5, <3>1 DEF A!IsInjective, Once
  <2>2. \A p : p \in pages <=> p \in A!Pages /\ desc[p] = s /\ \E ptr \in held : ptr[1] = p
    BY <1>0, <1>1, OnlyLarge DEF Typed
  <2>3. ASSUME NEW b
        PROVE  Owned(desc, held, s, b) <=> \E p \in pages : b \in A!BlocksOf(p, s)
    <3>1. ASSUME NEW p \in pages
          PROVE  b \in A!BlocksOf(p, s) <=> b \in Ptrs /\ b[1] = p /\ b[2] \in 1 .. A!TotalBlock[s]
      <4>1. p \in A!Pages
        BY <2>2
      <4> QED
        BY <4>1, BlocksAre
    <3>2. b \in Ptrs => b[1] \in A!Pages
      BY DEF Ptrs
    <3> HIDE DEF pages
    <3>3. Owned(desc, held, s, b) => b[1] \in pages /\ b \in Ptrs /\ b[2] \in 1 .. A!TotalBlock[s]
      BY <2>2, <3>2 DEF Owned
    <3>4. ASSUME NEW p \in pages, b \in A!BlocksOf(p, s)
          PROVE  Owned(desc, held, s, b)
      BY <2>2, <3>1, <3>4 DEF Owned
    <3> QED
      BY <3>1, <3>3, <3>4
  <2> HIDE DEF pages
  <2>4. A!ToSet(free_list[s]) = (UNION {A!BlocksOf(p, s) : p \in pages}) \ held
    <3>1. PICK all, listed : all = UNION {A!BlocksOf(p, s) : p \in pages} /\ listed = A!ToSet(free_list[s])
      OBVIOUS
    <3>2. \A b : b \in all <=> \E p \in pages : b \in A!BlocksOf(p, s)
      BY <3>1
    <3>3. \A b : b \in listed <=> b \notin held /\ b \in all
      BY <1>6, <2>3, <3>1, <3>2
    <3>4. listed = all \ held
      BY <3>3
    <3> QED
      BY <3>1, <3>4
  <2> USE DEF pages
  <2> QED
    BY <2>1, <2>4
<1>8. ASSUME NEW ptr \in held, ptr[2] # 0
      PROVE  count[ptr[1]] = A!Cardinality({b \in A!ToSet(free_list[desc[ptr[1]]]) : b[1] = ptr[1]})
  <2>1. PICK p, s : p = ptr[1] /\ s = desc[p]
    OBVIOUS
  <2>2. s \in Sizes /\ p \in A!Pages
    <3>1. s # A!Large
      BY <1>1, <1>8, <2>1 DEF PointersOk
    <3> QED
      BY <1>0, <2>1, <3>1, OnlyLarge
  <2>3. ASSUME NEW b
        PROVE  b \in A!ToSet(free_list[s]) /\ b[1] = p <=> b \in A!BlocksOf(p, s) \ held
    <3>1. b \in A!BlocksOf(p, s) <=> b \in Ptrs /\ b[1] = p /\ b[2] \in 1 .. A!TotalBlock[s]
      BY <2>2, BlocksAre
    <3>2. b[1] = p => (Owned(desc, held, s, b) <=> b \in Ptrs /\ b[2] \in 1 .. A!TotalBlock[s])
      BY <2>1 DEF Owned
    <3> QED
      BY <1>6, <2>2, <3>1, <3>2
  <2>4. {b \in A!ToSet(free_list[s]) : b[1] = p} = A!BlocksOf(p, s) \ held
    BY <2>3
  <2>5. count[p] = Cardinality(A!BlocksOf(p, s) \ held)
    BY <1>1, <1>8, <2>1 DEF CountsOk
  <2>6. \A set : A!Cardinality(set) = Cardinality(set)
    BY DEF A!Cardinality, Cardinality
  <2> QED
    BY <2>1, <2>4, <2>5, <2>6
<1> QED
  BY <1>3, <1>4, <1>7, <1>8 DEF A!BlocksAccounted

-----------------------------------------------------------------------------
(* The console.  Where a row and a column are, counted from the window.    *)

CONSTANTS WIDTH, HEIGHT, MemSize, Chars

VARIABLES memory, screen, cursor, column, line, text, smeared

C == INSTANCE Console WITH x <- column, y <- line

Offset(r, c) == (r - 1) * WIDTH + c - 1

LEMMA ProductGrows ==
    ASSUME NEW a \in Nat, NEW b \in Nat, NEW w \in Nat, a <= b
    PROVE  a * w <= b * w
OBVIOUS

LEMMA NextMultiple ==
    ASSUME NEW a \in Int, NEW w \in Int
    PROVE  (a + 1) * w = a * w + w /\ (a - 1) * w + w = a * w
OBVIOUS

\* A cell of a screen is in the screen, and is the cell of one row and column.
LEMMA OffsetFits ==
    ASSUME C!ConsoleAssumption, NEW r \in C!Rows, NEW c \in C!Columns
    PROVE  Offset(r, c) \in 0 .. C!Scr - 1 /\ C!Scr \in Nat
<1>1. WIDTH \in Nat /\ HEIGHT \in Nat /\ r \in Nat /\ c \in Nat /\ 1 <= r /\ r <= HEIGHT /\ 1 <= c /\ c <= WIDTH
  BY DEF C!ConsoleAssumption, C!Rows, C!Columns
<1>2. r * WIDTH <= HEIGHT * WIDTH /\ (r - 1) * WIDTH \in Nat /\ HEIGHT * WIDTH \in Nat
  <2>1. r - 1 \in Nat
    BY <1>1
  <2> QED
    BY <1>1, <2>1, ProductGrows
<1>3. (r - 1) * WIDTH + WIDTH = r * WIDTH
  BY <1>1, NextMultiple
<1>4. HEIGHT * WIDTH = C!Scr
  BY <1>1 DEF C!Scr
<1> QED
  BY <1>1, <1>2, <1>3, <1>4 DEF Offset

LEMMA OffsetOfOne ==
    ASSUME C!ConsoleAssumption, NEW r \in C!Rows, NEW c \in C!Columns, NEW q \in C!Rows, NEW d \in C!Columns,
           Offset(r, c) = Offset(q, d)
    PROVE  r = q /\ c = d
<1>1. /\ WIDTH \in Nat /\ r \in Nat /\ c \in Nat /\ 1 <= r /\ 1 <= c /\ c <= WIDTH
      /\ q \in Nat /\ d \in Nat /\ 1 <= q /\ 1 <= d /\ d <= WIDTH
  BY DEF C!ConsoleAssumption, C!Rows, C!Columns
<1>2. \A i \in Nat : \A j \in Nat : i < j => i * WIDTH + WIDTH <= j * WIDTH
  <2> SUFFICES ASSUME NEW i \in Nat, NEW j \in Nat, i < j
               PROVE  i * WIDTH + WIDTH <= j * WIDTH
    OBVIOUS
  <2>1. i + 1 \in Nat /\ i + 1 <= j
    OBVIOUS
  <2>2. (i + 1) * WIDTH <= j * WIDTH
    BY <1>1, <2>1, ProductGrows
  <2> QED
    BY <1>1, <2>2, NextMultiple
<1>3. r - 1 \in Nat /\ q - 1 \in Nat /\ (r - 1) * WIDTH \in Int /\ (q - 1) * WIDTH \in Int
  BY <1>1
<1>4. ~(r - 1 < q - 1)
  <2> SUFFICES ASSUME r - 1 < q - 1
               PROVE  FALSE
    OBVIOUS
  <2>1. (r - 1) * WIDTH + WIDTH <= (q - 1) * WIDTH
    BY <1>2, <1>3
  <2> QED
    BY <1>1, <1>3, <2>1 DEF Offset
<1>5. ~(q - 1 < r - 1)
  <2> SUFFICES ASSUME q - 1 < r - 1
               PROVE  FALSE
    OBVIOUS
  <2>1. (q - 1) * WIDTH + WIDTH <= (r - 1) * WIDTH
    BY <1>2, <1>3
  <2> QED
    BY <1>1, <1>3, <2>1 DEF Offset
<1>6. r = q
  BY <1>1, <1>3, <1>4, <1>5
<1> QED
  BY <1>1, <1>3, <1>6 DEF Offset

LEMMA OffsetBelow ==
    ASSUME C!ConsoleAssumption, NEW r \in Int, NEW c \in Int
    PROVE  Offset(r + 1, c) = Offset(r, c) + WIDTH
<1>1. WIDTH \in Int /\ (r - 1) * WIDTH \in Int /\ (r + 1) - 1 = (r - 1) + 1
  BY DEF C!ConsoleAssumption
<1>2. ((r - 1) + 1) * WIDTH = (r - 1) * WIDTH + WIDTH
  BY <1>1, NextMultiple
<1> QED
  BY <1>1, <1>2 DEF Offset

\* A window is where it should be in the memory, and its cursor in it.
Cells == Chars \cup {C!Erase, C!Nul}

Good(w) ==
    /\ w.memory \in [0 .. MemSize - 1 -> Cells]
    /\ w.screen \in Nat /\ w.screen + C!Scr <= MemSize
    /\ w.x \in 0 .. WIDTH /\ w.y \in 0 .. HEIGHT - 1
    /\ w.cursor = w.screen + w.y * WIDTH + w.x

\* What a cell looks like, and what a memory shows.
Look(cell) == IF cell = C!Nul THEN C!Erase ELSE cell

Shows(mem, at, t) == \A r \in C!Rows : \A c \in C!Columns : t[r][c] = Look(mem[at + Offset(r, c)])

TextOK(t) == t \in [C!Rows -> [C!Columns -> Cells]]

ConsoleInv ==
    /\ Good(C!Window)
    /\ TextOK(text)
    /\ smeared \in BOOLEAN
    /\ ~smeared => Shows(memory, screen, text)

LEMMA SizesFit ==
    ASSUME C!ConsoleAssumption
    PROVE  /\ WIDTH \in Nat /\ 1 <= WIDTH /\ HEIGHT \in Nat /\ 1 <= HEIGHT
           /\ C!Scr \in Nat /\ WIDTH <= C!Scr /\ MemSize \in Nat /\ 2 * C!Scr <= MemSize
<1>1. WIDTH \in Nat /\ 1 <= WIDTH /\ HEIGHT \in Nat /\ 1 <= HEIGHT /\ MemSize \in Nat /\ 2 * C!Scr <= MemSize
  BY DEF C!ConsoleAssumption
<1>2. 1 * WIDTH <= HEIGHT * WIDTH /\ HEIGHT * WIDTH \in Nat /\ HEIGHT * WIDTH = C!Scr
  BY <1>1, ProductGrows DEF C!Scr
<1> QED
  BY <1>1, <1>2

LEMMA LastRow ==
    ASSUME C!ConsoleAssumption
    PROVE  (HEIGHT - 1) * WIDTH = C!Scr - WIDTH
<1>1. WIDTH \in Nat /\ HEIGHT \in Nat /\ HEIGHT - 1 \in Int /\ C!Scr \in Nat
  BY SizesFit
<1>2. (HEIGHT - 1) * WIDTH + WIDTH = HEIGHT * WIDTH /\ (HEIGHT - 1) * WIDTH \in Int
  BY <1>1, NextMultiple
<1> QED
  BY <1>1, <1>2 DEF C!Scr

-----------------------------------------------------------------------------
(* Moving the window.                                                      *)

LEMMA RewoundShows ==
    ASSUME C!ConsoleAssumption, NEW w, Good(w), NEW v, v = C!Rewound(w),
           w = [memory |-> w.memory, screen |-> w.screen, cursor |-> w.cursor, x |-> w.x, y |-> w.y]
    PROVE  /\ Good(v) /\ v.screen + C!Scr + WIDTH <= MemSize
           /\ v = [memory |-> v.memory, screen |-> v.screen, cursor |-> v.cursor, x |-> w.x, y |-> w.y]
           /\ \A t : Shows(w.memory, w.screen, t) => Shows(v.memory, v.screen, t)
<1>3. PICK s, k : s = w.screen /\ k = w.y * WIDTH
  OBVIOUS
<1>4. /\ s \in Nat /\ s + C!Scr <= MemSize /\ k \in Int /\ w.cursor = s + k + w.x
      /\ w.x \in 0 .. WIDTH /\ w.y \in 0 .. HEIGHT - 1
  <2>1. w.y \in Int /\ WIDTH \in Int
    BY SizesFit DEF Good
  <2> QED
    BY <1>3, <2>1 DEF Good
<1>1. CASE w.screen + C!Scr + WIDTH < MemSize
  <2>1. v = w
    BY <1>1 DEF C!Rewound
  <2>2. v.screen + C!Scr + WIDTH <= MemSize
    BY <1>1, <1>3, <1>4, <2>1, SizesFit
  <2> QED
    BY <2>1, <2>2
<1>2. CASE ~(w.screen + C!Scr + WIDTH < MemSize)
  <2>1. /\ v = [memory |-> v.memory, screen |-> v.screen, cursor |-> v.cursor, x |-> w.x, y |-> w.y]
        /\ v.memory = [c \in DOMAIN w.memory |-> IF c < C!Scr THEN w.memory[w.screen + c] ELSE w.memory[c]]
        /\ v.cursor = w.cursor - w.screen /\ v.screen = 0 /\ v.x = w.x /\ v.y = w.y
    BY <1>2 DEF C!Rewound
  <2>2. \A c \in 0 .. MemSize - 1 : c < C!Scr => s + c \in 0 .. MemSize - 1
    BY <1>4, SizesFit
  <2>3. v.memory \in [0 .. MemSize - 1 -> Cells]
    <3>1. DOMAIN w.memory = 0 .. MemSize - 1 /\ \A c \in 0 .. MemSize - 1 : w.memory[c] \in Cells
      BY DEF Good
    <3> QED
      BY <1>3, <2>1, <2>2, <3>1
  <2>4. v.screen = 0 /\ v.cursor = k + w.x
    BY <1>3, <1>4, <2>1
  <2>8. 0 + C!Scr <= MemSize /\ 0 + C!Scr + WIDTH <= MemSize /\ v.cursor = 0 + k + v.x
    BY <1>4, <2>1, <2>4, SizesFit
  <2>5. Good(v) /\ v.screen + C!Scr + WIDTH <= MemSize
    BY <1>3, <1>4, <2>1, <2>3, <2>4, <2>8 DEF Good
  <2>6. \A r \in C!Rows : \A c \in C!Columns : v.memory[v.screen + Offset(r, c)] = w.memory[w.screen + Offset(r, c)]
    <3> SUFFICES ASSUME NEW r \in C!Rows, NEW c \in C!Columns
                 PROVE  v.memory[v.screen + Offset(r, c)] = w.memory[w.screen + Offset(r, c)]
      OBVIOUS
    <3>1. PICK o : o = Offset(r, c)
      OBVIOUS
    <3>2. o \in 0 .. C!Scr - 1 /\ o \in 0 .. MemSize - 1
      BY <3>1, OffsetFits, SizesFit
    <3>3. DOMAIN w.memory = 0 .. MemSize - 1
      BY DEF Good
    <3> QED
      BY <2>1, <3>1, <3>2, <3>3, SizesFit
  <2>7. \A t : Shows(w.memory, w.screen, t) => Shows(v.memory, v.screen, t)
    BY <2>6 DEF Shows
  <2> QED
    BY <2>1, <2>5, <2>7
<1> QED
  BY <1>1, <1>2

LEMMA ScrollShows ==
    ASSUME C!ConsoleAssumption, NEW w, Good(w), NEW v, v = C!scroll_up(w),
           w = [memory |-> w.memory, screen |-> w.screen, cursor |-> w.cursor, x |-> w.x, y |-> w.y]
    PROVE  /\ Good(v)
           /\ v = [memory |-> v.memory, screen |-> v.screen, cursor |-> v.cursor, x |-> w.x, y |-> w.y]
           /\ \A t : Shows(w.memory, w.screen, t) => Shows(v.memory, v.screen, C!Scrolled(t))
<1>1. PICK u : u = C!Rewound(w)
  OBVIOUS
<1>2. /\ Good(u) /\ u.screen + C!Scr + WIDTH <= MemSize
      /\ u = [memory |-> u.memory, screen |-> u.screen, cursor |-> u.cursor, x |-> w.x, y |-> w.y]
      /\ \A t : Shows(w.memory, w.screen, t) => Shows(u.memory, u.screen, t)
  BY <1>1, RewoundShows
<1>3. /\ v = [memory |-> v.memory, screen |-> v.screen, cursor |-> v.cursor, x |-> w.x, y |-> w.y]
      /\ v.memory = [c \in DOMAIN u.memory |->
                       IF c - (u.screen + C!Scr) \notin 0 .. 2 * WIDTH - 1 THEN u.memory[c]
                       ELSE IF (c - (u.screen + C!Scr)) % 2 = 0 THEN C!Erase ELSE C!Nul]
      /\ v.screen = u.screen + WIDTH /\ v.cursor = u.cursor + WIDTH /\ v.x = u.x /\ v.y = u.y
  <2>1. v = [u EXCEPT !.memory = [c \in DOMAIN @ |->
                       IF c - (u.screen + C!Scr) \notin 0 .. 2 * WIDTH - 1 THEN @[c]
                       ELSE IF (c - (u.screen + C!Scr)) % 2 = 0 THEN C!Erase ELSE C!Nul],
                      !.screen = @ + WIDTH, !.cursor = @ + WIDTH]
    BY <1>1 DEF C!scroll_up
  <2>2. PICK m, n, k, i, j : u = [memory |-> m, screen |-> n, cursor |-> k, x |-> i, y |-> j]
    BY <1>2
  <2>3. u.memory = m /\ u.screen = n /\ u.cursor = k /\ u.x = i /\ u.y = j /\ w.x = i /\ w.y = j
    BY <1>2, <2>2
  <2>4. PICK low : low = [c \in DOMAIN m |->
                       IF c - (n + C!Scr) \notin 0 .. 2 * WIDTH - 1 THEN m[c]
                       ELSE IF (c - (n + C!Scr)) % 2 = 0 THEN C!Erase ELSE C!Nul]
    OBVIOUS
  <2>5. v = [u EXCEPT !.memory = low, !.screen = n + WIDTH, !.cursor = k + WIDTH]
    BY <2>1, <2>3, <2>4
  <2>6. v = [memory |-> low, screen |-> n + WIDTH, cursor |-> k + WIDTH, x |-> i, y |-> j]
    BY <2>2, <2>5
  <2> QED
    BY <2>3, <2>4, <2>6
<1>4. DOMAIN u.memory = 0 .. MemSize - 1 /\ \A c \in 0 .. MemSize - 1 : u.memory[c] \in Cells
  BY <1>2 DEF Good
<1>5. v.memory \in [0 .. MemSize - 1 -> Cells]
  BY <1>3, <1>4 DEF Cells
<1>11. PICK s, k : s = u.screen /\ k = u.y * WIDTH
  OBVIOUS
<1>6. /\ s \in Nat /\ s + C!Scr + WIDTH <= MemSize /\ k \in Int /\ u.cursor = s + k + u.x
      /\ u.x \in 0 .. WIDTH /\ u.y \in 0 .. HEIGHT - 1
  <2>1. u.y \in Int /\ WIDTH \in Int
    BY <1>2, SizesFit DEF Good
  <2> QED
    BY <1>2, <1>11, <2>1 DEF Good
<1>12. v.screen = s + WIDTH /\ v.cursor = (s + WIDTH) + k + v.x
  BY <1>3, <1>6, <1>11, SizesFit
<1>13. s + WIDTH \in Nat /\ (s + WIDTH) + C!Scr <= MemSize
  BY <1>6, SizesFit
<1>7. Good(v)
  BY <1>3, <1>5, <1>6, <1>11, <1>12, <1>13 DEF Good
<1>8. \A r \in C!Rows : \A c \in C!Columns :
        Look(v.memory[v.screen + Offset(r, c)]) = IF r = HEIGHT THEN C!Erase ELSE Look(u.memory[u.screen + Offset(r + 1, c)])
  <2> SUFFICES ASSUME NEW r \in C!Rows, NEW c \in C!Columns
               PROVE  Look(v.memory[v.screen + Offset(r, c)])
                        = IF r = HEIGHT THEN C!Erase ELSE Look(u.memory[u.screen + Offset(r + 1, c)])
    OBVIOUS
  <2>1. PICK o, below : o = Offset(r, c) /\ below = Offset(r + 1, c)
    OBVIOUS
  <2>2. r \in Int /\ c \in Int /\ 1 <= r /\ r <= HEIGHT /\ 1 <= c /\ c <= WIDTH
    BY SizesFit DEF C!Rows, C!Columns
  <2>3. o \in 0 .. C!Scr - 1 /\ below = o + WIDTH
    BY <2>1, <2>2, OffsetFits, OffsetBelow
  <2>4. v.screen + o = u.screen + below /\ v.screen + o \in 0 .. MemSize - 1
    BY <1>6, <1>11, <1>12, <2>3, SizesFit
  <2>5. CASE r = HEIGHT
    <3>1. o = C!Scr - WIDTH + c - 1
      BY <2>1, <2>2, <2>5, SizesFit, LastRow DEF Offset
    <3>2. (v.screen + o) - (u.screen + C!Scr) \in 0 .. 2 * WIDTH - 1
      BY <1>6, <1>11, <1>12, <2>2, <3>1, SizesFit
    <3>3. v.memory[v.screen + o] \in {C!Erase, C!Nul}
      BY <1>3, <1>4, <2>4, <3>2
    <3> QED
      BY <2>1, <2>5, <3>3 DEF Look
  <2>6. CASE r # HEIGHT
    <3>1. r + 1 \in C!Rows
      BY <2>2, <2>6, SizesFit DEF C!Rows
    <3>2. below \in 0 .. C!Scr - 1
      BY <2>1, <3>1, OffsetFits
    <3>3. (u.screen + below) - (u.screen + C!Scr) \notin 0 .. 2 * WIDTH - 1
      BY <1>6, <1>11, <3>2, SizesFit
    <3>4. v.memory[v.screen + o] = u.memory[u.screen + below]
      BY <1>3, <1>4, <2>4, <3>3
    <3> QED
      BY <2>1, <2>6, <3>4
  <2> QED
    BY <2>5, <2>6
<1>9. ASSUME NEW t, Shows(u.memory, u.screen, t)
      PROVE  Shows(v.memory, v.screen, C!Scrolled(t))
  <2> SUFFICES ASSUME NEW r \in C!Rows, NEW c \in C!Columns
               PROVE  C!Scrolled(t)[r][c] = Look(v.memory[v.screen + Offset(r, c)])
    BY DEF Shows
  <2>1. CASE r = HEIGHT
    BY <1>8, <2>1 DEF C!Scrolled, C!BlankRow
  <2>2. CASE r # HEIGHT
    <3>1. r + 1 \in C!Rows
      BY <2>2, SizesFit DEF C!Rows
    <3>2. t[r + 1][c] = Look(u.memory[u.screen + Offset(r + 1, c)])
      BY <1>9, <3>1 DEF Shows
    <3> QED
      BY <1>8, <2>2, <3>2 DEF C!Scrolled
  <2> QED
    BY <2>1, <2>2
<1>10. \A t : Shows(w.memory, w.screen, t) => Shows(v.memory, v.screen, C!Scrolled(t))
  BY <1>2, <1>9
<1> QED
  BY <1>3, <1>7, <1>10

LEMMA LineFeedShows ==
    ASSUME C!ConsoleAssumption, NEW w, Good(w), NEW v, v = C!command_lf(w),
           w = [memory |-> w.memory, screen |-> w.screen, cursor |-> w.cursor, x |-> w.x, y |-> w.y]
    PROVE  /\ Good(v) /\ v.x = w.x
           /\ v = [memory |-> v.memory, screen |-> v.screen, cursor |-> v.cursor, x |-> v.x, y |-> v.y]
           /\ \A t : Shows(w.memory, w.screen, t)
                => Shows(v.memory, v.screen, IF w.y + 1 < HEIGHT THEN t ELSE C!Scrolled(t))
<1>1. CASE w.y + 1 < HEIGHT
  <2>1. /\ v = [memory |-> w.memory, screen |-> w.screen, cursor |-> w.cursor + WIDTH, x |-> w.x, y |-> w.y + 1]
    BY <1>1 DEF C!command_lf
  <2>2. PICK s, k : s = w.screen /\ k = w.y * WIDTH
    OBVIOUS
  <2>3. w.y \in Int /\ 0 <= w.y /\ WIDTH \in Int /\ HEIGHT \in Int
    BY SizesFit DEF Good
  <2>4. s \in Nat /\ k \in Int /\ w.cursor = s + k + w.x /\ w.x \in Int
    BY <2>2, <2>3, SizesFit DEF Good
  <2>5. v.y * WIDTH = k + WIDTH /\ v.y \in 0 .. HEIGHT - 1
    BY <1>1, <2>1, <2>2, <2>3, NextMultiple
  <2>6. v.cursor = v.screen + v.y * WIDTH + v.x
    BY <2>1, <2>2, <2>3, <2>4, <2>5
  <2>7. Good(v)
    BY <2>1, <2>5, <2>6 DEF Good
  <2> QED
    BY <1>1, <2>1, <2>7
<1>2. CASE ~(w.y + 1 < HEIGHT)
  BY <1>2, ScrollShows DEF C!command_lf
<1> QED
  BY <1>1, <1>2

LEMMA ReturnIsGood ==
    ASSUME C!ConsoleAssumption, NEW w, Good(w), NEW v, v = C!command_cr(w),
           w = [memory |-> w.memory, screen |-> w.screen, cursor |-> w.cursor, x |-> w.x, y |-> w.y]
    PROVE  /\ Good(v)
           /\ v = [memory |-> w.memory, screen |-> w.screen, cursor |-> v.cursor, x |-> 0, y |-> w.y]
<1>1. v = [memory |-> w.memory, screen |-> w.screen, cursor |-> w.cursor - w.x, x |-> 0, y |-> w.y]
  BY DEF C!command_cr
<1>2. w.y * WIDTH \in Int /\ w.x \in Int /\ w.screen \in Int /\ 0 \in 0 .. WIDTH
  <2>1. w.y \in Int
    BY SizesFit DEF Good
  <2> QED
    BY <2>1, SizesFit DEF Good
<1>3. v.cursor = v.screen + v.y * WIDTH + v.x
  BY <1>1, <1>2 DEF Good
<1> QED
  BY <1>1, <1>2, <1>3 DEF Good

\* Cells that are written where nothing shows, and one that does.
LEMMA CellShows ==
    ASSUME C!ConsoleAssumption, NEW mem, NEW at \in Nat, at + C!Scr <= MemSize, NEW t, TextOK(t), Shows(mem, at, t),
           NEW q \in C!Rows, NEW d \in C!Columns, NEW now, NEW new,
           \A a \in 0 .. MemSize - 1 : Look(now[a]) = IF a = at + Offset(q, d) THEN new ELSE Look(mem[a])
    PROVE  Shows(now, at, [t EXCEPT ![q][d] = new])
<1> SUFFICES ASSUME NEW r \in C!Rows, NEW c \in C!Columns
             PROVE  [t EXCEPT ![q][d] = new][r][c] = Look(now[at + Offset(r, c)])
  BY DEF Shows
<1>1. PICK o, p : o = Offset(r, c) /\ p = Offset(q, d)
  OBVIOUS
<1>2. o \in 0 .. C!Scr - 1 /\ p \in 0 .. C!Scr - 1 /\ (o = p => r = q /\ c = d)
  BY <1>1, OffsetFits, OffsetOfOne
<1>3. at + o \in 0 .. MemSize - 1 /\ (at + o = at + p => o = p)
  BY <1>2, SizesFit
<1>4. DOMAIN t = C!Rows /\ DOMAIN t[q] = C!Columns
  BY DEF TextOK
<1>5. t[r][c] = Look(mem[at + o])
  BY <1>1 DEF Shows
<1> QED
  BY <1>1, <1>2, <1>3, <1>4, <1>5

-----------------------------------------------------------------------------
(* The steps.                                                              *)

LEMMA WindowIs ==
    /\ C!Window = [memory |-> C!Window.memory, screen |-> C!Window.screen, cursor |-> C!Window.cursor,
                 x |-> C!Window.x, y |-> C!Window.y]
    /\ C!Window.memory = memory /\ C!Window.screen = screen /\ C!Window.cursor = cursor
    /\ C!Window.x = column /\ C!Window.y = line
BY DEF C!Window

\* A window that the variables become.
LEMMA BecomesWindow ==
    ASSUME NEW w, C!Becomes(w),
           w = [memory |-> w.memory, screen |-> w.screen, cursor |-> w.cursor, x |-> w.x, y |-> w.y]
    PROVE  C!Window' = w
BY DEF C!Becomes, C!Window

LEMMA BlankFits == TextOK([r \in C!Rows |-> C!BlankRow])
BY DEF TextOK, C!BlankRow, Cells

LEMMA ScrolledFits ==
    ASSUME C!ConsoleAssumption, NEW t, TextOK(t)
    PROVE  TextOK(C!Scrolled(t))
<1>1. \A r \in C!Rows : r # HEIGHT => r + 1 \in C!Rows
  BY SizesFit DEF C!Rows
<1>2. C!BlankRow \in [C!Columns -> Cells]
  BY DEF C!BlankRow, Cells
<1> QED
  BY <1>1, <1>2 DEF C!Scrolled, TextOK

LEMMA WrittenFits ==
    ASSUME NEW t, TextOK(t), NEW r \in C!Rows, NEW c \in C!Columns, NEW new \in Cells
    PROVE  TextOK([t EXCEPT ![r][c] = new])
BY DEF TextOK

LEMMA NextRowFits ==
    ASSUME C!ConsoleAssumption, ConsoleInv
    PROVE  TextOK(C!NextRow(text))
BY ScrolledFits DEF C!NextRow, ConsoleInv

LEMMA ConsoleStarts ==
    ASSUME C!ConsoleAssumption, C!Init
    PROVE  ConsoleInv
<1>1. /\ memory = [a \in 0 .. MemSize - 1 |-> C!Erase] /\ screen = 0 /\ cursor = 0
      /\ column = 0 /\ line = 0 /\ text = [r \in C!Rows |-> C!BlankRow] /\ smeared = FALSE
  BY DEF C!Init
<1>2. 0 * WIDTH = 0 /\ 0 \in 0 .. WIDTH /\ 0 \in 0 .. HEIGHT - 1 /\ 0 + C!Scr <= MemSize
  BY SizesFit
<1>3. Good(C!Window)
  BY <1>1, <1>2, WindowIs DEF Good, Cells
<1>4. Shows(memory, screen, text)
  <2> SUFFICES ASSUME NEW r \in C!Rows, NEW c \in C!Columns
               PROVE  text[r][c] = Look(memory[screen + Offset(r, c)])
    BY DEF Shows
  <2>1. screen + Offset(r, c) \in 0 .. MemSize - 1
    BY <1>1, OffsetFits, SizesFit
  <2> QED
    BY <1>1, <2>1 DEF Look, C!BlankRow
<1> QED
  BY <1>1, <1>3, <1>4, BlankFits DEF ConsoleInv

LEMMA ReturnKeeps ==
    ASSUME C!ConsoleAssumption, ConsoleInv, C!CarriageReturn
    PROVE  ConsoleInv'
<1>1. PICK v : v = C!command_cr(C!Window)
  OBVIOUS
<1>2. Good(v) /\ v = [memory |-> memory, screen |-> screen, cursor |-> v.cursor, x |-> 0, y |-> line]
  BY <1>1, ReturnIsGood, WindowIs DEF ConsoleInv
<1>3. C!Window' = v
  BY <1>1, <1>2, BecomesWindow DEF C!CarriageReturn
<1>4. memory' = memory /\ screen' = screen /\ UNCHANGED <<text, smeared>>
  BY <1>1, <1>2 DEF C!CarriageReturn, C!Becomes
<1> QED
  BY <1>2, <1>3, <1>4 DEF ConsoleInv

LEMMA LineFeedKeeps ==
    ASSUME C!ConsoleAssumption, ConsoleInv, C!LineFeed
    PROVE  ConsoleInv'
<1>1. PICK u : u = C!command_cr(C!Window)
  OBVIOUS
<1>2. Good(u) /\ u = [memory |-> memory, screen |-> screen, cursor |-> u.cursor, x |-> 0, y |-> line]
  BY <1>1, ReturnIsGood, WindowIs DEF ConsoleInv
<1>3. PICK v : v = C!command_lf(u)
  OBVIOUS
<1>4. /\ Good(v)
      /\ v = [memory |-> v.memory, screen |-> v.screen, cursor |-> v.cursor, x |-> v.x, y |-> v.y]
      /\ \A t : Shows(u.memory, u.screen, t)
           => Shows(v.memory, v.screen, IF u.y + 1 < HEIGHT THEN t ELSE C!Scrolled(t))
  BY <1>2, <1>3, LineFeedShows
<1>5. C!Window' = v /\ memory' = v.memory /\ screen' = v.screen
  BY <1>1, <1>3, <1>4, BecomesWindow DEF C!LineFeed, C!Becomes
<1>6. text' = C!NextRow(text) /\ smeared' = smeared
  BY DEF C!LineFeed
<1>7. TextOK(text')
  BY <1>6, NextRowFits
<1>8. ~smeared => Shows(v.memory, v.screen, C!NextRow(text))
  BY <1>2, <1>4 DEF ConsoleInv, C!NextRow
<1> QED
  BY <1>4, <1>5, <1>6, <1>7, <1>8 DEF ConsoleInv

LEMMA CursorInScreen ==
    ASSUME NEW n \in Int, NEW z \in Int, NEW i \in Int, NEW size \in Int, NEW all \in Int,
           n >= 0, n + size <= all, z + i \in 0 .. size - 1
    PROVE  n + z + i = n + (z + i) /\ n + z + i \in 0 .. all - 1 /\ n + z + i + 1 = n + z + (i + 1)
OBVIOUS

CellWritten(w, ch) == [w EXCEPT !.memory[w.cursor] = ch, !.cursor = @ + 1, !.x = @ + 1]

\* A character, once the row it goes to is known.
LEMMA PutShows ==
    ASSUME C!ConsoleAssumption, NEW w, Good(w), w.x < WIDTH, NEW ch \in Chars, NEW t, TextOK(t),
           w = [memory |-> w.memory, screen |-> w.screen, cursor |-> w.cursor, x |-> w.x, y |-> w.y],
           NEW v, v = CellWritten(w, ch)
    PROVE  /\ Good(v) /\ v.y + 1 \in C!Rows /\ v.x \in C!Columns
           /\ v = [memory |-> v.memory, screen |-> v.screen, cursor |-> v.cursor, x |-> v.x, y |-> v.y]
           /\ Shows(w.memory, w.screen, t) => Shows(v.memory, v.screen, [t EXCEPT ![v.y + 1][v.x] = ch])
<1>1. PICK m, n, k, i, j : w = [memory |-> m, screen |-> n, cursor |-> k, x |-> i, y |-> j]
  OBVIOUS
<1>2. w.memory = m /\ w.screen = n /\ w.cursor = k /\ w.x = i /\ w.y = j
  BY <1>1
<1>3. v = [w EXCEPT !.memory = [m EXCEPT ![k] = ch], !.cursor = k + 1, !.x = i + 1]
  BY <1>2 DEF CellWritten
<1>4. v = [memory |-> [m EXCEPT ![k] = ch], screen |-> n, cursor |-> k + 1, x |-> i + 1, y |-> j]
  BY <1>1, <1>3
<1>5. /\ m \in [0 .. MemSize - 1 -> Cells] /\ n \in Nat /\ n + C!Scr <= MemSize
      /\ i \in 0 .. WIDTH /\ j \in 0 .. HEIGHT - 1 /\ i < WIDTH
  BY <1>2 DEF Good
<1>12. PICK z : z = j * WIDTH
  OBVIOUS
<1>13. k = n + z + i
  BY <1>2, <1>12 DEF Good
<1>6. j + 1 \in C!Rows /\ i + 1 \in C!Columns
  BY <1>5, SizesFit DEF C!Rows, C!Columns
<1>7. z \in Int /\ (j + 1) - 1 = j /\ i \in Int
  <2>1. j \in Int /\ WIDTH \in Int
    BY <1>5, SizesFit
  <2> QED
    BY <1>5, <1>12, <2>1
<1>8. Offset(j + 1, i + 1) = z + i
  BY <1>7, <1>12 DEF Offset
<1>9. k = n + Offset(j + 1, i + 1) /\ k \in 0 .. MemSize - 1 /\ k + 1 = n + z + (i + 1)
  <2>1. Offset(j + 1, i + 1) \in 0 .. C!Scr - 1
    BY <1>6, OffsetFits
  <2>2. n \in Int /\ n >= 0 /\ C!Scr \in Int /\ MemSize \in Int /\ z + i \in 0 .. C!Scr - 1
    BY <1>5, <1>8, <2>1, SizesFit
  <2>3. n + z + i = n + (z + i) /\ n + z + i \in 0 .. MemSize - 1 /\ n + z + i + 1 = n + z + (i + 1)
    BY <1>5, <1>7, <2>2, CursorInScreen
  <2> QED
    BY <1>8, <1>13, <2>3
<1>10. Good(v)
  <2>1. [m EXCEPT ![k] = ch] \in [0 .. MemSize - 1 -> Cells]
    BY <1>5 DEF Cells
  <2>2. k + 1 = n + z + (i + 1) /\ i + 1 \in 0 .. WIDTH
    <3>1. i + 1 \in C!Columns
      BY <1>6
    <3> QED
      BY <1>9, <3>1, SizesFit DEF C!Columns
  <2> QED
    BY <1>4, <1>5, <1>12, <2>1, <2>2 DEF Good
<1>11. ASSUME Shows(m, n, t)
       PROVE  Shows([m EXCEPT ![k] = ch], n, [t EXCEPT ![j + 1][i + 1] = ch])
  <2>1. ch # C!Nul
    BY DEF C!ConsoleAssumption
  <2>2. \A a \in 0 .. MemSize - 1 :
          Look([m EXCEPT ![k] = ch][a]) = IF a = n + Offset(j + 1, i + 1) THEN ch ELSE Look(m[a])
    BY <1>5, <1>9, <2>1 DEF Look
  <2> QED
    BY <1>5, <1>6, <1>11, <2>2, CellShows
<1> QED
  BY <1>2, <1>4, <1>6, <1>10, <1>11

LEMMA PrintableKeeps ==
    ASSUME C!ConsoleAssumption, ConsoleInv, NEW ch \in Chars, C!Printable(ch)
    PROVE  ConsoleInv'
<1>1. PICK w : w = IF column >= WIDTH
                   THEN C!command_lf([C!Window EXCEPT !.x = @ - WIDTH, !.cursor = @ - WIDTH])
                   ELSE C!Window
  OBVIOUS
<1>2. PICK v : v = CellWritten(w, ch)
  OBVIOUS
<1>3. v = C!Put(C!Window, ch)
  BY <1>1, <1>2, WindowIs DEF C!Put, CellWritten
<1>4. PICK t : t = IF column = WIDTH THEN C!NextRow(text) ELSE text
  OBVIOUS
<1>5. column \in 0 .. WIDTH /\ WIDTH \in Int /\ 1 <= WIDTH
  BY SizesFit, WindowIs DEF ConsoleInv, Good
<1>6. /\ Good(w) /\ w.x < WIDTH /\ TextOK(t)
      /\ w = [memory |-> w.memory, screen |-> w.screen, cursor |-> w.cursor, x |-> w.x, y |-> w.y]
      /\ ~smeared => Shows(w.memory, w.screen, t)
  <2>1. CASE column = WIDTH
    <3>1. PICK u : u = [C!Window EXCEPT !.x = @ - WIDTH, !.cursor = @ - WIDTH]
      OBVIOUS
    <3>2. u = C!command_cr(C!Window)
      <4>1. u = [memory |-> memory, screen |-> screen, cursor |-> cursor - WIDTH, x |-> column - WIDTH, y |-> line]
        BY <3>1 DEF C!Window
      <4>2. C!command_cr(C!Window) = [memory |-> memory, screen |-> screen, cursor |-> cursor - column, x |-> 0, y |-> line]
        <5>1. C!command_cr(C!Window) = [C!Window EXCEPT !.cursor = cursor - column, !.x = 0]
          BY WindowIs DEF C!command_cr
        <5> QED
          BY <5>1 DEF C!Window
      <4> QED
        BY <1>5, <2>1, <4>1, <4>2
    <3>3. Good(u) /\ u = [memory |-> memory, screen |-> screen, cursor |-> u.cursor, x |-> 0, y |-> line]
      BY <3>2, ReturnIsGood, WindowIs DEF ConsoleInv
    <3>4. w = C!command_lf(u)
      BY <1>1, <1>5, <2>1, <3>1
    <3>5. /\ Good(w) /\ w.x = u.x
          /\ w = [memory |-> w.memory, screen |-> w.screen, cursor |-> w.cursor, x |-> w.x, y |-> w.y]
          /\ \A z : Shows(u.memory, u.screen, z)
               => Shows(w.memory, w.screen, IF u.y + 1 < HEIGHT THEN z ELSE C!Scrolled(z))
      BY <3>3, <3>4, LineFeedShows
    <3>6. ~smeared => Shows(w.memory, w.screen, C!NextRow(text))
      BY <3>3, <3>5 DEF ConsoleInv, C!NextRow
    <3> QED
      BY <1>4, <1>5, <2>1, <3>3, <3>5, <3>6, NextRowFits
  <2>2. CASE column # WIDTH
    <3>1. w = C!Window /\ t = text /\ column < WIDTH
      BY <1>1, <1>4, <1>5, <2>2
    <3> QED
      BY <3>1, WindowIs DEF ConsoleInv
  <2> QED
    BY <2>1, <2>2
<1>7. /\ Good(v) /\ v.y + 1 \in C!Rows /\ v.x \in C!Columns
      /\ v = [memory |-> v.memory, screen |-> v.screen, cursor |-> v.cursor, x |-> v.x, y |-> v.y]
      /\ Shows(w.memory, w.screen, t) => Shows(v.memory, v.screen, [t EXCEPT ![v.y + 1][v.x] = ch])
  BY <1>2, <1>6, PutShows
<1>8. /\ C!Window' = v /\ memory' = v.memory /\ screen' = v.screen /\ column' = v.x /\ line' = v.y
  BY <1>3, <1>7, BecomesWindow DEF C!Printable, C!Becomes
<1>9. text' = [t EXCEPT ![v.y + 1][v.x] = ch] /\ smeared' = smeared
  BY <1>4, <1>8 DEF C!Printable
<1>10. TextOK(text')
  BY <1>6, <1>7, <1>9, WrittenFits DEF Cells
<1>11. ~smeared' => Shows(memory', screen', text')
  BY <1>6, <1>7, <1>8, <1>9
<1> QED
  BY <1>7, <1>8, <1>9, <1>10, <1>11 DEF ConsoleInv

\* A cell is erased, and nothing is smeared.
LEMMA ErasedShows ==
    ASSUME C!ConsoleAssumption, NEW mem \in [0 .. MemSize - 1 -> Cells], NEW at \in Nat, at + C!Scr <= MemSize,
           NEW t, TextOK(t), Shows(mem, at, t),
           NEW q \in C!Rows, NEW d \in C!Columns, NEW a \in Int, a = at + Offset(q, d),
           a + 1 < MemSize => mem[a + 1] \notin Chars
    PROVE  Shows(C!Erased(mem, a), at, [t EXCEPT ![q][d] = C!Erase])
<1>1. DOMAIN mem = 0 .. MemSize - 1 /\ MemSize \in Int
  BY SizesFit
<1>2. ASSUME NEW b \in 0 .. MemSize - 1
      PROVE  Look(C!Erased(mem, a)[b]) = IF b = a THEN C!Erase ELSE Look(mem[b])
  <2>1. CASE b = a
    BY <1>1, <2>1 DEF C!Erased, Look
  <2>2. CASE b # a /\ b = a + 1
    <3>1. mem[b] \in {C!Erase, C!Nul}
      BY <1>1, <2>2 DEF Cells
    <3> QED
      BY <1>1, <2>2, <3>1 DEF C!Erased, Look
  <2>3. CASE b # a /\ b # a + 1
    BY <1>1, <2>3 DEF C!Erased
  <2> QED
    BY <2>1, <2>2, <2>3
<1> QED
  BY <1>2, CellShows

LEMMA ErasedFits ==
    ASSUME NEW mem \in [0 .. MemSize - 1 -> Cells], NEW a
    PROVE  C!Erased(mem, a) \in [0 .. MemSize - 1 -> Cells]
BY DEF C!Erased, Cells

LEMMA BackspaceKeeps ==
    ASSUME C!ConsoleAssumption, ConsoleInv, C!Backspace
    PROVE  ConsoleInv'
<1>1. PICK k : k = line * WIDTH
  OBVIOUS
<1>2. /\ memory \in [0 .. MemSize - 1 -> Cells] /\ screen \in Nat /\ screen + C!Scr <= MemSize
      /\ column \in 0 .. WIDTH /\ line \in 0 .. HEIGHT - 1 /\ cursor = screen + k + column
      /\ TextOK(text) /\ smeared \in BOOLEAN
  BY <1>1, WindowIs DEF ConsoleInv, Good
<1>3. k \in Int /\ WIDTH \in Int /\ HEIGHT \in Int /\ column \in Int /\ line \in Int /\ column > 0
  <2>1. line \in Int /\ WIDTH \in Int
    BY <1>2, SizesFit
  <2> QED
    BY <1>1, <1>2, <2>1, SizesFit DEF C!Backspace
<1>4. PICK v : v = [C!Window EXCEPT !.x = @ - 1, !.cursor = @ - 1, !.memory = C!Erased(@, cursor - 1)]
  OBVIOUS
<1>5. v = [memory |-> C!Erased(memory, cursor - 1), screen |-> screen, cursor |-> cursor - 1, x |-> column - 1, y |-> line]
  BY <1>4 DEF C!Window
<1>6. /\ C!Window' = v /\ memory' = C!Erased(memory, cursor - 1) /\ screen' = screen
      /\ text' = [text EXCEPT ![line + 1][column] = C!Erase]
      /\ smeared' = (smeared \/ C!Smears(cursor - 1))
  <2>1. C!Becomes(v) /\ text' = [text EXCEPT ![line + 1][column] = C!Erase] /\ smeared' = (smeared \/ C!Smears(cursor - 1))
    BY <1>4 DEF C!Backspace
  <2>2. v = [memory |-> v.memory, screen |-> v.screen, cursor |-> v.cursor, x |-> v.x, y |-> v.y]
    BY <1>5
  <2>3. C!Window' = v /\ memory' = v.memory /\ screen' = v.screen
    BY <2>1, <2>2, BecomesWindow DEF C!Becomes
  <2> QED
    BY <1>5, <2>1, <2>3
<1>7. Good(v)
  <2>1. cursor - 1 = screen + k + (column - 1) /\ column - 1 \in 0 .. WIDTH
    BY <1>2, <1>3
  <2> QED
    BY <1>1, <1>2, <1>5, <2>1, ErasedFits DEF Good
<1>8. line + 1 \in C!Rows /\ column \in C!Columns
  BY <1>2, <1>3 DEF C!Rows, C!Columns
<1>9. cursor - 1 = screen + Offset(line + 1, column) /\ cursor - 1 \in Int
  BY <1>1, <1>2, <1>3 DEF Offset
<1>10. TextOK(text')
  BY <1>2, <1>6, <1>8, WrittenFits DEF Cells
<1>11. ASSUME ~smeared'
       PROVE  Shows(memory', screen', text')
  <2>1. ~smeared /\ ((cursor - 1) + 1 < MemSize => memory[(cursor - 1) + 1] \notin Chars)
    BY <1>6, <1>11 DEF C!Smears
  <2>2. Shows(memory, screen, text)
    BY <2>1 DEF ConsoleInv
  <2> QED
    BY <1>2, <1>6, <1>8, <1>9, <2>1, <2>2, ErasedShows
<1> QED
  BY <1>2, <1>6, <1>7, <1>10, <1>11 DEF ConsoleInv

LEMMA DeleteKeeps ==
    ASSUME C!ConsoleAssumption, ConsoleInv, C!Delete
    PROVE  ConsoleInv'
<1>1. PICK k : k = line * WIDTH
  OBVIOUS
<1>2. /\ memory \in [0 .. MemSize - 1 -> Cells] /\ screen \in Nat /\ screen + C!Scr <= MemSize
      /\ column \in 0 .. WIDTH /\ line \in 0 .. HEIGHT - 1 /\ cursor = screen + k + column
      /\ TextOK(text) /\ smeared \in BOOLEAN
  BY <1>1, WindowIs DEF ConsoleInv, Good
<1>3. k \in Int /\ WIDTH \in Int /\ HEIGHT \in Int /\ column \in Int /\ line \in Int
  <2>1. line \in Int /\ WIDTH \in Int
    BY <1>2, SizesFit
  <2> QED
    BY <1>1, <1>2, <2>1, SizesFit
<1>4. PICK v : v = [C!Window EXCEPT !.memory = C!Erased(@, cursor)]
  OBVIOUS
<1>5. v = [memory |-> C!Erased(memory, cursor), screen |-> screen, cursor |-> cursor, x |-> column, y |-> line]
  BY <1>4 DEF C!Window
<1>6. /\ C!Window' = v /\ memory' = C!Erased(memory, cursor) /\ screen' = screen
      /\ text' = IF column = WIDTH THEN text ELSE [text EXCEPT ![line + 1][column + 1] = C!Erase]
      /\ smeared' = (smeared \/ column = WIDTH \/ C!Smears(cursor))
  BY <1>4, <1>5, BecomesWindow DEF C!Delete, C!Becomes
<1>7. Good(v)
  BY <1>1, <1>2, <1>5, ErasedFits DEF Good
<1>8. column # WIDTH => line + 1 \in C!Rows /\ column + 1 \in C!Columns
  BY <1>2, <1>3 DEF C!Rows, C!Columns
<1>9. cursor = screen + Offset(line + 1, column + 1) /\ cursor \in Int
  BY <1>1, <1>2, <1>3 DEF Offset
<1>10. TextOK(text')
  BY <1>2, <1>6, <1>8, WrittenFits DEF Cells
<1>11. ASSUME ~smeared'
       PROVE  Shows(memory', screen', text')
  <2>1. ~smeared /\ column # WIDTH /\ (cursor + 1 < MemSize => memory[cursor + 1] \notin Chars)
    BY <1>6, <1>11 DEF C!Smears
  <2>2. Shows(memory, screen, text)
    BY <2>1 DEF ConsoleInv
  <2>3. text' = [text EXCEPT ![line + 1][column + 1] = C!Erase]
    BY <1>6, <2>1
  <2>4. PICK q, d : q = line + 1 /\ d = column + 1
    OBVIOUS
  <2>5. q \in C!Rows /\ d \in C!Columns /\ cursor \in Int /\ cursor = screen + Offset(q, d)
    BY <1>8, <1>9, <2>1, <2>4
  <2>6. Shows(C!Erased(memory, cursor), screen, [text EXCEPT ![q][d] = C!Erase])
    BY <1>2, <2>1, <2>2, <2>5, ErasedShows
  <2> QED
    BY <1>6, <2>3, <2>4, <2>6
<1> QED
  BY <1>2, <1>6, <1>7, <1>10, <1>11 DEF ConsoleInv

LEMMA ConsoleSteps ==
    ASSUME C!ConsoleAssumption, ConsoleInv, [C!Next]_(C!vars)
    PROVE  ConsoleInv'
<1>1. ASSUME UNCHANGED C!vars
      PROVE  ConsoleInv'
  BY <1>1 DEF C!vars, ConsoleInv, C!Window
<1> QED
  BY <1>1, PrintableKeeps, LineFeedKeeps, ReturnKeeps, BackspaceKeeps, DeleteKeeps DEF C!Next

\* The invariant says what the window shows.
LEMMA ConsoleInvShows ==
    ASSUME C!ConsoleAssumption, ConsoleInv
    PROVE  C!ScreenShowsText
<1>1. cursor = screen + line * WIDTH + column /\ screen + C!Scr <= MemSize /\ screen \in Nat
  BY WindowIs DEF ConsoleInv, Good
<1>2. ASSUME ~smeared, NEW r \in C!Rows, NEW c \in C!Columns
      PROVE  text[r][c] = Look(memory[screen + (r - 1) * WIDTH + c - 1])
  <2>1. PICK k : k = (r - 1) * WIDTH
    OBVIOUS
  <2>2. k \in Int /\ c \in Int
    BY <2>1, SizesFit DEF C!Rows, C!Columns
  <2>3. screen + Offset(r, c) = screen + k + c - 1
    BY <1>1, <2>1, <2>2 DEF Offset
  <2>4. text[r][c] = Look(memory[screen + Offset(r, c)])
    BY <1>2 DEF ConsoleInv, Shows
  <2> QED
    BY <2>1, <2>3, <2>4
<1> QED
  BY <1>1, <1>2 DEF C!ScreenShowsText, Look
=============================================================================
