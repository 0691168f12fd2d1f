--------------------------- MODULE SchedulerProofs ---------------------------
(***************************************************************************)
(* Proofs about module Scheduler, for every number of tasks, every         *)
(* priorities and sleep lengths, and every bound of the clock.             *)
(***************************************************************************)
EXTENDS Scheduler, TLAPS, FiniteSetTheorems, WellFoundedInduction, SequenceTheorems

\* Every nonempty set of naturals has a least element: a statement about every
\* n is proved from a least n for which it fails.
LEMMA LeastNumber ==
    ASSUME NEW T \in SUBSET Nat, T # {}
    PROVE  \E m \in T : \A y \in T : m <= y
<1>1. IsWellFoundedOn({ss \in Nat \X Nat : ss[1] < ss[2]}, Nat)
  BY NatLessThanWellFounded DEF OpToRel
<1>2. PICK m \in T : \A y \in T : <<y, m>> \notin {ss \in Nat \X Nat : ss[1] < ss[2]}
  BY <1>1, WFMin
<1>3. \A y \in T : y \in Nat /\ m \in Nat /\ ~(y < m)
  BY <1>2
<1> QED
  BY <1>3

-----------------------------------------------------------------------------
(* task_search returns NULL, that is the idle task, or a ready task that   *)
(* is not the current one.                                                 *)

ScanStep(st, tk, f, i) ==
    IF i = 0 THEN None
    ELSE IF /\ Candidate(i - 1, st)
            /\ f[i - 1] = None \/ Beats(i - 1, f[i - 1], tk)
         THEN i - 1
         ELSE f[i - 1]

\* The scan of task_search is well defined: its loop unrolls up to any index.
LEMMA ScanUnrolls ==
    ASSUME NEW st, NEW tk
    PROVE  Scan(st, tk) = [i \in 0 .. NTasks |-> ScanStep(st, tk, Scan(st, tk), i)]
<1>. DEFINE Unrolled(n, g) == \A i \in 0 .. n : g[i] = ScanStep(st, tk, g, i)
            Stuck == {n \in 0 .. NTasks : ~ \E g \in [0 .. n -> Int] : Unrolled(n, g)}
<1>0. NTasks \in Nat
  BY SchedulerAssumption
<1>5. Stuck \in SUBSET Nat
  BY <1>0
<1>. HIDE DEF Stuck
<1>1. ASSUME Stuck # {}
      PROVE  FALSE
  <2>1. PICK m \in Stuck : \A y \in Stuck : m <= y
    BY <1>1, <1>5, LeastNumber
  <2>2. m # 0
    <3>1. ASSUME m = 0
          PROVE  [i \in 0 .. 0 |-> None] \in [0 .. 0 -> Int]
                 /\ Unrolled(0, [i \in 0 .. 0 |-> None])
      BY DEF ScanStep, None
    <3>. QED
      BY <2>1, <3>1 DEF Stuck
  <2>3. m - 1 \in 0 .. NTasks /\ m - 1 \notin Stuck /\ m \in Nat
    <3>1. m \in 0 .. NTasks
      BY DEF Stuck
    <3>. QED
      BY <1>0, <2>1, <2>2, <3>1
  <2>4. PICK g \in [0 .. m - 1 -> Int] : Unrolled(m - 1, g)
    BY <2>3 DEF Stuck
  <2>. DEFINE h == [i \in 0 .. m |-> IF i < m THEN g[i] ELSE ScanStep(st, tk, g, m)]
  <2>5. ScanStep(st, tk, g, m) \in Int
    BY <2>2, <2>3 DEF ScanStep
  <2>6. h \in [0 .. m -> Int]
    BY <2>3, <2>5
  <2>7. Unrolled(m, h)
    <3>. SUFFICES ASSUME NEW i \in 0 .. m
                  PROVE  h[i] = ScanStep(st, tk, h, i)
      OBVIOUS
    <3>1. i # 0 => h[i - 1] = g[i - 1]
      BY <2>3
    <3>2. ScanStep(st, tk, h, i) = ScanStep(st, tk, g, i)
      BY <3>1 DEF ScanStep
    <3>3. CASE i < m
      BY <2>3, <2>4, <3>2, <3>3
    <3>4. CASE i = m
      BY <2>3, <3>2, <3>4
    <3>. QED
      BY <2>3, <3>3, <3>4
  <2>. QED
    BY <2>1, <2>6, <2>7 DEF Stuck
<1>2. PICK g \in [0 .. NTasks -> Int] : Unrolled(NTasks, g)
  <2>1. NTasks \in 0 .. NTasks /\ NTasks \notin Stuck
    BY <1>0, <1>1
  <2>. QED
    BY <2>1 DEF Stuck
<1>3. g = [i \in 0 .. NTasks |-> ScanStep(st, tk, g, i)]
  BY <1>2
<1>4. Scan(st, tk) = CHOOSE f : f = [i \in 0 .. NTasks |-> ScanStep(st, tk, f, i)]
  BY DEF Scan, ScanStep
<1>. QED
  BY <1>3, <1>4

\* The champion is NULL or one of the candidates, and NULL only when there
\* is no candidate.
LEMMA ChampionIsCandidate ==
    ASSUME NEW st, NEW tk
    PROVE  /\ \/ Champion(st, tk) = None
              \/ Champion(st, tk) \in Tasks /\ Candidate(Champion(st, tk), st)
           /\ Champion(st, tk) = None => \A t \in Tasks : ~Candidate(t, st)
<1>. DEFINE f == Scan(st, tk)
            Good(i) == /\ f[i] = None \/ (f[i] \in Tasks /\ Candidate(f[i], st))
                       /\ f[i] = None => \A t \in 0 .. i - 1 : ~Candidate(t, st)
            Bad == {i \in 0 .. NTasks : ~Good(i)}
<1>0. NTasks \in Nat
  BY SchedulerAssumption
<1>2. Bad \in SUBSET Nat
  BY <1>0
<1>5. f = [i \in 0 .. NTasks |-> ScanStep(st, tk, f, i)]
  BY ScanUnrolls
<1>. HIDE DEF f, Bad
<1>1. \A i \in 0 .. NTasks : f[i] = ScanStep(st, tk, f, i)
  BY <1>5
<1>3. ASSUME Bad # {}
      PROVE  FALSE
  <2>1. PICK m \in Bad : \A y \in Bad : m <= y
    BY <1>2, <1>3, LeastNumber
  <2>2. m \in 0 .. NTasks /\ ~Good(m)
    BY <2>1 DEF Bad
  <2>3. m # 0
    BY <1>0, <1>1, <2>2 DEF ScanStep
  <2>4. m - 1 \in 0 .. NTasks /\ m - 1 \in Tasks
    BY <1>0, <2>2, <2>3 DEF Tasks
  <2>5. Good(m - 1)
    BY <2>1, <2>2, <2>4 DEF Bad
  <2>6. \A t \in 0 .. m - 1 : t \in 0 .. m - 2 \/ t = m - 1
    BY <1>0, <2>2
  <2>7. f[m] = IF /\ Candidate(m - 1, st)
                  /\ f[m - 1] = None \/ Beats(m - 1, f[m - 1], tk)
               THEN m - 1 ELSE f[m - 1]
    BY <1>1, <2>2, <2>3 DEF ScanStep
  <2>8. m - 1 # None
    BY <2>4 DEF Tasks, None
  <2>. QED
    BY <2>2, <2>4, <2>5, <2>6, <2>7, <2>8
<1>4. Good(NTasks)
  BY <1>0, <1>3 DEF Bad
<1>. QED
  BY <1>4 DEF Champion, Tasks, f

\* What schedule() does to the states and the slices, whichever task the
\* scan chooses.
LEMMA ScheduleStep ==
    ASSUME current \in Tasks \cup {Boot},
           NEW st \in [Tasks -> TaskState],
           NEW tk \in [Tasks -> Int],
           \A t \in Tasks : st[t] = "RUNNING" => t = current,
           st[Idle] \in {"RUNNING", "READY"},
           Schedule(st, tk)
    PROVE  /\ current' \in Tasks
           /\ current' = Idle \/ Candidate(current', st)
           /\ state' \in [Tasks -> TaskState]
           /\ ticks' \in [Tasks -> Int]
           /\ \A t \in Tasks : state'[t] = "RUNNING" <=> t = current'
           /\ \A t \in Tasks :
                IF st[t] \in {"RUNNING", "READY"}
                THEN state'[t] \in {"RUNNING", "READY"}
                ELSE state'[t] = st[t]
           /\ \A t \in Tasks :
                \/ ticks'[t] = tk[t]
                \/ t = current /\ tk[t] = 0 /\ ticks'[t] = Priority[t]
<1>. DEFINE next == TaskSearch(st, tk)
<1>0. Idle \in Tasks
  BY SchedulerAssumption DEF Idle, Tasks
<1>1. next \in Tasks /\ (next = Idle \/ Candidate(next, st))
  BY <1>0, ChampionIsCandidate DEF TaskSearch
<1>2. st[next] \in {"RUNNING", "READY"}
  BY <1>1 DEF Candidate
<1>. HIDE DEF next
<1>3. /\ current' = next
      /\ state' = Switched(st, next)
      /\ ticks' = [t \in Tasks |->
                      IF t = current /\ tk[t] = 0 THEN Priority[t] ELSE tk[t]]
  BY DEF Schedule, next
<1>4. \A t \in Tasks :
        state'[t] = IF t = next THEN "RUNNING"
                    ELSE IF t = current /\ st[t] = "RUNNING" THEN "READY" ELSE st[t]
  BY <1>3 DEF Switched
<1>5. state' \in [Tasks -> TaskState]
  BY <1>3 DEF Switched, TaskState
<1>6. ticks' \in [Tasks -> Int]
  BY <1>3, SchedulerAssumption
<1>7. \A t \in Tasks : state'[t] = "RUNNING" <=> t = current'
  BY <1>3, <1>4
<1>8. \A t \in Tasks :
        IF st[t] \in {"RUNNING", "READY"}
        THEN state'[t] \in {"RUNNING", "READY"}
        ELSE state'[t] = st[t]
  BY <1>2, <1>4
<1>9. \A t \in Tasks :
        \/ ticks'[t] = tk[t]
        \/ t = current /\ tk[t] = 0 /\ ticks'[t] = Priority[t]
  BY <1>3
<1>. QED
  BY <1>1, <1>3, <1>5, <1>6, <1>7, <1>8, <1>9

-----------------------------------------------------------------------------
(* The sleep list.                                                         *)

\* list_insert_sort and task_wakeup stop at the first node whose key is
\* greater, or at the tail.
LEMMA InsertPosFirstGreater ==
    ASSUME NEW list \in Seq(Tasks), NEW key \in Int, NEW tk \in [Tasks -> Int]
    PROVE  /\ InsertPos(list, key, tk) \in 1 .. Len(list) + 1
           /\ \A i \in 1 .. InsertPos(list, key, tk) - 1 : tk[list[i]] <= key
           /\ InsertPos(list, key, tk) <= Len(list)
                => tk[list[InsertPos(list, key, tk)]] > key
<1>. DEFINE G == {i \in 1 .. Len(list) : tk[list[i]] > key} \cup {Len(list) + 1}
            Stop(p) == /\ \A i \in 1 .. p - 1 : tk[list[i]] <= key
                       /\ p <= Len(list) => tk[list[p]] > key
<1>0. Len(list) \in Nat /\ \A i \in 1 .. Len(list) : tk[list[i]] \in Int
  OBVIOUS
<1>1. PICK p \in G : \A y \in G : p <= y
  <2>1. G \in SUBSET Nat /\ G # {}
    BY <1>0
  <2>. HIDE DEF G
  <2>. QED
    BY <2>1, LeastNumber
<1>2. p \in 1 .. Len(list) + 1
  BY <1>0
<1>3. ASSUME NEW i \in 1 .. p - 1
      PROVE  tk[list[i]] <= key
  <2>1. i \in 1 .. Len(list) /\ ~(p <= i)
    BY <1>0, <1>2
  <2>2. ~(tk[list[i]] > key)
    BY <1>1, <2>1
  <2>. QED
    BY <1>0, <2>1, <2>2
<1>4. ASSUME p <= Len(list)
      PROVE  tk[list[p]] > key
  <2>1. p # Len(list) + 1
    BY <1>0, <1>4
  <2>. QED
    BY <1>1, <2>1
<1>5. Stop(p)
  BY <1>3, <1>4
<1>. QED
  BY <1>2, <1>5 DEF InsertPos

\* The list after list_insert_sort, element by element.
LEMMA InsertSortElements ==
    ASSUME NEW list \in Seq(Tasks), NEW t \in Tasks, NEW tk \in [Tasks -> Int]
    PROVE  LET p == InsertPos(list, tk[t], tk)
               new == InsertSort(list, t, tk)
           IN  /\ new \in Seq(Tasks)
               /\ Len(new) = Len(list) + 1
               /\ \A i \in 1 .. Len(list) + 1 :
                     new[i] = IF i < p THEN list[i]
                              ELSE IF i = p THEN t ELSE list[i - 1]
<1>. DEFINE p == InsertPos(list, tk[t], tk)
            a == SubSeq(list, 1, p - 1)
            b == SubSeq(list, p, Len(list))
<1>1. p \in 1 .. Len(list) + 1 /\ Len(list) \in Nat
  BY InsertPosFirstGreater
<1>. HIDE DEF p
<1>2. /\ a \in Seq(Tasks) /\ Len(a) = p - 1
      /\ \A i \in 1 .. p - 1 : a[i] = list[i]
  BY <1>1
<1>3. /\ b \in Seq(Tasks) /\ Len(b) = Len(list) + 1 - p
      /\ \A i \in 1 .. Len(list) + 1 - p : b[i] = list[i + p - 1]
  BY <1>1
<1>. DEFINE c == a \o <<t>>
<1>4. InsertSort(list, t, tk) = c \o b
  BY DEF InsertSort, InsertAt, p
<1>. HIDE DEF a, b
<1>5. /\ c \in Seq(Tasks) /\ Len(c) = p
      /\ \A i \in 1 .. p : c[i] = IF i < p THEN list[i] ELSE t
  BY <1>1, <1>2
<1>. HIDE DEF c
<1>6. /\ c \o b \in Seq(Tasks)
      /\ Len(c \o b) = Len(list) + 1
      /\ \A i \in 1 .. Len(list) + 1 : (c \o b)[i] = IF i <= p THEN c[i] ELSE b[i - p]
  <2>1. Len(c) + Len(b) = Len(list) + 1
    BY <1>1, <1>3, <1>5
  <2>2. /\ c \o b \in Seq(Tasks)
        /\ Len(c \o b) = Len(c) + Len(b)
        /\ \A i \in 1 .. Len(c) + Len(b) :
              (c \o b)[i] = IF i <= Len(c) THEN c[i] ELSE b[i - Len(c)]
    BY <1>3, <1>5, ConcatProperties
  <2>. QED
    BY <2>1, <2>2, <1>5
<1>7. ASSUME NEW i \in 1 .. Len(list) + 1, i > p
      PROVE  b[i - p] = list[i - 1]
  <2>1. i - p \in 1 .. Len(list) + 1 - p /\ (i - p) + p - 1 = i - 1
    BY <1>1, <1>7
  <2>. QED
    BY <1>3, <2>1
<1>8. ASSUME NEW i \in 1 .. Len(list) + 1
      PROVE  (c \o b)[i] = IF i < p THEN list[i] ELSE IF i = p THEN t ELSE list[i - 1]
  <2>1. CASE i <= p
    <3>1. i \in 1 .. p
      BY <1>1, <2>1
    <3>. QED
      BY <1>1, <1>5, <1>6, <2>1, <3>1
  <2>2. CASE i > p
    <3>1. ~(i <= p) /\ ~(i < p) /\ i # p
      BY <1>1, <2>2
    <3>2. (c \o b)[i] = b[i - p]
      BY <1>6, <3>1
    <3>. QED
      BY <1>7, <2>2, <3>1, <3>2
  <2>3. i <= p \/ i > p
    BY <1>1
  <2>. QED
    BY <2>1, <2>2, <2>3
<1>. QED
  BY <1>4, <1>6, <1>8 DEF p

\* Inserting keeps the list sorted when the keys of the other tasks do not
\* change, and links exactly one more task.
LEMMA InsertKeepsSorted ==
    ASSUME NEW list \in Seq(Tasks), NEW t \in Tasks, NEW tk \in [Tasks -> Int],
           \A i, j \in 1 .. Len(list) : i < j => tk[list[i]] <= tk[list[j]]
    PROVE  LET new == InsertSort(list, t, tk)
           IN  \A i, j \in 1 .. Len(new) : i < j => tk[new[i]] <= tk[new[j]]
<1>. DEFINE p == InsertPos(list, tk[t], tk)
            new == InsertSort(list, t, tk)
<1>1. /\ p \in 1 .. Len(list) + 1
      /\ \A i \in 1 .. p - 1 : tk[list[i]] <= tk[t]
      /\ p <= Len(list) => tk[list[p]] > tk[t]
  BY InsertPosFirstGreater
<1>2. /\ Len(new) = Len(list) + 1
      /\ \A i \in 1 .. Len(list) + 1 :
            new[i] = IF i < p THEN list[i] ELSE IF i = p THEN t ELSE list[i - 1]
  BY InsertSortElements
<1>3. Len(list) \in Nat /\ \A i \in 1 .. Len(list) : tk[list[i]] \in Int
  OBVIOUS
<1>4. tk[t] \in Int
  OBVIOUS
<1>. HIDE DEF p, new
<1>5. \A i \in p .. Len(list) : tk[t] <= tk[list[i]]
  <2>. SUFFICES ASSUME NEW i \in p .. Len(list)
                PROVE  tk[t] <= tk[list[i]]
    OBVIOUS
  <2>1. p \in 1 .. Len(list) /\ i \in 1 .. Len(list)
    BY <1>1, <1>3
  <2>2. p = i \/ p < i
    BY <2>1
  <2>3. tk[list[p]] <= tk[list[i]]
    BY <2>1, <2>2, <1>3
  <2>. QED
    BY <1>1, <1>3, <1>4, <2>1, <2>3
<1>6. ASSUME NEW i \in 1 .. Len(new), NEW j \in 1 .. Len(new), i < j
      PROVE  tk[new[i]] <= tk[new[j]]
  <2>1. i \in Int /\ j \in Int /\ p \in Int
    BY <1>1, <1>2, <1>3
  <2>2. CASE j < p
    <3>1. i < p /\ i \in 1 .. Len(list) /\ j \in 1 .. Len(list)
      BY <2>1, <2>2, <1>1, <1>3, <1>6
    <3>2. new[i] = list[i] /\ new[j] = list[j]
      BY <2>2, <3>1, <1>2
    <3>. QED
      BY <3>1, <3>2, <1>6
  <2>3. CASE j = p
    <3>1. i \in 1 .. p - 1 /\ new[i] = list[i] /\ new[j] = t
      BY <2>1, <2>3, <1>1, <1>2, <1>3, <1>6
    <3>. QED
      BY <3>1, <1>1
  <2>4. CASE j > p
    <3>1. new[j] = list[j - 1] /\ j - 1 \in 1 .. Len(list) /\ j - 1 \in p .. Len(list)
      BY <2>1, <2>4, <1>1, <1>2, <1>3
    <3>2. CASE i < p
      <4>1. new[i] = list[i] /\ i \in 1 .. Len(list) /\ i < j - 1
        BY <2>1, <2>4, <3>2, <1>1, <1>2, <1>3
      <4>. QED
        BY <3>1, <4>1
    <3>3. CASE i = p
      BY <3>1, <3>3, <1>2, <1>5
    <3>4. CASE i > p
      <4>1. new[i] = list[i - 1] /\ i - 1 \in 1 .. Len(list) /\ i - 1 < j - 1
        BY <2>1, <3>4, <1>1, <1>2, <1>3, <1>6
      <4>. QED
        BY <3>1, <4>1
    <3>5. i < p \/ i = p \/ i > p
      BY <2>1
    <3>. QED
      BY <3>2, <3>3, <3>4, <3>5
  <2>5. j < p \/ j = p \/ j > p
    BY <2>1
  <2>. QED
    BY <2>2, <2>3, <2>4, <2>5
<1>. QED
  BY <1>6 DEF new

\* list_insert_sort links the task it is given, once, and no other.
LEMMA InsertLinksOne ==
    ASSUME NEW list \in Seq(Tasks), NEW t \in Tasks, NEW tk \in [Tasks -> Int],
           \A i, j \in 1 .. Len(list) : list[i] = list[j] => i = j,
           \A i \in 1 .. Len(list) : list[i] # t
    PROVE  LET new == InsertSort(list, t, tk)
           IN  /\ \A i, j \in 1 .. Len(new) : new[i] = new[j] => i = j
               /\ \A u \in Tasks :
                    (\E i \in 1 .. Len(new) : u = new[i])
                    <=> u = t \/ (\E i \in 1 .. Len(list) : u = list[i])
<1>. DEFINE p == InsertPos(list, tk[t], tk)
            new == InsertSort(list, t, tk)
<1>1. p \in 1 .. Len(list) + 1
  BY InsertPosFirstGreater
<1>2. /\ Len(new) = Len(list) + 1
      /\ \A i \in 1 .. Len(list) + 1 :
            new[i] = IF i < p THEN list[i] ELSE IF i = p THEN t ELSE list[i - 1]
  BY InsertSortElements
<1>3. Len(list) \in Nat
  OBVIOUS
<1>. HIDE DEF p, new
<1>. DEFINE old(i) == IF i < p THEN i ELSE i - 1
<1>4. ASSUME NEW i \in 1 .. Len(new), i # p
      PROVE  old(i) \in 1 .. Len(list) /\ new[i] = list[old(i)]
  <2>1. i \in Int /\ p \in Int /\ (i < p \/ i > p)
    BY <1>1, <1>2, <1>3, <1>4
  <2>. QED
    BY <2>1, <1>1, <1>2, <1>3
<1>5. new[p] = t /\ p \in 1 .. Len(new)
  BY <1>1, <1>2, <1>3
<1>6. ASSUME NEW i \in 1 .. Len(new), NEW j \in 1 .. Len(new), new[i] = new[j]
      PROVE  i = j
  <2>0. ASSUME NEW k \in 1 .. Len(new), k # p
        PROVE  new[k] # t
    BY <1>4, <2>0
  <2>1. i = p <=> j = p
    BY <1>5, <1>6, <2>0
  <2>2. CASE i # p
    <3>1. old(i) = old(j)
      BY <2>1, <2>2, <1>4, <1>6
    <3>2. i \in Int /\ j \in Int /\ p \in Int
      BY <1>1, <1>2, <1>3
    <3>. QED
      BY <2>1, <2>2, <3>1, <3>2
  <2>. QED
    BY <2>1, <2>2
<1>7. ASSUME NEW u \in Tasks, NEW i \in 1 .. Len(list), u = list[i]
      PROVE  \E k \in 1 .. Len(new) : u = new[k]
  <2>1. CASE i < p
    <3>1. i \in 1 .. Len(new) /\ new[i] = list[i]
      BY <2>1, <1>1, <1>2, <1>3
    <3>. QED
      BY <3>1, <1>7
  <2>2. CASE i >= p
    <3>1. i + 1 \in 1 .. Len(new) /\ new[i + 1] = list[i]
      BY <2>2, <1>1, <1>2, <1>3
    <3>. QED
      BY <3>1, <1>7
  <2>3. i < p \/ i >= p
    BY <1>1, <1>3
  <2>. QED
    BY <2>1, <2>2, <2>3
<1>8. ASSUME NEW u \in Tasks
      PROVE  (\E i \in 1 .. Len(new) : u = new[i])
             <=> u = t \/ (\E i \in 1 .. Len(list) : u = list[i])
  <2>1. ASSUME NEW i \in 1 .. Len(new), u = new[i]
        PROVE  u = t \/ (\E k \in 1 .. Len(list) : u = list[k])
    BY <1>4, <1>5, <2>1
  <2>2. u = t => \E i \in 1 .. Len(new) : u = new[i]
    BY <1>5
  <2>. QED
    BY <1>7, <2>1, <2>2
<1>. QED
  BY <1>6, <1>8 DEF new

\* task_wakeup unlinks exactly the sleepers whose time has come.
LEMMA WakeupSplitsList ==
    ASSUME TypeOK, SleepSorted,
           \A i, j \in 1 .. Len(sleep_list) : sleep_list[i] = sleep_list[j] => i = j
    PROVE  /\ NotDue \in Seq(Tasks)
           /\ \A i, j \in 1 .. Len(NotDue) : NotDue[i] = NotDue[j] => i = j
           /\ \A i, j \in 1 .. Len(NotDue) :
                i < j => ticks[NotDue[i]] <= ticks[NotDue[j]]
           /\ \A u \in Tasks :
                (\E i \in 1 .. Len(sleep_list) : u = sleep_list[i])
                <=> u \in Due \/ (\E i \in 1 .. Len(NotDue) : u = NotDue[i])
           /\ \A i \in 1 .. Len(NotDue) : NotDue[i] \notin Due
           /\ Due \subseteq Tasks
           /\ \A u \in Due : ticks[u] <= jiffies
           /\ \A i \in 1 .. Len(NotDue) : ticks[NotDue[i]] > jiffies
<1>. DEFINE n == FirstNotDue
<1>0. /\ sleep_list \in Seq(Tasks) /\ ticks \in [Tasks -> Int] /\ jiffies \in Int
      /\ Len(sleep_list) \in Nat
      /\ \A i \in 1 .. Len(sleep_list) : sleep_list[i] \in Tasks /\ ticks[sleep_list[i]] \in Int
  BY DEF TypeOK
<1>1. /\ n \in 1 .. Len(sleep_list) + 1
      /\ \A i \in 1 .. n - 1 : ticks[sleep_list[i]] <= jiffies
      /\ n <= Len(sleep_list) => ticks[sleep_list[n]] > jiffies
  BY <1>0, InsertPosFirstGreater DEF FirstNotDue
<1>. HIDE DEF n
<1>2. /\ NotDue \in Seq(Tasks)
      /\ Len(NotDue) = Len(sleep_list) + 1 - n
      /\ \A i \in 1 .. Len(sleep_list) + 1 - n : NotDue[i] = sleep_list[i + n - 1]
  BY <1>0, <1>1 DEF NotDue, n
<1>3. Due = {sleep_list[i] : i \in 1 .. n - 1}
  BY DEF Due, n
<1>4. ASSUME NEW i \in 1 .. Len(NotDue)
      PROVE  /\ i + n - 1 \in n .. Len(sleep_list)
             /\ i + n - 1 \in 1 .. Len(sleep_list)
             /\ NotDue[i] = sleep_list[i + n - 1]
  BY <1>0, <1>1, <1>2
<1>5. ASSUME NEW k \in n .. Len(sleep_list)
      PROVE  ticks[sleep_list[k]] > jiffies
  <2>1. n \in 1 .. Len(sleep_list) /\ k \in 1 .. Len(sleep_list) /\ (n = k \/ n < k)
    BY <1>0, <1>1
  <2>2. ticks[sleep_list[n]] <= ticks[sleep_list[k]]
    BY <2>1, <1>0 DEF SleepSorted
  <2>. QED
    BY <2>1, <2>2, <1>0, <1>1
<1>6. ASSUME NEW i \in 1 .. Len(NotDue), NEW j \in 1 .. Len(NotDue)
      PROVE  /\ NotDue[i] = NotDue[j] => i = j
             /\ i < j => ticks[NotDue[i]] <= ticks[NotDue[j]]
  <2>1. /\ i + n - 1 = j + n - 1 => i = j
        /\ i < j => i + n - 1 < j + n - 1
    BY <1>0, <1>1, <1>2
  <2>. QED
    BY <1>4, <2>1 DEF SleepSorted
<1>7. ASSUME NEW i \in 1 .. Len(sleep_list)
      PROVE  sleep_list[i] \in Due \/ \E k \in 1 .. Len(NotDue) : sleep_list[i] = NotDue[k]
  <2>1. CASE i < n
    <3>1. i \in 1 .. n - 1
      BY <2>1, <1>0, <1>1
    <3>. QED
      BY <3>1, <1>3
  <2>2. CASE i >= n
    <3>. DEFINE k == i - n + 1
    <3>0. /\ Len(sleep_list) \in Nat /\ n \in 1 .. Len(sleep_list) + 1
          /\ Len(NotDue) = Len(sleep_list) + 1 - n
      BY <1>0, <1>1, <1>2
    <3>1. k \in 1 .. Len(NotDue) /\ k + n - 1 = i
      BY <2>2, <3>0
    <3>. HIDE DEF k
    <3>2. NotDue[k] = sleep_list[i]
      BY <3>1, <1>4
    <3>. QED
      BY <3>1, <3>2
  <2>3. i < n \/ i >= n
    BY <1>0, <1>1
  <2>. QED
    BY <2>1, <2>2, <2>3
<1>8. ASSUME NEW u \in Due
      PROVE  \E i \in 1 .. Len(sleep_list) : u = sleep_list[i] /\ ticks[u] <= jiffies
  <2>1. PICK i \in 1 .. n - 1 : u = sleep_list[i]
    BY <1>3
  <2>2. i \in 1 .. Len(sleep_list)
    BY <1>0, <1>1
  <2>. QED
    BY <2>1, <2>2, <1>1
<1>9. \A i \in 1 .. Len(NotDue) : ticks[NotDue[i]] > jiffies
  BY <1>4, <1>5
<1>10. \A i \in 1 .. Len(NotDue) : NotDue[i] \notin Due
  <2>. SUFFICES ASSUME NEW i \in 1 .. Len(NotDue), NotDue[i] \in Due
                PROVE  FALSE
    OBVIOUS
  <2>1. ticks[NotDue[i]] > jiffies /\ ticks[NotDue[i]] <= jiffies
    BY <1>8, <1>9
  <2>2. ticks[NotDue[i]] \in Int
    BY <1>0, <1>4
  <2>. QED
    BY <1>0, <2>1, <2>2
<1>11. \A u \in Tasks :
         (\E i \in 1 .. Len(sleep_list) : u = sleep_list[i])
         <=> u \in Due \/ (\E i \in 1 .. Len(NotDue) : u = NotDue[i])
  BY <1>4, <1>7, <1>8
<1>12. Due \subseteq Tasks
  BY <1>0, <1>8
<1>. QED
  BY <1>2, <1>6, <1>8, <1>9, <1>10, <1>11, <1>12

-----------------------------------------------------------------------------
(* The inductive invariant.  OneRunning and IdleNeverStops are needed for  *)
(* schedule() to be safe; NodeDiscipline and SleepSorted for task_wakeup;  *)
(* NoOversleep and DeadlineIsNoSlice then follow step by step.             *)

IInv ==
    /\ TypeOK
    /\ OneRunning
    /\ IdleNeverStops
    /\ NodeDiscipline
    /\ SleepSorted
    /\ NoOversleep
    /\ DeadlineIsNoSlice

LEMMA IdleIsTask == Idle \in Tasks
BY SchedulerAssumption DEF Idle, Tasks

LEMMA InitIInv == Init => IInv
BY SchedulerAssumption
   DEF Init, IInv, TypeOK, OneRunning, IdleNeverStops, NodeDiscipline, SleepSorted,
       NoOversleep, DeadlineIsNoSlice, Tasks, Boot, Idle, TaskState

\* What holds of the tables when schedule() is entered: IInv, but for the
\* current task, which may already be marked as stopped and linked.
Entry(st, tk, sl, bl, j) ==
    /\ current \in Tasks \cup {Boot}
    /\ st \in [Tasks -> TaskState] /\ tk \in [Tasks -> Int]
    /\ sl \in Seq(Tasks) /\ bl \subseteq Tasks /\ j \in Nat
    /\ \A t \in Tasks : st[t] = "RUNNING" => t = current
    /\ st[Idle] \in {"RUNNING", "READY"}
    /\ \A i, k \in 1 .. Len(sl) : sl[i] = sl[k] => i = k
    /\ \A t \in Tasks : st[t] = "SLEEPING" <=> \E i \in 1 .. Len(sl) : t = sl[i]
    /\ \A t \in Tasks : st[t] \in {"BLOCKED", "WAITING"} <=> t \in bl
    /\ \A i, k \in 1 .. Len(sl) : i < k => tk[sl[i]] <= tk[sl[k]]
    /\ \A t \in Tasks : st[t] = "SLEEPING" => tk[t] >= j /\ (t = current => tk[t] # 0)
    /\ \A t \in Tasks : st[t] # "SLEEPING" => tk[t] <= Priority[t]

\* schedule() establishes the invariant from such an entry.
LEMMA ScheduleEstablishes ==
    ASSUME NEW st, NEW tk, NEW sl, NEW bl, NEW j,
           Entry(st, tk, sl, bl, j),
           Schedule(st, tk),
           sleep_list' = sl, block_list' = bl, jiffies' = j,
           last' \in [Tasks -> Nat]
    PROVE  IInv'
<1>1. /\ current' \in Tasks
      /\ state' \in [Tasks -> TaskState]
      /\ ticks' \in [Tasks -> Int]
      /\ \A t \in Tasks : state'[t] = "RUNNING" <=> t = current'
      /\ \A t \in Tasks :
           IF st[t] \in {"RUNNING", "READY"}
           THEN state'[t] \in {"RUNNING", "READY"}
           ELSE state'[t] = st[t]
      /\ \A t \in Tasks :
           \/ ticks'[t] = tk[t]
           \/ t = current /\ tk[t] = 0 /\ ticks'[t] = Priority[t]
  <2>1. /\ current \in Tasks \cup {Boot}
        /\ st \in [Tasks -> TaskState]
        /\ tk \in [Tasks -> Int]
        /\ \A t \in Tasks : st[t] = "RUNNING" => t = current
        /\ st[Idle] \in {"RUNNING", "READY"}
    BY DEF Entry
  <2>. QED
    BY <2>1, ScheduleStep
<1>2. /\ \A t \in Tasks : state'[t] = "SLEEPING" <=> st[t] = "SLEEPING"
      /\ \A t \in Tasks :
           state'[t] \in {"BLOCKED", "WAITING"} <=> st[t] \in {"BLOCKED", "WAITING"}
  BY <1>1
<1>3. \A t \in Tasks : st[t] = "SLEEPING" => ticks'[t] = tk[t]
  BY <1>1 DEF Entry
<1>4. \A i \in 1 .. Len(sl) : sl[i] \in Tasks /\ ticks'[sl[i]] = tk[sl[i]]
  BY <1>3 DEF Entry
<1>5. TypeOK'
  BY <1>1 DEF TypeOK, Entry
<1>6. OneRunning'
  BY <1>1 DEF OneRunning
<1>7. IdleNeverStops'
  BY <1>1, IdleIsTask DEF IdleNeverStops, Entry
<1>8. NodeDiscipline'
  BY <1>2 DEF NodeDiscipline, Entry
<1>9. SleepSorted'
  BY <1>4 DEF SleepSorted, Entry
<1>10. NoOversleep'
  BY <1>2, <1>3 DEF NoOversleep, Entry
<1>11. DeadlineIsNoSlice'
  <2>. SUFFICES ASSUME NEW t \in Tasks, state'[t] # "SLEEPING"
                PROVE  ticks'[t] <= Priority[t]
    BY DEF DeadlineIsNoSlice
  <2>1. tk[t] <= Priority[t]
    BY <1>2 DEF Entry
  <2>2. ticks'[t] = tk[t] \/ ticks'[t] = Priority[t]
    BY <1>1
  <2>. QED
    BY <2>1, <2>2, SchedulerAssumption
<1>. QED
  BY <1>5, <1>6, <1>7, <1>8, <1>9, <1>10, <1>11 DEF IInv

LEMMA YieldIInv == IInv /\ TaskYield => IInv'
<1>. SUFFICES ASSUME IInv, TaskYield
              PROVE  IInv'
  OBVIOUS
<1>1. Entry(state, ticks, sleep_list, block_list, jiffies)
  BY DEF IInv, Entry, TypeOK, OneRunning, IdleNeverStops, NodeDiscipline, SleepSorted,
         NoOversleep, DeadlineIsNoSlice
<1>2. last' \in [Tasks -> Nat]
  BY DEF TaskYield, IInv, TypeOK
<1>. QED
  BY <1>1, <1>2, ScheduleEstablishes DEF TaskYield

LEMMA BlockIInv ==
    ASSUME IInv, NEW s \in {"BLOCKED", "WAITING"}, TaskBlock(s)
    PROVE  IInv'
<1>. DEFINE st == [state EXCEPT ![current] = s]
            bl == block_list \cup {current}
<1>1. current \in Tasks /\ current # Idle /\ state[current] = "RUNNING"
  BY DEF TaskBlock, IInv, OneRunning
<1>2. \A t \in Tasks : st[t] = IF t = current THEN s ELSE state[t]
  BY <1>1 DEF IInv, TypeOK
<1>3. Entry(st, ticks, sleep_list, bl, jiffies)
  <2>1. st \in [Tasks -> TaskState] /\ bl \subseteq Tasks
    BY <1>1 DEF IInv, TypeOK, TaskState
  <2>2. \A t \in Tasks : st[t] = "SLEEPING" <=> state[t] = "SLEEPING"
    BY <1>1, <1>2
  <2>3. \A t \in Tasks : st[t] \in {"BLOCKED", "WAITING"} <=> t \in bl
    BY <1>1, <1>2 DEF IInv, NodeDiscipline
  <2>. HIDE DEF st, bl
  <2>. QED
    BY <1>1, <1>2, <2>1, <2>2, <2>3, IdleIsTask
       DEF IInv, Entry, TypeOK, OneRunning, IdleNeverStops, NodeDiscipline, SleepSorted,
           NoOversleep, DeadlineIsNoSlice
<1>4. last' \in [Tasks -> Nat]
  BY DEF TaskBlock, IInv, TypeOK
<1>. QED
  BY <1>3, <1>4, ScheduleEstablishes DEF TaskBlock

LEMMA UnblockIInv ==
    ASSUME IInv, NEW t \in Tasks, TaskUnblock(t)
    PROVE  IInv'
<1>1. \A u \in Tasks : state'[u] = IF u = t THEN "READY" ELSE state[u]
  BY DEF TaskUnblock, IInv, TypeOK
<1>2. state[t] \in {"BLOCKED", "WAITING"}
  BY DEF TaskUnblock, IInv, NodeDiscipline
<1>3. TypeOK'
  BY DEF TaskUnblock, IInv, TypeOK, TaskState
<1>4. OneRunning' /\ IdleNeverStops'
  BY <1>1, <1>2, IdleIsTask DEF TaskUnblock, IInv, OneRunning, IdleNeverStops
<1>5. NodeDiscipline'
  <2>1. \A u \in Tasks : state'[u] = "SLEEPING" <=> state[u] = "SLEEPING"
    BY <1>1, <1>2
  <2>2. \A u \in Tasks : state'[u] \in {"BLOCKED", "WAITING"} <=> u \in block_list'
    BY <1>1 DEF TaskUnblock, IInv, NodeDiscipline
  <2>. QED
    BY <2>1, <2>2 DEF TaskUnblock, IInv, NodeDiscipline
<1>6. SleepSorted'
  BY DEF TaskUnblock, IInv, SleepSorted
<1>7. NoOversleep' /\ DeadlineIsNoSlice'
  BY <1>1, <1>2 DEF TaskUnblock, IInv, NoOversleep, DeadlineIsNoSlice
<1>. QED
  BY <1>3, <1>4, <1>5, <1>6, <1>7 DEF IInv

LEMMA SleepIInv ==
    ASSUME IInv, NEW n \in SleepTicks, TaskSleep(n)
    PROVE  IInv'
<1>. DEFINE st == [state EXCEPT ![current] = "SLEEPING"]
            tk == [ticks EXCEPT ![current] = jiffies + n]
            sl == InsertSort(sleep_list, current, tk)
<1>1. current \in Tasks /\ current # Idle /\ state[current] = "RUNNING"
  BY DEF TaskSleep, IInv, OneRunning
<1>2. n \in Nat \ {0} /\ jiffies \in Nat
  BY SchedulerAssumption DEF IInv, TypeOK
<1>3. /\ \A t \in Tasks : st[t] = IF t = current THEN "SLEEPING" ELSE state[t]
      /\ \A t \in Tasks : tk[t] = IF t = current THEN jiffies + n ELSE ticks[t]
      /\ st \in [Tasks -> TaskState] /\ tk \in [Tasks -> Int]
  BY <1>1, <1>2 DEF IInv, TypeOK, TaskState
<1>4. /\ sleep_list \in Seq(Tasks)
      /\ \A i \in 1 .. Len(sleep_list) : sleep_list[i] \in Tasks /\ sleep_list[i] # current
  BY <1>1 DEF IInv, TypeOK, NodeDiscipline
<1>. HIDE DEF st, tk
<1>5. \A i, j \in 1 .. Len(sleep_list) : i < j => tk[sleep_list[i]] <= tk[sleep_list[j]]
  BY <1>3, <1>4 DEF IInv, SleepSorted
<1>6. sl \in Seq(Tasks)
  BY <1>1, <1>3, <1>4, InsertSortElements
<1>7. \A i, j \in 1 .. Len(sl) : i < j => tk[sl[i]] <= tk[sl[j]]
  BY <1>1, <1>3, <1>4, <1>5, InsertKeepsSorted
<1>8. /\ \A i, j \in 1 .. Len(sl) : sl[i] = sl[j] => i = j
      /\ \A u \in Tasks :
           (\E i \in 1 .. Len(sl) : u = sl[i])
           <=> u = current \/ (\E i \in 1 .. Len(sleep_list) : u = sleep_list[i])
  <2>1. \A i, j \in 1 .. Len(sleep_list) : sleep_list[i] = sleep_list[j] => i = j
    BY DEF IInv, NodeDiscipline
  <2>. QED
    BY <1>1, <1>3, <1>4, <2>1, InsertLinksOne
<1>. HIDE DEF sl
<1>9. Entry(st, tk, sl, block_list, jiffies)
  <2>1. \A t \in Tasks : st[t] = "SLEEPING" <=> \E i \in 1 .. Len(sl) : t = sl[i]
    BY <1>1, <1>3, <1>8 DEF IInv, NodeDiscipline
  <2>2. \A t \in Tasks : st[t] \in {"BLOCKED", "WAITING"} <=> t \in block_list
    BY <1>1, <1>3 DEF IInv, NodeDiscipline
  <2>3. \A t \in Tasks : st[t] = "SLEEPING" => tk[t] >= jiffies /\ (t = current => tk[t] # 0)
    BY <1>2, <1>3 DEF IInv, NoOversleep
  <2>4. \A t \in Tasks : st[t] # "SLEEPING" => tk[t] <= Priority[t]
    BY <1>3 DEF IInv, DeadlineIsNoSlice
  <2>. QED
    BY <1>1, <1>2, <1>3, <1>6, <1>7, <1>8, <2>1, <2>2, <2>3, <2>4, IdleIsTask
       DEF IInv, Entry, TypeOK, OneRunning, IdleNeverStops
<1>10. last' \in [Tasks -> Nat]
  BY DEF TaskSleep, IInv, TypeOK
<1>11. Schedule(st, tk) /\ sleep_list' = sl /\ UNCHANGED <<jiffies, block_list>>
  BY DEF TaskSleep, st, tk, sl
<1>. QED
  BY <1>9, <1>10, <1>11, ScheduleEstablishes

\* The tables after task_wakeup and the decrement of clock_handler.
LEMMA WakeupEntry ==
    ASSUME IInv
    PROVE  Entry(StateAfterWakeup, TicksAfterWakeup, NotDue, block_list, jiffies + 1)
<1>. DEFINE st == StateAfterWakeup
            tk == TicksAfterWakeup
<1>1. /\ NotDue \in Seq(Tasks)
      /\ \A i, j \in 1 .. Len(NotDue) : NotDue[i] = NotDue[j] => i = j
      /\ \A i, j \in 1 .. Len(NotDue) : i < j => ticks[NotDue[i]] <= ticks[NotDue[j]]
      /\ \A u \in Tasks :
           (\E i \in 1 .. Len(sleep_list) : u = sleep_list[i])
           <=> u \in Due \/ (\E i \in 1 .. Len(NotDue) : u = NotDue[i])
      /\ \A i \in 1 .. Len(NotDue) : NotDue[i] \notin Due
      /\ Due \subseteq Tasks
      /\ \A i \in 1 .. Len(NotDue) : ticks[NotDue[i]] > jiffies
  BY WakeupSplitsList DEF IInv, NodeDiscipline
<1>2. /\ jiffies \in Nat /\ ticks \in [Tasks -> Int] /\ state \in [Tasks -> TaskState]
      /\ Priority \in [Tasks -> Nat \ {0}]
  BY SchedulerAssumption DEF IInv, TypeOK
<1>3. \A t \in Tasks :
        /\ st[t] = IF t \in Due THEN "READY" ELSE state[t]
        /\ tk[t] = IF t \in Due THEN 0 ELSE IF t = current THEN ticks[t] - 1 ELSE ticks[t]
  BY DEF StateAfterWakeup, TicksAfterWakeup
<1>4. st \in [Tasks -> TaskState] /\ tk \in [Tasks -> Int]
  BY <1>2 DEF StateAfterWakeup, TicksAfterWakeup, TaskState
<1>5. /\ \A t \in Due : state[t] = "SLEEPING"
      /\ \A i \in 1 .. Len(NotDue) : state[NotDue[i]] = "SLEEPING" /\ NotDue[i] \in Tasks
  BY <1>1 DEF IInv, NodeDiscipline
<1>6. \A t \in Tasks : t = current => state[t] = "RUNNING"
  BY DEF IInv, OneRunning
<1>. HIDE DEF st, tk
<1>7. \A i \in 1 .. Len(NotDue) : tk[NotDue[i]] = ticks[NotDue[i]]
  BY <1>1, <1>3, <1>5, <1>6
<1>8. \A i, j \in 1 .. Len(NotDue) : i < j => tk[NotDue[i]] <= tk[NotDue[j]]
  BY <1>1, <1>7
<1>9. \A t \in Tasks : st[t] = "SLEEPING" <=> \E i \in 1 .. Len(NotDue) : t = NotDue[i]
  BY <1>1, <1>3, <1>5 DEF IInv, NodeDiscipline
<1>10. \A t \in Tasks : st[t] \in {"BLOCKED", "WAITING"} <=> t \in block_list
  BY <1>3, <1>5 DEF IInv, NodeDiscipline
<1>11. \A t \in Tasks :
         st[t] = "SLEEPING" => tk[t] >= jiffies + 1 /\ (t = current => tk[t] # 0)
  <2>. SUFFICES ASSUME NEW t \in Tasks, st[t] = "SLEEPING"
                PROVE  tk[t] >= jiffies + 1 /\ t # current
    OBVIOUS
  <2>1. PICK i \in 1 .. Len(NotDue) : t = NotDue[i]
    BY <1>9
  <2>2. tk[t] > jiffies /\ t # current
    BY <2>1, <1>1, <1>5, <1>6, <1>7
  <2>. QED
    BY <2>2, <1>2, <1>4
<1>12. \A t \in Tasks : st[t] # "SLEEPING" => tk[t] <= Priority[t]
  <2>. SUFFICES ASSUME NEW t \in Tasks, st[t] # "SLEEPING"
                PROVE  tk[t] <= Priority[t]
    OBVIOUS
  <2>1. CASE t \in Due
    BY <2>1, <1>2, <1>3
  <2>2. CASE t \notin Due
    <3>1. ticks[t] <= Priority[t]
      BY <2>2, <1>3 DEF IInv, DeadlineIsNoSlice
    <3>. QED
      BY <2>2, <3>1, <1>2, <1>3
  <2>. QED
    BY <2>1, <2>2
<1>13. /\ \A t \in Tasks : st[t] = "RUNNING" => t = current
       /\ st[Idle] \in {"RUNNING", "READY"}
       /\ current \in Tasks \cup {Boot} /\ block_list \subseteq Tasks
  BY <1>3, IdleIsTask DEF IInv, TypeOK, OneRunning, IdleNeverStops
<1>14. /\ NotDue \in Seq(Tasks) /\ jiffies + 1 \in Nat
       /\ \A i, j \in 1 .. Len(NotDue) : NotDue[i] = NotDue[j] => i = j
  BY <1>1, <1>2
<1>. DEFINE nd == NotDue
            j1 == jiffies + 1
<1>. HIDE DEF nd, j1
<1>15. Entry(st, tk, nd, block_list, j1)
  BY <1>4, <1>8, <1>9, <1>10, <1>11, <1>12, <1>13, <1>14, Zenon DEF Entry, nd, j1
<1>. QED
  BY <1>15 DEF st, tk, nd, j1

LEMMA ClockIInv == IInv /\ ClockTick => IInv'
<1>. SUFFICES ASSUME IInv, ClockTick
              PROVE  IInv'
  OBVIOUS
<1>1. Entry(StateAfterWakeup, TicksAfterWakeup, NotDue, block_list, jiffies + 1)
  BY WakeupEntry
<1>2. /\ sleep_list' = NotDue /\ block_list' = block_list /\ jiffies' = jiffies + 1
      /\ last' \in [Tasks -> Nat]
  BY DEF ClockTick, IInv, TypeOK
<1>3. CASE SliceOver
  <2>1. Schedule(StateAfterWakeup, TicksAfterWakeup)
    BY <1>3 DEF ClockTick
  <2>. QED
    BY <1>1, <1>2, <2>1, ScheduleEstablishes
<1>4. CASE ~SliceOver
  <2>1. state' = StateAfterWakeup /\ ticks' = TicksAfterWakeup /\ current' = current
    BY <1>4 DEF ClockTick
  <2>. HIDE DEF StateAfterWakeup, TicksAfterWakeup, NotDue
  <2>2. TypeOK'
    BY <1>1, <1>2, <2>1 DEF TypeOK, Entry
  <2>3. OneRunning'
    <3>1. \A t \in Tasks : t = current => t \notin Due /\ state[t] = "RUNNING"
      BY WakeupSplitsList DEF IInv, OneRunning, NodeDiscipline
    <3>2. \A t \in Tasks : t = current => state'[t] = "RUNNING"
      BY <2>1, <3>1 DEF StateAfterWakeup
    <3>3. \A t \in Tasks : StateAfterWakeup[t] = "RUNNING" => t = current
      BY <1>1 DEF Entry
    <3>. QED
      BY <2>1, <3>2, <3>3 DEF OneRunning
  <2>4. IdleNeverStops' /\ NodeDiscipline'
    <3>1. IdleNeverStops'
      BY <1>1, <2>1, Zenon DEF IdleNeverStops, Entry
    <3>2. (\A i, j \in 1 .. Len(sleep_list) :
                sleep_list[i] = sleep_list[j] => i = j)'
      <4>1. \A i, k \in 1 .. Len(NotDue) : NotDue[i] = NotDue[k] => i = k
        BY <1>1, Zenon DEF Entry
      <4>. QED
        BY <1>2, <4>1
    <3>3. (\A t \in Tasks :
                /\ state[t] = "SLEEPING" <=> \E i \in 1 .. Len(sleep_list) : t = sleep_list[i]
                /\ state[t] \in {"BLOCKED", "WAITING"} <=> t \in block_list)'
      BY <1>1, <1>2, <2>1, Zenon DEF Entry
    <3>. QED
      BY <3>1, <3>2, <3>3, Zenon DEF NodeDiscipline
  <2>5. SleepSorted'
    BY <1>1, <1>2, <2>1, Zenon DEF SleepSorted, Entry
  <2>6. NoOversleep' /\ DeadlineIsNoSlice'
    BY <1>1, <1>2, <2>1, Zenon DEF NoOversleep, DeadlineIsNoSlice, Entry
  <2>. QED
    BY <2>2, <2>3, <2>4, <2>5, <2>6 DEF IInv
<1>. QED
  BY <1>3, <1>4

-----------------------------------------------------------------------------
(* The theorems.                                                           *)

\* The invariant holds in every state of every behaviour of the scheduler.
THEOREM SchedulerInvariant == Spec => []IInv
<1>1. IInv /\ [Next]_vars => IInv'
  <2>. SUFFICES ASSUME IInv, [Next]_vars
                PROVE  IInv'
    OBVIOUS
  <2>1. CASE ClockTick
    BY <2>1, ClockIInv
  <2>2. ASSUME NEW s \in {"BLOCKED", "WAITING"}, TaskBlock(s)
        PROVE  IInv'
    BY <2>2, BlockIInv
  <2>3. ASSUME NEW t \in Tasks, TaskUnblock(t)
        PROVE  IInv'
    BY <2>3, UnblockIInv
  <2>4. ASSUME NEW n \in SleepTicks, TaskSleep(n)
        PROVE  IInv'
    BY <2>4, SleepIInv
  <2>5. CASE TaskYield
    BY <2>5, YieldIInv
  <2>6. CASE UNCHANGED vars
    BY <2>6 DEF vars, IInv, TypeOK, OneRunning, IdleNeverStops, NodeDiscipline,
                SleepSorted, NoOversleep, DeadlineIsNoSlice
  <2>. QED
    BY <2>1, <2>2, <2>3, <2>4, <2>5, <2>6 DEF Next
<1>. QED
  BY <1>1, InitIInv, PTL DEF Spec

\* Every variable keeps its type.
THEOREM SchedulerTypeOK == Spec => []TypeOK
<1>1. IInv => TypeOK
  BY DEF IInv
<1>. QED
  BY <1>1, SchedulerInvariant, PTL

\* A task's node is linked exactly while its state says so, whatever the
\* order of ticks, wake-ups and calls.
THEOREM SchedulerNodeDiscipline == Spec => []NodeDiscipline
<1>1. IInv => NodeDiscipline
  BY DEF IInv
<1>. QED
  BY <1>1, SchedulerInvariant, PTL

\* No sleeper is passed over by task_wakeup.
THEOREM SchedulerNoOversleep == Spec => []NoOversleep
<1>1. IInv => NoOversleep
  BY DEF IInv
<1>. QED
  BY <1>1, SchedulerInvariant, PTL

\* Exactly the task on whose stack the processor runs is marked running.
THEOREM SchedulerOneRunning == Spec => []OneRunning
<1>1. IInv => OneRunning
  BY DEF IInv
<1>. QED
  BY <1>1, SchedulerInvariant, PTL

\* A sleeper is woken only when its wake-up time has come.
THEOREM SchedulerNoEarlyWake == Spec => NoEarlyWake
<1>. DEFINE Woken == \A t \in Tasks :
                state[t] = "SLEEPING" /\ state'[t] # "SLEEPING" => ticks[t] <= jiffies
<1>1. ASSUME IInv, NEW st \in [Tasks -> TaskState], NEW tk, Schedule(st, tk), NEW t \in Tasks,
             st[t] = "SLEEPING", st[Idle] # "SLEEPING"
      PROVE  state'[t] = "SLEEPING"
  <2>1. TaskSearch(st, tk) # t
    BY <1>1, ChampionIsCandidate DEF TaskSearch, Candidate
  <2>. QED
    BY <1>1, <2>1 DEF Schedule, Switched
<1>2. IInv /\ [Next]_vars => [Woken]_vars
  <2>. SUFFICES ASSUME IInv, [Next]_vars, NEW t \in Tasks,
                       state[t] = "SLEEPING", state'[t] # "SLEEPING"
                PROVE  ticks[t] <= jiffies
    OBVIOUS
  <2>0. /\ state \in [Tasks -> TaskState] /\ state[Idle] # "SLEEPING" /\ Idle \in Tasks
        /\ (current \in Tasks => current # t)
    BY IdleIsTask DEF IInv, TypeOK, IdleNeverStops, OneRunning
  <2>1. CASE ClockTick
    <3>1. t \in Due \/ StateAfterWakeup[t] = "SLEEPING"
      BY DEF StateAfterWakeup
    <3>2. /\ Due \subseteq Tasks /\ \A u \in Due : ticks[u] <= jiffies
          /\ \A u \in Due : state[u] = "SLEEPING"
      BY WakeupSplitsList DEF IInv, NodeDiscipline
    <3>3. /\ StateAfterWakeup \in [Tasks -> TaskState]
          /\ StateAfterWakeup[Idle] # "SLEEPING"
      BY <2>0, <3>2 DEF StateAfterWakeup, TaskState
    <3>. QED
      BY <1>1, <2>1, <3>1, <3>2, <3>3 DEF ClockTick
  <2>2. ASSUME NEW s \in {"BLOCKED", "WAITING"}, TaskBlock(s)
        PROVE  FALSE
    <3>1. /\ [state EXCEPT ![current] = s] \in [Tasks -> TaskState]
          /\ [state EXCEPT ![current] = s][t] = "SLEEPING"
          /\ [state EXCEPT ![current] = s][Idle] # "SLEEPING"
      BY <2>0, <2>2 DEF TaskBlock, TaskState
    <3>. QED
      BY <1>1, <2>2, <3>1 DEF TaskBlock
  <2>3. ASSUME NEW u \in Tasks, TaskUnblock(u)
        PROVE  FALSE
    BY <2>0, <2>3 DEF TaskUnblock, IInv, NodeDiscipline
  <2>4. ASSUME NEW n \in SleepTicks, TaskSleep(n)
        PROVE  FALSE
    <3>1. /\ [state EXCEPT ![current] = "SLEEPING"] \in [Tasks -> TaskState]
          /\ [state EXCEPT ![current] = "SLEEPING"][t] = "SLEEPING"
          /\ [state EXCEPT ![current] = "SLEEPING"][Idle] # "SLEEPING"
      BY <2>0, <2>4 DEF TaskSleep, TaskState
    <3>. QED
      BY <1>1, <2>4, <3>1 DEF TaskSleep
  <2>5. ~TaskYield
    BY <1>1, <2>0 DEF TaskYield
  <2>6. ~UNCHANGED vars
    BY DEF vars
  <2>. QED
    BY <2>1, <2>2, <2>3, <2>4, <2>5, <2>6 DEF Next
<1>. QED
  BY <1>2, SchedulerInvariant, PTL DEF Spec, NoEarlyWake

-----------------------------------------------------------------------------
(* The scheduler implements what the other modules assume of it.           *)

LEMMA SearchIsEligible ==
    ASSUME NEW st, NEW tk
    PROVE  TaskSearch(st, tk) \in D!Eligible(st)
BY ChampionIsCandidate DEF TaskSearch, Candidate, D!Eligible, D!Ready

LEMMA ScheduleIsDispatch ==
    ASSUME NEW st, NEW tk, Schedule(st, tk)
    PROVE  D!Dispatch(st)
BY SearchIsEligible DEF Schedule, Switched, D!Dispatch, D!Switched

\* Every behaviour of the scheduler is one of the abstract dispatcher: only
\* ready tasks are given the processor, and the idle task when there is none.
THEOREM SchedulerImplementsDispatcher == Spec => ImplementsDispatcher
<1>1. Init => D!DispatchInit
  BY DEF Init, D!DispatchInit
<1>2. IInv /\ [Next]_vars => [D!DispatchNext]_<<current, state>>
  <2>. SUFFICES ASSUME IInv, [Next]_vars
                PROVE  D!DispatchNext \/ UNCHANGED <<current, state>>
    OBVIOUS
  <2>. USE DEF D!DispatchNext
  <2>0. state \in [Tasks -> TaskState]
    BY DEF IInv, TypeOK
  <2>1. CASE ClockTick
    <3>1. Due \in SUBSET {t \in Tasks : state[t] \in D!Stopped}
      BY WakeupSplitsList DEF IInv, NodeDiscipline, D!Stopped
    <3>2. D!Wake(state, Due) = StateAfterWakeup
      BY DEF D!Wake, StateAfterWakeup
    <3>3. CASE SliceOver
      <4>1. D!Dispatch(D!Wake(state, Due))
        BY <2>1, <3>2, <3>3, ScheduleIsDispatch DEF ClockTick
      <4>. QED
        BY <3>1, <4>1 DEF D!Preempt
    <3>4. CASE ~SliceOver
      BY <2>1, <3>1, <3>2, <3>4 DEF ClockTick, D!WakeUp
    <3>. QED
      BY <3>3, <3>4
  <2>2. ASSUME NEW s \in {"BLOCKED", "WAITING"}, TaskBlock(s)
        PROVE  D!Stop
    BY <2>2, ScheduleIsDispatch DEF TaskBlock, D!Stop, D!Mark, D!Stopped
  <2>3. ASSUME NEW t \in Tasks, TaskUnblock(t)
        PROVE  D!WakeUp
    <3>1. {t} \in SUBSET {u \in Tasks : state[u] \in D!Stopped}
      BY <2>3 DEF TaskUnblock, IInv, NodeDiscipline, D!Stopped
    <3>2. state' = D!Wake(state, {t})
      BY <2>0, <2>3 DEF TaskUnblock, D!Wake
    <3>. QED
      BY <2>3, <3>1, <3>2 DEF D!WakeUp, TaskUnblock
  <2>4. ASSUME NEW n \in SleepTicks, TaskSleep(n)
        PROVE  D!Stop
    BY <2>4, ScheduleIsDispatch DEF TaskSleep, D!Stop, D!Mark, D!Stopped
  <2>5. ASSUME TaskYield
        PROVE  D!Preempt
    <3>1. state = D!Wake(state, {})
      BY <2>0 DEF D!Wake
    <3>2. D!Dispatch(D!Wake(state, {}))
      BY <2>5, <3>1, ScheduleIsDispatch DEF TaskYield
    <3>. QED
      BY <3>2 DEF D!Preempt
  <2>6. CASE UNCHANGED vars
    BY <2>6 DEF vars
  <2>. QED
    BY <2>1, <2>2, <2>3, <2>4, <2>5, <2>6 DEF Next
<1>. QED
  BY <1>1, <1>2, SchedulerInvariant, PTL
     DEF Spec, ImplementsDispatcher, D!DispatchSpec, D!dispatchVars

=============================================================================
