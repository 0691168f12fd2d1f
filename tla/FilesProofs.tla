----------------------------- MODULE FilesProofs -----------------------------
(***************************************************************************)
(* Proofs about Files, for any number of tasks, files, descriptors, inodes *)
(* and entries.                                                            *)
(*                                                                         *)
(* On a disk that waits and on one that does not the table of open files   *)
(* counts its descriptors, and a descriptor stays with its inode.          *)
(*                                                                         *)
(* The two hold each other up: a place in the table is given away when its *)
(* count is 0, and what makes that safe is that the count is the number of *)
(* descriptors.  What has to be added is which calls are inside put_file   *)
(* (Calls), since those descriptors are written but not counted.           *)
(*                                                                         *)
(* On a device that never waits, directories name the inodes in use, and   *)
(* nlinks is what they name: a call on a directory is then over before the *)
(* next begins, and the invariant is what each call has done so far.  On a *)
(* disk that waits this is false, as the runs show.                        *)
(***************************************************************************)
EXTENDS Files, TLAPS, FiniteSetTheorems, WellFoundedInduction

\* Every nonempty set of naturals has a least element: a statement about every
\* n is proved from a least n for which it fails.
LEMMA LeastNumber ==
    ASSUME NEW T \in SUBSET Nat, T # {}
    PROVE  \E m \in T : \A y \in T : m <= y
<1>1. IsWellFoundedOn({ss \in Nat \X Nat : ss[1] < ss[2]}, Nat)
  BY NatLessThanWellFounded DEF OpToRel
<1>2. PICK m \in T : \A y \in T : <<y, m>> \notin {ss \in Nat \X Nat : ss[1] < ss[2]}
  BY <1>1, WFMin
<1>3. \A y \in T : y \in Nat /\ m \in Nat /\ ~(y < m)
  BY <1>2
<1> QED
  BY <1>3

Fds == 1 .. FdNr
Places == 1 .. FileNr

\* The inode of an open file is whatever the call that opened it found.
Typed(inodes) ==
    /\ table \in [Places -> [count : Int, inode : inodes]]
    /\ opened \in [Tasks -> [Fds -> inodes]]

TypeOK ==
    /\ alive \in SUBSET Tasks /\ IsFiniteSet(alive)
    /\ fds \in [Tasks -> [Fds -> 0 .. FileNr]]
    /\ op = [t \in Tasks |-> op[t]]
    /\ \E inodes : Typed(inodes)

\* What a call that is about to dup needs.
DupArgs(o) == o.pc = "dup" => o.fd \in Fds /\ o.arg \in Fds

\* A call is in put_file or not; after it the call goes on elsewhere.
Calls ==
    \A t \in Tasks :
        /\ DupArgs(op[t])
        /\ op[t].pc = "close" =>
            /\ t \in alive /\ op[t].fd \in Fds
            /\ op[t].next.pc # "close" /\ DupArgs(op[t].next)

IInv == TypeOK /\ Calls /\ CountIsDescriptors /\ DescriptorKeepsInode

\* A descriptor that put_file has not given up.
Uses(t, d, f) == fds[t][d] = f /\ ~ (op[t].pc = "close" /\ op[t].fd = d)

UsersOf(f) == {x \in alive \X Fds : Uses(x[1], x[2], f)}

-----------------------------------------------------------------------------
(* The count of a file and its descriptors.                                *)

LEMMA UsersFinite ==
    ASSUME TypeOK, NEW f
    PROVE  /\ IsFiniteSet(UsersOf(f))
           /\ Cardinality(UsersOf(f)) \in Nat
<1>1. FdNr \in Int /\ 1 \in Int
  BY FilesAssumption
<1>2. IsFiniteSet(Fds)
  BY <1>1, FS_Interval DEF Fds
<1>3. IsFiniteSet(alive \X Fds)
  BY <1>2, FS_Product DEF TypeOK
<1>4. UsersOf(f) \in SUBSET (alive \X Fds)
  BY DEF UsersOf
<1>5. IsFiniteSet(UsersOf(f))
  BY <1>3, <1>4, FS_Subset
<1> QED
  BY <1>5, FS_CardinalityType

LEMMA CountIsUsers ==
    ASSUME IInv, NEW f \in Places
    PROVE  /\ table[f].count = Cardinality(UsersOf(f))
           /\ table[f].count \in Nat
           /\ table[f].count = 0 <=> UsersOf(f) = {}
<1>1. table[f].count = Cardinality(UsersOf(f))
  BY DEF IInv, CountIsDescriptors, UsersOf, Uses, Places, Fds
<1>2. IsFiniteSet(UsersOf(f)) /\ Cardinality(UsersOf(f)) \in Nat
  BY UsersFinite DEF IInv
<1> QED
  BY <1>1, <1>2, FS_EmptySet

\* A step that takes or gives up at most one descriptor of each file.
LEMMA CountsKeep ==
    ASSUME IInv,
           \A f \in Places :
             \/ UsersOf(f)' = UsersOf(f) /\ table'[f].count = table[f].count
             \/ \E x : /\ x \notin UsersOf(f) /\ UsersOf(f)' = UsersOf(f) \cup {x}
                       /\ table'[f].count = table[f].count + 1
             \/ \E x \in UsersOf(f) : /\ UsersOf(f)' = UsersOf(f) \ {x}
                                      /\ table'[f].count = table[f].count - 1
    PROVE  CountIsDescriptors'
<1> SUFFICES ASSUME NEW f \in Places
             PROVE  table'[f].count = Cardinality(UsersOf(f)')
  BY DEF CountIsDescriptors, UsersOf, Uses, Places, Fds
<1>1. table[f].count = Cardinality(UsersOf(f)) /\ IsFiniteSet(UsersOf(f))
  BY CountIsUsers, UsersFinite DEF IInv
<1> HIDE DEF Places
<1>2. CASE UsersOf(f)' = UsersOf(f) /\ table'[f].count = table[f].count
  BY <1>1, <1>2
<1>3. ASSUME NEW x, x \notin UsersOf(f), UsersOf(f)' = UsersOf(f) \cup {x},
             table'[f].count = table[f].count + 1
      PROVE  table'[f].count = Cardinality(UsersOf(f)')
  <2>1. Cardinality(UsersOf(f) \cup {x}) = Cardinality(UsersOf(f)) + 1
    BY <1>1, <1>3, FS_AddElement
  <2> QED
    BY <1>1, <1>3, <2>1
<1>4. ASSUME NEW x \in UsersOf(f), UsersOf(f)' = UsersOf(f) \ {x},
             table'[f].count = table[f].count - 1
      PROVE  table'[f].count = Cardinality(UsersOf(f)')
  <2>1. Cardinality(UsersOf(f) \ {x}) = Cardinality(UsersOf(f)) - 1
    BY <1>1, <1>4, FS_RemoveElement
  <2> QED
    BY <1>1, <1>4, <2>1
<1> QED
  BY <1>2, <1>3, <1>4

-----------------------------------------------------------------------------
LEMMA InitIInv == Init => IInv
<1> SUFFICES ASSUME Init PROVE IInv
  OBVIOUS
<1>1. First \in Tasks /\ FileNr \in Nat /\ FdNr \in Nat
  BY FilesAssumption
<1>2. TypeOK
  <2>1. alive \in SUBSET Tasks /\ IsFiniteSet(alive)
    BY <1>1, FS_Singleton DEF Init
  <2>2. fds \in [Tasks -> [Fds -> 0 .. FileNr]]
    <3>1. 0 \in 0 .. FileNr
      BY <1>1
    <3> QED
      BY <3>1 DEF Init, Fds
  <2>3. Typed({0})
    BY DEF Init, Places, Fds, Typed
  <2>4. op = [t \in Tasks |-> op[t]]
    BY DEF Init
  <2> QED
    BY <2>1, <2>2, <2>3, <2>4 DEF TypeOK
<1>3. \A t \in Tasks : op[t].pc = "idle"
  BY DEF Init, Idle
<1>4. Calls
  BY <1>3 DEF Calls, DupArgs
<1>5. ASSUME NEW f \in Places
      PROVE  table[f].count = Cardinality(UsersOf(f))
  <2>1. UsersOf(f) = {}
    <3>1. \A t \in Tasks, d \in Fds : fds[t][d] = 0 /\ f # 0
      BY <1>1 DEF Init, Fds, Places
    <3> QED
      BY <1>1, <1>2, <3>1 DEF UsersOf, Uses, TypeOK
  <2>2. table[f].count = 0
    BY DEF Init, Places
  <2> QED
    BY <2>1, <2>2, FS_EmptySet
<1>6. CountIsDescriptors
  BY <1>5 DEF CountIsDescriptors, UsersOf, Uses, Places, Fds
<1>7. DescriptorKeepsInode
  BY <1>1 DEF Init, DescriptorKeepsInode
<1> QED
  BY <1>2, <1>4, <1>6, <1>7 DEF IInv

\* A step of a call outside put_file that leaves the open files alone.
LEMMA DiskStepKeeps ==
    ASSUME IInv, NEW t \in alive, op[t].pc # "close",
           NEW next, Goes(t, next), next.pc # "close", DupArgs(next),
           UNCHANGED files
    PROVE  IInv'
<1>1. UNCHANGED <<table, fds, alive, opened>>
  BY DEF files
<1>2. t \in Tasks /\ \A u \in Tasks : op'[u] = IF u = t THEN next ELSE op[u]
  BY DEF IInv, TypeOK, Goes
<1>3. TypeOK'
  BY <1>1 DEF IInv, TypeOK, Typed, Goes
<1>4. Calls'
  BY <1>1, <1>2 DEF IInv, Calls
<1>5. \A u \in alive, d \in Fds :
        op'[u].pc = "close" /\ op'[u].fd = d <=> op[u].pc = "close" /\ op[u].fd = d
  BY <1>2 DEF IInv, TypeOK
<1>6. ASSUME NEW f \in Places
      PROVE  UsersOf(f)' = UsersOf(f)
  BY <1>1, <1>5 DEF UsersOf, Uses
<1>7. CountIsDescriptors'
  BY <1>1, <1>6, CountsKeep
<1>8. DescriptorKeepsInode'
  BY <1>1, <1>5 DEF IInv, DescriptorKeepsInode, Fds
<1> QED
  BY <1>3, <1>4, <1>7, <1>8 DEF IInv

-----------------------------------------------------------------------------
(* The open files.                                                         *)

\* put_file: the descriptor stops counting, at once or when iput is over.
LEMMA CloseKeeps ==
    ASSUME IInv, NEW t \in alive, op[t].pc # "close",
           NEW d \in Fds, fds[t][d] # 0,
           NEW next, next.pc # "close", DupArgs(next),
           Close(t, d, next)
    PROVE  IInv'
<1> DEFINE g == fds[t][d]
           o == IF table[g].count = 1 THEN [pc |-> "close", fd |-> d, next |-> next] ELSE next
<1> PICK V : Typed(V)
  BY DEF IInv, TypeOK
<1>1. t \in Tasks /\ alive \subseteq Tasks /\ FileNr \in Nat /\ FdNr \in Nat
  BY FilesAssumption DEF IInv, TypeOK
<1>2. g \in Places
  BY <1>1 DEF IInv, TypeOK, Places
<1>3. /\ table' = [table EXCEPT ![g].count = @ - 1]
      /\ alive' = alive /\ op' = [op EXCEPT ![t] = o]
  BY DEF Close, Goes, files, disk
<1>4. \/ /\ table[g].count = 1 /\ fds' = fds /\ opened' = opened
      \/ /\ table[g].count # 1 /\ fds' = [fds EXCEPT ![t][d] = 0]
         /\ opened' = [opened EXCEPT ![t][d] = 0]
  BY DEF Close, Cleared
<1>5. /\ \A u \in Tasks : op'[u] = IF u = t THEN o ELSE op[u]
      /\ \A f \in Places : table'[f].inode = table[f].inode
      /\ \A f \in Places : table'[f].count = IF f = g THEN table[f].count - 1 ELSE table[f].count
  BY <1>1, <1>2, <1>3 DEF IInv, TypeOK, Typed
<1>6. \/ /\ o.pc = "close" /\ o.fd = d /\ o.next = next
         /\ \A u \in Tasks, e \in Fds : /\ fds'[u][e] = fds[u][e]
                                        /\ opened'[u][e] = opened[u][e]
      \/ /\ o = next
         /\ \A u \in Tasks, e \in Fds :
              IF u = t /\ e = d THEN fds'[u][e] = 0
              ELSE fds'[u][e] = fds[u][e] /\ opened'[u][e] = opened[u][e]
  BY <1>1, <1>4 DEF IInv, TypeOK, Typed
<1>7. TypeOK'
  <2>1. table' \in [Places -> [count : Int, inode : V]]
    BY <1>2, <1>3 DEF Typed
  <2>2. op' = [u \in Tasks |-> op'[u]]
    BY <1>3 DEF IInv, TypeOK
  <2>3. fds' \in [Tasks -> [Fds -> 0 .. FileNr]]
    BY <1>1, <1>4 DEF IInv, TypeOK
  <2>4. opened' \in [Tasks -> [Fds -> V \cup {0}]]
    <3>1. opened \in [Tasks -> [Fds -> V \cup {0}]]
      BY DEF Typed
    <3> QED
      BY <1>1, <1>4, <3>1
  <2>5. Typed(V \cup {0})'
    BY <2>1, <2>4 DEF Typed
  <2> QED
    BY <1>3, <2>2, <2>3, <2>5 DEF IInv, TypeOK
<1> HIDE DEF o
<1>8. Calls'
  <2>1. o.pc = "close" => o.fd \in Fds /\ o.next.pc # "close" /\ DupArgs(o.next)
    BY <1>6
  <2>2. DupArgs(o)
    BY <1>6 DEF DupArgs
  <2> QED
    BY <1>1, <1>3, <1>5, <2>1, <2>2 DEF IInv, Calls
<1>9. \A f \in Places : /\ Uses(t, d, f) <=> f = g
                        /\ ~Uses(t, d, f)'
  <2> SUFFICES ASSUME NEW f \in Places
               PROVE  (Uses(t, d, f) <=> f = g) /\ ~Uses(t, d, f)'
    OBVIOUS
  <2>1. f # 0
    BY DEF Places
  <2>2. Uses(t, d, f) <=> f = g
    BY DEF Uses
  <2>3. (op'[t].pc = "close" /\ op'[t].fd = d) \/ fds'[t][d] = 0
    BY <1>1, <1>5, <1>6
  <2> QED
    BY <2>1, <2>2, <2>3 DEF Uses
<1>10. ASSUME NEW u \in alive, NEW e \in Fds, u # t \/ e # d, NEW f
       PROVE  Uses(u, e, f)' <=> Uses(u, e, f)
  <2>1. u \in Tasks
    BY <1>1
  <2>2. fds'[u][e] = fds[u][e]
    BY <1>6, <1>10, <2>1
  <2>3. op'[u].pc = "close" /\ op'[u].fd = e <=> op[u].pc = "close" /\ op[u].fd = e
    BY <1>5, <1>6, <1>10, <2>1
  <2> QED
    BY <2>2, <2>3 DEF Uses
<1> HIDE DEF g
<1>11. CountIsDescriptors'
  <2>1. ASSUME NEW f \in Places, f # g
        PROVE  UsersOf(f)' = UsersOf(f)
    <3>1. \A u \in alive, e \in Fds : Uses(u, e, f)' <=> Uses(u, e, f)
      BY <1>9, <1>10, <2>1
    <3> QED
      BY <1>3, <3>1 DEF UsersOf
  <2>2. ASSUME NEW f \in Places, f = g
        PROVE  UsersOf(f)' = UsersOf(f) \ {<<t, d>>} /\ <<t, d>> \in UsersOf(f)
    <3>1. \A x \in alive \X Fds : x # <<t, d>> => (Uses(x[1], x[2], f)' <=> Uses(x[1], x[2], f))
      <4> SUFFICES ASSUME NEW x \in alive \X Fds, x # <<t, d>>
                   PROVE  Uses(x[1], x[2], f)' <=> Uses(x[1], x[2], f)
        OBVIOUS
      <4>1. x[1] \in alive /\ x[2] \in Fds /\ (x[1] # t \/ x[2] # d)
        OBVIOUS
      <4> QED
        BY <1>10, <4>1
    <3>2. Uses(t, d, f) /\ ~Uses(t, d, f)'
      BY <1>9, <2>2
    <3> DEFINE before(x) == Uses(x[1], x[2], f)
               after(x) == Uses(x[1], x[2], f)'
    <3>3. before(<<t, d>>) /\ ~after(<<t, d>>)
      BY <3>2
    <3>4. \A x \in alive \X Fds : x # <<t, d>> => (after(x) <=> before(x))
      BY <3>1
    <3>5. UsersOf(f) = {x \in alive \X Fds : before(x)}
      BY DEF UsersOf
    <3>6. UsersOf(f)' = {x \in alive \X Fds : after(x)}
      BY <1>3 DEF UsersOf
    <3>7. <<t, d>> \in alive \X Fds
      OBVIOUS
    <3> HIDE DEF before, after
    <3> QED
      BY <3>3, <3>4, <3>5, <3>6, <3>7
  <2>3. ASSUME NEW f \in Places
        PROVE  \/ UsersOf(f)' = UsersOf(f) /\ table'[f].count = table[f].count
               \/ \E x \in UsersOf(f) : /\ UsersOf(f)' = UsersOf(f) \ {x}
                                        /\ table'[f].count = table[f].count - 1
    <3>1. CASE f = g
      BY <1>5, <2>2, <3>1
    <3>2. CASE f # g
      BY <1>5, <2>1, <3>2
    <3> QED
      BY <3>1, <3>2
  <2> QED
    BY <2>3, CountsKeep
<1>12. DescriptorKeepsInode'
  <2> SUFFICES ASSUME NEW u \in alive, NEW e \in Fds, fds'[u][e] # 0,
                      ~ (op'[u].pc = "close" /\ op'[u].fd = e)
               PROVE  table'[fds'[u][e]].inode = opened'[u][e]
    BY <1>3 DEF DescriptorKeepsInode, Fds
  <2>1. u # t \/ e # d
    BY <1>1, <1>5, <1>6
  <2>2. fds'[u][e] = fds[u][e] /\ opened'[u][e] = opened[u][e]
    BY <1>1, <1>6, <2>1
  <2>3. fds[u][e] \in Places
    BY <1>1, <2>2 DEF IInv, TypeOK, Places
  <2>4. ~ (op[u].pc = "close" /\ op[u].fd = e)
    BY <1>1, <1>5
  <2> QED
    BY <1>5, <2>2, <2>3, <2>4 DEF IInv, DescriptorKeepsInode, Fds
<1> QED
  BY <1>7, <1>8, <1>11, <1>12 DEF IInv

\* The end of put_file.
LEMMA PutFdKeeps ==
    ASSUME IInv, NEW t \in alive, task_put_fd(t)
    PROVE  IInv'
<1> DEFINE d == op[t].fd
           o == op[t].next
<1> PICK V : Typed(V)
  BY DEF IInv, TypeOK
<1>1. t \in Tasks /\ alive \subseteq Tasks /\ op[t].pc = "close" /\ FileNr \in Nat
  BY FilesAssumption DEF IInv, TypeOK, task_put_fd, Is
<1>2. d \in Fds /\ o.pc # "close" /\ DupArgs(o)
  BY <1>1 DEF IInv, Calls
<1>3. /\ fds' = [fds EXCEPT ![t][d] = 0]
      /\ opened' = [opened EXCEPT ![t][d] = 0]
      /\ op' = [op EXCEPT ![t] = o]
      /\ table' = table /\ alive' = alive
  BY DEF task_put_fd, Cleared, Goes
<1> HIDE DEF d, o
<1>4. /\ \A u \in Tasks : op'[u] = IF u = t THEN o ELSE op[u]
      /\ fds'[t][d] = 0
      /\ \A u \in Tasks, e \in Fds : u # t \/ e # d =>
            fds'[u][e] = fds[u][e] /\ opened'[u][e] = opened[u][e]
  BY <1>1, <1>2, <1>3 DEF IInv, TypeOK, Typed
<1>5. TypeOK'
  <2>1. 0 \in 0 .. FileNr /\ fds \in [Tasks -> [Fds -> 0 .. FileNr]]
    BY <1>1 DEF IInv, TypeOK
  <2>2. fds' \in [Tasks -> [Fds -> 0 .. FileNr]]
    BY <1>3, <2>1
  <2>3. op' = [u \in Tasks |-> op'[u]]
    BY <1>3 DEF IInv, TypeOK
  <2>4. Typed(V \cup {0})'
    BY <1>1, <1>2, <1>3 DEF Typed
  <2> QED
    BY <1>3, <2>2, <2>3, <2>4 DEF IInv, TypeOK
<1>6. Calls'
  BY <1>1, <1>2, <1>3, <1>4 DEF IInv, Calls
<1>7. \A u \in alive, e \in Fds, f \in Places : Uses(u, e, f)' <=> Uses(u, e, f)
  <2> SUFFICES ASSUME NEW u \in alive, NEW e \in Fds, NEW f \in Places
               PROVE  Uses(u, e, f)' <=> Uses(u, e, f)
    OBVIOUS
  <2>1. f # 0
    BY DEF Places
  <2>2. CASE u # t
    BY <1>1, <1>4, <2>2 DEF Uses
  <2>3. CASE u = t /\ e # d
    BY <1>1, <1>2, <1>4, <2>3 DEF Uses, d
  <2>4. CASE u = t /\ e = d
    BY <1>1, <1>4, <2>1, <2>4 DEF Uses, d
  <2> QED
    BY <2>2, <2>3, <2>4
<1>8. CountIsDescriptors'
  <2>1. \A f \in Places : UsersOf(f)' = UsersOf(f)
    BY <1>3, <1>7 DEF UsersOf
  <2> QED
    BY <1>3, <2>1, CountsKeep
<1>9. DescriptorKeepsInode'
  <2> SUFFICES ASSUME NEW u \in alive, NEW e \in Fds, fds'[u][e] # 0
               PROVE  ~ (op'[u].pc = "close" /\ op'[u].fd = e) =>
                          table[fds'[u][e]].inode = opened'[u][e]
    BY <1>3 DEF DescriptorKeepsInode, Fds
  <2>1. u \in Tasks /\ (u # t \/ e # d)
    BY <1>1, <1>4
  <2>2. fds'[u][e] = fds[u][e] /\ opened'[u][e] = opened[u][e]
    BY <1>4, <2>1
  <2>3. ~ (op'[u].pc = "close" /\ op'[u].fd = e) => ~ (op[u].pc = "close" /\ op[u].fd = e)
    BY <1>4, <2>1 DEF d
  <2> QED
    BY <2>2, <2>3 DEF IInv, DescriptorKeepsInode, Fds
<1> QED
  BY <1>5, <1>6, <1>8, <1>9 DEF IInv

\* What Min returns.
LEMMA MinInSet ==
    ASSUME NEW S \in SUBSET Nat, S # {}
    PROVE  Min(S) \in S
<1>1. \E m \in S : \A y \in S : m <= y
  BY LeastNumber
<1> QED
  BY <1>1 DEF Min

\* A free descriptor e gets the file g, whose inode is n, or which had no
\* descriptor and gets the inode n: dupfd and sys_open.
LEMMA TakeKeeps ==
    ASSUME IInv, NEW t \in alive, op[t].pc # "close",
           op' = op \/ op' = [op EXCEPT ![t] = Idle],
           NEW e \in Fds, fds[t][e] = 0,
           NEW g \in Places, NEW n,
           fds' = [fds EXCEPT ![t][e] = g],
           opened' = [opened EXCEPT ![t][e] = n],
           table' = [table EXCEPT ![g] = [count |-> table[g].count + 1, inode |-> n]],
           alive' = alive,
           UsersOf(g) = {} \/ table[g].inode = n
    PROVE  IInv'
<1> PICK V : Typed(V)
  BY DEF IInv, TypeOK
<1>1. t \in Tasks /\ alive \subseteq Tasks /\ FileNr \in Nat
  BY FilesAssumption DEF IInv, TypeOK
<1>2. /\ \A u \in Tasks : op'[u] = op[u] \/ u = t
      /\ op'[t].pc # "close" /\ DupArgs(op'[t])
  BY <1>1 DEF IInv, TypeOK, Calls, Idle, DupArgs
<1>3. /\ fds'[t][e] = g /\ opened'[t][e] = n
      /\ \A u \in Tasks, d \in Fds : u # t \/ d # e =>
            fds'[u][d] = fds[u][d] /\ opened'[u][d] = opened[u][d]
  BY <1>1 DEF IInv, TypeOK, Typed
<1>4. /\ \A f \in Places : table'[f].inode = IF f = g THEN n ELSE table[f].inode
      /\ \A f \in Places : table'[f].count = IF f = g THEN table[f].count + 1 ELSE table[f].count
  BY DEF Typed
<1>5. TypeOK'
  <2>1. fds' \in [Tasks -> [Fds -> 0 .. FileNr]]
    <3>1. g \in 0 .. FileNr
      BY <1>1 DEF Places
    <3> QED
      BY <3>1 DEF IInv, TypeOK
  <2>2. op' = [u \in Tasks |-> op'[u]]
    BY DEF IInv, TypeOK
  <2>3. table' \in [Places -> [count : Int, inode : V \cup {n}]]
    <3>1. table[g].count + 1 \in Int
      BY DEF Typed
    <3> QED
      BY <3>1 DEF Typed
  <2>4. opened' \in [Tasks -> [Fds -> V \cup {n}]]
    <3>1. opened \in [Tasks -> [Fds -> V \cup {n}]]
      BY DEF Typed
    <3> QED
      BY <1>1, <3>1
  <2>5. Typed(V \cup {n})'
    BY <2>3, <2>4 DEF Typed
  <2> QED
    BY <2>1, <2>2, <2>5 DEF IInv, TypeOK
<1>6. Calls'
  BY <1>2 DEF IInv, Calls
<1>7. ASSUME NEW u \in alive, NEW d \in Fds, u # t \/ d # e, NEW f
      PROVE  Uses(u, d, f)' <=> Uses(u, d, f)
  <2>1. u \in Tasks /\ fds'[u][d] = fds[u][d]
    BY <1>1, <1>3, <1>7
  <2>2. op'[u].pc = "close" /\ op'[u].fd = d <=> op[u].pc = "close" /\ op[u].fd = d
    BY <1>2, <2>1
  <2> QED
    BY <2>1, <2>2 DEF Uses
<1>8. \A f \in Places : ~Uses(t, e, f) /\ (Uses(t, e, f)' <=> f = g)
  <2> SUFFICES ASSUME NEW f \in Places
               PROVE  ~Uses(t, e, f) /\ (Uses(t, e, f)' <=> f = g)
    OBVIOUS
  <2>1. f # 0
    BY DEF Places
  <2> QED
    BY <1>2, <1>3, <2>1 DEF Uses
<1>9. CountIsDescriptors'
  <2>1. ASSUME NEW f \in Places, f # g
        PROVE  UsersOf(f)' = UsersOf(f)
    <3>1. \A u \in alive, d \in Fds : Uses(u, d, f)' <=> Uses(u, d, f)
      BY <1>7, <1>8, <2>1
    <3> QED
      BY <3>1 DEF UsersOf
  <2>2. UsersOf(g)' = UsersOf(g) \cup {<<t, e>>} /\ <<t, e>> \notin UsersOf(g)
    <3> DEFINE before(x) == Uses(x[1], x[2], g)
               after(x) == Uses(x[1], x[2], g)'
    <3>1. \A x \in alive \X Fds : x # <<t, e>> => (after(x) <=> before(x))
      <4> SUFFICES ASSUME NEW x \in alive \X Fds, x # <<t, e>>
                   PROVE  after(x) <=> before(x)
        OBVIOUS
      <4>1. x[1] \in alive /\ x[2] \in Fds /\ (x[1] # t \/ x[2] # e)
        OBVIOUS
      <4> QED
        BY <1>7, <4>1
    <3>2. ~before(<<t, e>>) /\ after(<<t, e>>)
      BY <1>8
    <3>3. UsersOf(g) = {x \in alive \X Fds : before(x)}
      BY DEF UsersOf
    <3>4. UsersOf(g)' = {x \in alive \X Fds : after(x)}
      BY DEF UsersOf
    <3>5. <<t, e>> \in alive \X Fds
      OBVIOUS
    <3> HIDE DEF before, after
    <3> QED
      BY <3>1, <3>2, <3>3, <3>4, <3>5
  <2>3. ASSUME NEW f \in Places
        PROVE  \/ UsersOf(f)' = UsersOf(f) /\ table'[f].count = table[f].count
               \/ \E x : /\ x \notin UsersOf(f) /\ UsersOf(f)' = UsersOf(f) \cup {x}
                         /\ table'[f].count = table[f].count + 1
    <3>1. CASE f = g
      BY <1>4, <2>2, <3>1
    <3>2. CASE f # g
      BY <1>4, <2>1, <3>2
    <3> QED
      BY <3>1, <3>2
  <2> QED
    BY <2>3, CountsKeep
<1>10. DescriptorKeepsInode'
  <2> SUFFICES ASSUME NEW u \in alive, NEW d \in Fds, fds'[u][d] # 0,
                      ~ (op'[u].pc = "close" /\ op'[u].fd = d)
               PROVE  table'[fds'[u][d]].inode = opened'[u][d]
    BY DEF DescriptorKeepsInode, Fds
  <2>1. CASE u = t /\ d = e
    BY <1>3, <1>4, <2>1
  <2>2. CASE u # t \/ d # e
    <3>1. u \in Tasks /\ fds'[u][d] = fds[u][d] /\ opened'[u][d] = opened[u][d]
      BY <1>1, <1>3, <2>2
    <3>2. ~ (op[u].pc = "close" /\ op[u].fd = d)
      BY <1>2, <3>1
    <3>3. fds[u][d] \in Places
      BY <1>1, <3>1 DEF IInv, TypeOK, Places
    <3>5. table[fds[u][d]].inode = opened[u][d]
      BY <3>1, <3>2 DEF IInv, DescriptorKeepsInode, Fds
    <3>4. fds[u][d] = g => table[g].inode = n
      <4> SUFFICES ASSUME fds[u][d] = g
                   PROVE  UsersOf(g) # {}
        OBVIOUS
      <4>1. Uses(u, d, g)
        BY <3>2 DEF Uses
      <4>2. <<u, d>> \in UsersOf(g)
        BY <4>1 DEF UsersOf
      <4> QED
        BY <4>2
    <3> QED
      BY <1>4, <3>1, <3>3, <3>4, <3>5
  <2> QED
    BY <2>1, <2>2
<1> QED
  BY <1>5, <1>6, <1>9, <1>10 DEF IInv
\* dupfd gives a free descriptor the file of another one, or does nothing.
LEMMA DupKeeps ==
    ASSUME IInv, NEW t \in alive, op[t].pc # "close",
           op' = op \/ op' = [op EXCEPT ![t] = Idle],
           NEW d \in Fds, NEW arg \in Fds, dupfd(t, d, arg)
    PROVE  IInv'
<1>1. t \in Tasks /\ alive \subseteq Tasks /\ FileNr \in Nat /\ FdNr \in Nat
  BY FilesAssumption DEF IInv, TypeOK
<1>2. CASE UNCHANGED files
  <2>1. op' = [op EXCEPT ![t] = op[t]] \/ op' = [op EXCEPT ![t] = Idle]
    BY <1>1 DEF IInv, TypeOK
  <2>2. DupArgs(op[t]) /\ DupArgs(Idle) /\ Idle.pc # "close"
    BY <1>1 DEF IInv, Calls, DupArgs, Idle
  <2> QED
    BY <1>2, <2>1, <2>2, DiskStepKeeps DEF Goes
<1>3. CASE ~ UNCHANGED files
  <2> DEFINE S == FreeFds(t) \cap arg .. FdNr
  <2>1. /\ fds[t][d] # 0 /\ S # {}
        /\ table' = [table EXCEPT ![fds[t][d]].count = @ + 1]
        /\ Duplicated(t, d, Min(S)) /\ alive' = alive
    BY <1>3 DEF dupfd
  <2>2. S \in SUBSET Nat
    BY <1>1 DEF FreeFds
  <2>3. Min(S) \in S
    BY <2>1, <2>2, MinInSet
  <2>4. PICK e : e = Min(S)
    OBVIOUS
  <2>5. e \in Fds /\ fds[t][e] = 0
    BY <2>3, <2>4 DEF FreeFds, Fds
  <2>6. PICK g : g = fds[t][d]
    OBVIOUS
  <2>7. g \in Places
    BY <1>1, <2>1, <2>6 DEF IInv, TypeOK, Places
  <2>8. PICK n : n = opened[t][d]
    OBVIOUS
  <2>9. table[g].inode = n
    BY <2>1, <2>6, <2>8 DEF IInv, DescriptorKeepsInode, Fds
  <2>10. fds' = [fds EXCEPT ![t][e] = g] /\ opened' = [opened EXCEPT ![t][e] = n]
    BY <2>1, <2>4, <2>6, <2>8 DEF Duplicated
  <2>11. table' = [table EXCEPT ![g] = [count |-> table[g].count + 1, inode |-> n]]
    <3> PICK V : Typed(V)
      BY DEF IInv, TypeOK
    <3>1. table[g] \in [count : Int, inode : V]
      BY <2>7 DEF Typed
    <3>2. [table[g] EXCEPT !.count = @ + 1] = [count |-> table[g].count + 1, inode |-> n]
      BY <2>9, <3>1
    <3>3. table' = [table EXCEPT ![g] = [table[g] EXCEPT !.count = @ + 1]]
      BY <2>1, <2>6
    <3> QED
      BY <3>2, <3>3
  <2> HIDE DEF S
  <2> QED
    BY <2>1, <2>5, <2>7, <2>9, <2>10, <2>11, TakeKeeps
<1> QED
  BY <1>2, <1>3

LEMMA OpenKeeps ==
    ASSUME IInv, NEW t \in alive, sys_open(t)
    PROVE  IInv'
<1>1. /\ t \in Tasks /\ alive \subseteq Tasks /\ FileNr \in Nat /\ FdNr \in Nat
      /\ op[t].pc = "open" /\ op' = [op EXCEPT ![t] = Idle]
  BY FilesAssumption DEF IInv, TypeOK, sys_open, Is, Ends, Goes
<1>2. CASE UNCHANGED files
  <2>1. DupArgs(Idle) /\ Idle.pc # "close"
    BY DEF DupArgs, Idle
  <2> QED
    BY <1>1, <1>2, <2>1, DiskStepKeeps DEF Goes
<1>3. CASE ~ UNCHANGED files
  <2>1. PICK n : n = op[t].nr
    OBVIOUS
  <2>2. PICK g : g = Min(FreeFiles)
    OBVIOUS
  <2>3. PICK e : e = Min(FreeFds(t))
    OBVIOUS
  <2>4. /\ FreeFiles # {} /\ FreeFds(t) # {}
        /\ table' = [table EXCEPT ![g] = [count |-> 1, inode |-> n]]
        /\ fds' = [fds EXCEPT ![t][e] = g]
        /\ opened' = [opened EXCEPT ![t][e] = n]
        /\ alive' = alive
    BY <1>3, <2>1, <2>2, <2>3 DEF sys_open
  <2>5. FreeFiles \in SUBSET Nat /\ FreeFds(t) \in SUBSET Nat
    BY <1>1 DEF FreeFiles, FreeFds
  <2>6. g \in FreeFiles
    BY <2>2, <2>4, <2>5, MinInSet
  <2>7. e \in FreeFds(t)
    BY <2>3, <2>4, <2>5, MinInSet
  <2>8. g \in Places /\ table[g].count = 0
    BY <2>6 DEF FreeFiles, Places
  <2>9. e \in Fds /\ fds[t][e] = 0
    BY <2>7 DEF FreeFds, Fds
  <2>10. UsersOf(g) = {}
    BY <2>8, CountIsUsers
  <2>11. table' = [table EXCEPT ![g] = [count |-> table[g].count + 1, inode |-> n]]
    BY <2>4, <2>8
  <2> QED
    BY <1>1, <2>4, <2>8, <2>9, <2>10, <2>11, TakeKeeps
<1> QED
  BY <1>2, <1>3

-----------------------------------------------------------------------------
(* Tasks come and go.                                                      *)

\* fork: the child has the descriptors of its parent, each counted once more.
LEMMA ForkKeeps ==
    ASSUME IInv, NEW t \in alive, NEW u \in Tasks, task_fork(t, u)
    PROVE  IInv'
<1> PICK V : Typed(V)
  BY DEF IInv, TypeOK
<1>1. /\ t \in Tasks /\ alive \subseteq Tasks /\ FileNr \in Nat /\ FdNr \in Nat
      /\ u \notin alive /\ t # u /\ op[t].pc = "idle"
  BY FilesAssumption DEF IInv, TypeOK, task_fork, Is
<1>2. /\ alive' = alive \cup {u} /\ op' = op
      /\ fds' = [fds EXCEPT ![u] = fds[t]]
      /\ opened' = [opened EXCEPT ![u] = opened[t]]
      /\ table' = Forked(t, u)
  BY DEF task_fork
<1>3. op[u].pc # "close"
  BY <1>1 DEF IInv, Calls
<1>4. /\ fds'[u] = fds[t] /\ opened'[u] = opened[t]
      /\ \A v \in Tasks : v # u => fds'[v] = fds[v] /\ opened'[v] = opened[v]
  BY <1>2 DEF IInv, TypeOK, Typed
<1>5. ASSUME NEW f \in Places
      PROVE  /\ Descriptors(f, fds[t]) \in Nat
             /\ IsFiniteSet({d \in Fds : fds[t][d] = f})
             /\ Descriptors(f, fds[t]) = Cardinality({d \in Fds : fds[t][d] = f})
  <2>1. IsFiniteSet(Fds)
    BY <1>1, FS_Interval DEF Fds
  <2>2. IsFiniteSet({d \in Fds : fds[t][d] = f})
    BY <2>1, FS_Subset
  <2>3. Descriptors(f, fds[t]) = Cardinality({d \in Fds : fds[t][d] = f})
    BY DEF Descriptors, Fds
  <2> QED
    BY <2>2, <2>3, FS_CardinalityType
<1>6. ASSUME NEW f \in Places
      PROVE  /\ table'[f] \in [count : Int, inode : V]
             /\ table'[f].count = table[f].count + Descriptors(f, fds[t])
             /\ table'[f].inode = table[f].inode
  <2>1. table[f] \in [count : Int, inode : V] /\ DOMAIN table = Places
    BY DEF Typed
  <2>2. table'[f] = [table[f] EXCEPT !.count = @ + Descriptors(f, fds[t])]
    BY <1>2, <2>1 DEF Forked
  <2>3. PICK k \in Nat : k = Descriptors(f, fds[t])
    BY <1>5
  <2>4. table'[f] = [table[f] EXCEPT !.count = table[f].count + k]
    BY <2>2, <2>3
  <2>5. table[f].count + k \in Int
    BY <2>1, <2>3
  <2>6. table'[f].count = table[f].count + k
    BY <2>1, <2>4
  <2> QED
    BY <2>1, <2>3, <2>4, <2>5, <2>6
<1>7. TypeOK'
  <2>1. alive' \in SUBSET Tasks /\ IsFiniteSet(alive')
    BY <1>2, FS_AddElement DEF IInv, TypeOK
  <2>2. fds' \in [Tasks -> [Fds -> 0 .. FileNr]]
    BY <1>1, <1>2 DEF IInv, TypeOK
  <2>3. op' = [v \in Tasks |-> op'[v]]
    BY <1>2 DEF IInv, TypeOK
  <2>4. opened' \in [Tasks -> [Fds -> V]]
    BY <1>1, <1>2 DEF Typed
  <2>5. table' \in [Places -> [count : Int, inode : V]]
    <3>1. DOMAIN table = Places
      BY DEF Typed
    <3>2. table' = [f \in Places |-> table'[f]]
      BY <1>2, <3>1 DEF Forked
    <3> QED
      BY <1>6, <3>2
  <2>6. Typed(V)'
    BY <2>4, <2>5 DEF Typed
  <2> QED
    BY <2>1, <2>2, <2>3, <2>6 DEF TypeOK
<1>8. Calls'
  BY <1>2 DEF IInv, Calls
<1>9. ASSUME NEW f \in Places
      PROVE  table'[f].count = Cardinality(UsersOf(f)')
  <2> DEFINE D == {d \in Fds : fds[t][d] = f}
             old == UsersOf(f)
             new == {u} \X D
  <2>1. \A v \in alive, d \in Fds : Uses(v, d, f)' <=> Uses(v, d, f)
    BY <1>1, <1>2, <1>4 DEF Uses
  <2>2. \A d \in Fds : Uses(u, d, f)' <=> d \in D
    BY <1>2, <1>3, <1>4 DEF Uses
  <2>3. UsersOf(f)' = old \cup new
    <3> DEFINE before(x) == Uses(x[1], x[2], f)
               after(x) == Uses(x[1], x[2], f)'
    <3>1. \A x \in alive \X Fds : after(x) <=> before(x)
      BY <2>1
    <3>2. \A x \in {u} \X Fds : after(x) <=> x \in new
      <4> SUFFICES ASSUME NEW x \in {u} \X Fds
                   PROVE  after(x) <=> x \in new
        OBVIOUS
      <4>1. x[1] = u /\ x[2] \in Fds /\ x = <<x[1], x[2]>>
        OBVIOUS
      <4>2. x \in new <=> x[2] \in D
        BY <4>1
      <4> HIDE DEF new, D
      <4> QED
        BY <2>2, <4>1, <4>2
    <3>3. old = {x \in alive \X Fds : before(x)}
      BY DEF UsersOf
    <3>4. UsersOf(f)' = {x \in (alive \cup {u}) \X Fds : after(x)}
      BY <1>2 DEF UsersOf
    <3>5. new \subseteq {u} \X Fds
      OBVIOUS
    <3>6. (alive \cup {u}) \X Fds = (alive \X Fds) \cup ({u} \X Fds)
      OBVIOUS
    <3> HIDE DEF before, after, old, new
    <3> QED
      BY <3>1, <3>2, <3>3, <3>4, <3>5, <3>6
  <2>4. IsFiniteSet(old) /\ Cardinality(old) = table[f].count /\ Cardinality(old) \in Nat
    BY CountIsUsers, UsersFinite DEF IInv
  <2>5. IsFiniteSet(D) /\ Cardinality(D) = Descriptors(f, fds[t]) /\ Cardinality(D) \in Nat
    BY <1>5
  <2>6. IsFiniteSet({u}) /\ Cardinality({u}) = 1
    BY FS_Singleton
  <2>7. old \cap new = {}
    <3>1. old \subseteq alive \X Fds
      BY DEF UsersOf
    <3> QED
      BY <1>1, <3>1
  <2> HIDE DEF D, old
  <2>8. IsFiniteSet(new) /\ Cardinality(new) = 1 * Cardinality(D)
    BY <2>5, <2>6, FS_Product
  <2> HIDE DEF new
  <2>9. Cardinality(old \cup new) = Cardinality(old) + Cardinality(new) - Cardinality(old \cap new)
    BY <2>4, <2>8, FS_Union
  <2>10. Cardinality(old \cap new) = 0
    BY <2>7, FS_EmptySet
  <2> QED
    BY <1>6, <2>3, <2>4, <2>5, <2>8, <2>9, <2>10
<1>10. CountIsDescriptors'
  BY <1>9 DEF CountIsDescriptors, UsersOf, Uses, Places, Fds
<1>11. DescriptorKeepsInode'
  <2> SUFFICES ASSUME NEW v \in alive', NEW d \in Fds, fds'[v][d] # 0,
                      ~ (op'[v].pc = "close" /\ op'[v].fd = d)
               PROVE  table'[fds'[v][d]].inode = opened'[v][d]
    BY DEF DescriptorKeepsInode, Fds
  <2>1. PICK w \in alive : /\ fds'[v] = fds[w] /\ opened'[v] = opened[w]
                           /\ ~ (op[w].pc = "close" /\ op[w].fd = d)
    BY <1>1, <1>2, <1>4
  <2>2. fds[w][d] \in Places
    BY <1>1, <2>1 DEF IInv, TypeOK, Places
  <2>3. table[fds[w][d]].inode = opened[w][d]
    BY <2>1 DEF IInv, DescriptorKeepsInode, Fds
  <2> QED
    BY <1>6, <2>1, <2>2, <2>3
<1> QED
  BY <1>7, <1>8, <1>10, <1>11 DEF IInv
\* exit closes the descriptors one by one; a task that ends has none.
LEMMA ExitKeeps ==
    ASSUME IInv, NEW t \in alive, ExitClose(t)
    PROVE  IInv'
<1> DEFINE held == {d \in Fds : fds[t][d] # 0}
           exit == [pc |-> "exit"]
<1>1. /\ t \in Tasks /\ alive \subseteq Tasks /\ FileNr \in Nat /\ FdNr \in Nat
      /\ op[t].pc = "exit"
  BY FilesAssumption DEF IInv, TypeOK, ExitClose, Is
<1>2. CASE held # {}
  <2>1. held \in SUBSET Nat
    BY <1>1 DEF Fds
  <2>2. Min(held) \in held
    BY <1>2, <2>1, MinInSet
  <2>3. PICK d : d = Min(held)
    OBVIOUS
  <2>4. d \in Fds /\ fds[t][d] # 0
    BY <2>2, <2>3
  <2>5. Close(t, d, exit)
    BY <1>2, <2>3 DEF ExitClose, Fds
  <2>6. exit.pc # "close" /\ DupArgs(exit)
    BY DEF DupArgs
  <2> QED
    BY <1>1, <2>4, <2>5, <2>6, CloseKeeps
<1>3. CASE held = {}
  <2>1. /\ alive' = alive \ {t} /\ op' = [op EXCEPT ![t] = Idle]
        /\ table' = table /\ fds' = fds /\ opened' = opened
    BY <1>3 DEF ExitClose, Ends, Goes, Fds
  <2>2. \A u \in Tasks : op'[u] = op[u] \/ u = t
    BY <2>1 DEF IInv, TypeOK
  <2>3. op'[t].pc = "idle"
    BY <1>1, <2>1 DEF IInv, TypeOK, Idle
  <2>4. TypeOK'
    <3>1. alive' \in SUBSET Tasks /\ IsFiniteSet(alive')
      BY <2>1, FS_RemoveElement, FS_Subset DEF IInv, TypeOK
    <3>2. op' = [u \in Tasks |-> op'[u]]
      BY <2>1 DEF IInv, TypeOK
    <3> QED
      BY <2>1, <3>1, <3>2 DEF IInv, TypeOK, Typed
  <2>5. Calls'
    BY <2>1, <2>2, <2>3 DEF IInv, Calls, DupArgs
  <2>6. \A f \in Places : UsersOf(f)' = UsersOf(f)
    <3> SUFFICES ASSUME NEW f \in Places
                 PROVE  UsersOf(f)' = UsersOf(f)
      OBVIOUS
    <3> DEFINE before(x) == Uses(x[1], x[2], f)
               after(x) == Uses(x[1], x[2], f)'
    <3>1. \A x \in (alive \ {t}) \X Fds : after(x) <=> before(x)
      <4> SUFFICES ASSUME NEW x \in (alive \ {t}) \X Fds
                   PROVE  after(x) <=> before(x)
        OBVIOUS
      <4>1. x[1] \in Tasks /\ x[1] # t
        BY <1>1
      <4> QED
        BY <2>1, <2>2, <4>1 DEF Uses
    <3>2. \A x \in {t} \X Fds : ~before(x)
      <4> SUFFICES ASSUME NEW x \in {t} \X Fds
                   PROVE  ~before(x)
        OBVIOUS
      <4>1. x[1] = t /\ fds[t][x[2]] = 0 /\ f # 0
        BY <1>3 DEF Places
      <4> QED
        BY <4>1 DEF Uses
    <3>3. UsersOf(f) = {x \in alive \X Fds : before(x)}
      BY DEF UsersOf
    <3>4. UsersOf(f)' = {x \in (alive \ {t}) \X Fds : after(x)}
      BY <2>1 DEF UsersOf
    <3>5. alive \X Fds = ((alive \ {t}) \X Fds) \cup ({t} \X Fds)
      OBVIOUS
    <3> HIDE DEF before, after
    <3> QED
      BY <3>1, <3>2, <3>3, <3>4, <3>5
  <2>7. CountIsDescriptors'
    BY <2>1, <2>6, CountsKeep
  <2>8. DescriptorKeepsInode'
    <3> SUFFICES ASSUME NEW u \in alive, u # t, NEW d \in Fds, fds[u][d] # 0,
                        ~ (op'[u].pc = "close" /\ op'[u].fd = d)
                 PROVE  table[fds[u][d]].inode = opened[u][d]
      BY <2>1 DEF DescriptorKeepsInode, Fds
    <3>1. op'[u] = op[u]
      BY <1>1, <2>2
    <3> QED
      BY <3>1 DEF IInv, DescriptorKeepsInode, Fds
  <2> QED
    BY <2>4, <2>5, <2>7, <2>8 DEF IInv
<1> QED
  BY <1>2, <1>3

-----------------------------------------------------------------------------
(* The steps on a directory, and the invariant of the whole.               *)

\* The steps of create, link, unlink, rmdir and open, up to the open file.
DirectoryStep(t) ==
    \/ \E dir \in Directories, name \in Names :
        \/ \E call \in {"open", "mkdir", "mknod"} : Create(t, dir, name, call)
        \/ \E old \in Nrs : sys_link(t, old, dir, name)
        \/ \E call \in {"open", "unlink", "rmdir"} : Find(t, call, dir, name)
    \/ AddEntry(t) \/ EnterNumber(t) \/ NewInode(t)
    \/ LinkEntry(t) \/ sys_unlink(t) \/ Ifree(t) \/ sys_rmdir(t) \/ RemoveDir(t)

\* Each of them is outside put_file before and after.
LEMMA DirectoryKeeps ==
    ASSUME IInv, NEW t \in Tasks, DirectoryStep(t)
    PROVE  IInv'
<1> DEFINE Goal ==
             /\ t \in alive /\ op[t].pc # "close" /\ UNCHANGED files
             /\ \E next : Goes(t, next) /\ next.pc \notin {"close", "dup"}
<1>1. ASSUME NEW dir, NEW name, NEW call, Create(t, dir, name, call)
      PROVE  Goal
  BY <1>1 DEF Create, Is
<1>2. ASSUME NEW dir, NEW name, NEW old, sys_link(t, old, dir, name)
      PROVE  Goal
  BY <1>2 DEF sys_link, Is
<1>3. ASSUME NEW dir, NEW name, NEW call \in {"open", "unlink", "rmdir"},
             Find(t, call, dir, name)
      PROVE  Goal
  BY <1>3 DEF Find, Is
<1>4. ASSUME AddEntry(t) PROVE Goal
  BY <1>4 DEF AddEntry, Is
<1>5. ASSUME EnterNumber(t) PROVE Goal
  BY <1>5 DEF EnterNumber, Is
<1>6. ASSUME NewInode(t) PROVE Goal
  BY <1>6 DEF NewInode, Is, Ends, Idle
<1>7. ASSUME LinkEntry(t) PROVE Goal
  BY <1>7 DEF LinkEntry, Is, Ends, Idle
<1>8. ASSUME sys_unlink(t) PROVE Goal
  BY <1>8 DEF sys_unlink, Is, Ends, Idle
<1>9. ASSUME Ifree(t) PROVE Goal
  BY <1>9 DEF Ifree, Is, Ends, Idle
<1>10. ASSUME sys_rmdir(t) PROVE Goal
  BY <1>10 DEF sys_rmdir, Is, Ends, Idle
<1>11. ASSUME RemoveDir(t) PROVE Goal
  BY <1>11 DEF RemoveDir, Is, Ends, Idle
<1>12. Goal
  BY <1>1, <1>2, <1>3, <1>4, <1>5, <1>6, <1>7, <1>8, <1>9, <1>10, <1>11 DEF DirectoryStep
<1>13. PICK next : Goes(t, next) /\ next.pc \notin {"close", "dup"}
  BY <1>12
<1>14. DupArgs(next) /\ next.pc # "close"
  BY <1>13 DEF DupArgs
<1> QED
  BY <1>12, <1>13, <1>14, DiskStepKeeps

\* A step that does not concern the files keeps the invariant.
LEMMA UnchangedKeeps ==
    ASSUME IInv, UNCHANGED <<table, fds, alive, op, opened>>
    PROVE  IInv'
<1>1. TypeOK'
  BY DEF IInv, TypeOK, Typed
<1>2. Calls'
  BY DEF IInv, Calls
<1>3. CountIsDescriptors'
  <2>1. \A f \in Places : UsersOf(f)' = UsersOf(f)
    BY DEF UsersOf, Uses
  <2> QED
    BY <2>1, CountsKeep
<1>4. DescriptorKeepsInode'
  BY DEF IInv, DescriptorKeepsInode
<1> QED
  BY <1>1, <1>2, <1>3, <1>4 DEF IInv

LEMMA NextKeepsIInv == IInv /\ [Next]_vars => IInv'
<1> SUFFICES ASSUME IInv, [Next]_vars
             PROVE  IInv'
  OBVIOUS
<1>1. CASE UNCHANGED vars
  <2>1. UNCHANGED <<table, fds, alive, op, opened>>
    BY <1>1 DEF vars
  <2> QED
    BY <2>1, UnchangedKeeps
<1>2. ASSUME NEW t \in Tasks, DirectoryStep(t)
      PROVE  IInv'
  BY <1>2, DirectoryKeeps
<1>3. ASSUME NEW t \in Tasks, sys_open(t)
      PROVE  IInv'
  BY <1>3, OpenKeeps DEF sys_open, Is
<1>4. ASSUME NEW t \in Tasks, NEW d \in Fds, sys_close(t, d)
      PROVE  IInv'
  <2>1. t \in alive /\ op[t].pc = "idle" /\ fds[t][d] # 0 /\ Close(t, d, Idle)
    BY <1>4 DEF sys_close, Is
  <2>2. Idle.pc # "close" /\ DupArgs(Idle)
    BY DEF Idle, DupArgs
  <2> QED
    BY <2>1, <2>2, CloseKeeps
<1>5. ASSUME NEW t \in Tasks, NEW d \in Fds, sys_dup(t, d)
      PROVE  IInv'
  <2>1. t \in alive /\ op[t].pc = "idle" /\ dupfd(t, d, 1) /\ op' = op
    BY <1>5 DEF sys_dup, Is
  <2>2. 1 \in Fds
    BY FilesAssumption DEF Fds
  <2> QED
    BY <2>1, <2>2, DupKeeps
<1>6. ASSUME NEW t \in Tasks, NEW d \in Fds, NEW e \in Fds, sys_dup2(t, d, e)
      PROVE  IInv'
  <2> DEFINE next == [pc |-> "dup", fd |-> d, arg |-> e]
  <2>1. CASE fds[t][e] # 0 /\ Close(t, e, next)
    <3>1. t \in alive /\ op[t].pc = "idle" /\ fds[t][e] # 0 /\ Close(t, e, next)
      BY <1>6, <2>1 DEF sys_dup2, Is
    <3>2. next.pc # "close" /\ DupArgs(next)
      BY DEF DupArgs
    <3> QED
      BY <3>1, <3>2, CloseKeeps
  <2>2. CASE dupfd(t, d, e) /\ op' = op
    <3>1. t \in alive /\ op[t].pc = "idle" /\ dupfd(t, d, e) /\ op' = op
      BY <1>6, <2>2 DEF sys_dup2, Is
    <3> QED
      BY <3>1, DupKeeps
  <2> QED
    BY <1>6, <2>1, <2>2 DEF sys_dup2
<1>7. ASSUME NEW t \in Tasks, task_put_fd(t)
      PROVE  IInv'
  BY <1>7, PutFdKeeps DEF task_put_fd, Is
<1>8. ASSUME NEW t \in Tasks, DupAfter(t)
      PROVE  IInv'
  <2>1. /\ t \in alive /\ op[t].pc = "dup" /\ op' = [op EXCEPT ![t] = Idle]
        /\ dupfd(t, op[t].fd, op[t].arg)
    BY <1>8 DEF DupAfter, Is, Ends, Goes
  <2>2. op[t].fd \in Fds /\ op[t].arg \in Fds
    BY <2>1 DEF IInv, Calls, DupArgs
  <2>3. PICK d \in Fds, arg \in Fds : d = op[t].fd /\ arg = op[t].arg
    BY <2>2
  <2>4. dupfd(t, d, arg)
    BY <2>1, <2>3 DEF dupfd, Duplicated
  <2> QED
    BY <2>1, <2>4, DupKeeps
<1>9. ASSUME NEW t \in Tasks, NEW u \in Tasks, task_fork(t, u)
      PROVE  IInv'
  BY <1>9, ForkKeeps DEF task_fork, Is
<1>10. ASSUME NEW t \in Tasks, task_exit(t)
       PROVE  IInv'
  <2> DEFINE next == [pc |-> "exit"]
  <2>1. t \in alive /\ op[t].pc = "idle" /\ Goes(t, next) /\ UNCHANGED files
    BY <1>10 DEF task_exit, Is
  <2>2. next.pc # "close" /\ DupArgs(next)
    BY DEF DupArgs
  <2> QED
    BY <2>1, <2>2, DiskStepKeeps
<1>11. ASSUME NEW t \in Tasks, ExitClose(t)
       PROVE  IInv'
  BY <1>11, ExitKeeps DEF ExitClose, Is
<1>12. Next => \E t \in Tasks :
         \/ DirectoryStep(t) \/ sys_open(t)
         \/ \E d \in Fds : sys_close(t, d) \/ sys_dup(t, d) \/ \E e \in Fds : sys_dup2(t, d, e)
         \/ task_put_fd(t) \/ DupAfter(t)
         \/ \E u \in Tasks : task_fork(t, u)
         \/ task_exit(t) \/ ExitClose(t)
  BY DEF Next, DirectoryStep, Fds
<1> QED
  BY <1>1, <1>2, <1>3, <1>4, <1>5, <1>6, <1>7, <1>8, <1>9, <1>10, <1>11, <1>12

-----------------------------------------------------------------------------
\* The invariant of the open files, for any number of tasks and files.
THEOREM FilesInvariant == Spec => []IInv
<1>1. Init => IInv
  BY InitIInv
<1>2. IInv /\ [Next]_vars => IInv'
  BY NextKeepsIInv
<1> QED
  BY <1>1, <1>2, PTL DEF Spec

\* The count of an open file is the number of descriptors that stand for it,
\* in all tasks, apart from those that put_file is giving up (file.c).
THEOREM FilesCountIsDescriptors == Spec => []CountIsDescriptors
<1>1. IInv => CountIsDescriptors
  BY DEF IInv
<1> QED
  BY <1>1, FilesInvariant, PTL

\* A descriptor stays with the inode it was opened on: get_file never gives
\* away a place of the file table that some task still uses.
THEOREM FilesDescriptorKeepsInode == Spec => []DescriptorKeepsInode
<1>1. IInv => DescriptorKeepsInode
  BY DEF IInv
<1> QED
  BY <1>1, FilesInvariant, PTL

-----------------------------------------------------------------------------
(* Entries, inodes and counts of links that agree.                         *)

\* The entries that name an inode, and those of a directory that name
\* directories.
Named(en, n) == {x \in Nrs \X Slots : en[x[1]][x[2]].nr = n}

NamesDir(nd, en, d, s) == en[d][s].nr # 0 /\ nd[en[d][s].nr].kind = "dir"
SubDirs(nd, en, n) == {x \in {n} \X Slots : NamesDir(nd, en, n, x[2])}

\* What nlinks should be.
Links(nd, en, n) ==
    IF nd[n].kind # "dir" THEN Cardinality(Named(en, n)) ELSE 2 + Cardinality(SubDirs(nd, en, n))

\* Inodes im with kinds and counts nd and directories en agree: no entry names
\* the root, entries are in directories and name these inodes, each of which has
\* one, a directory no more than one, and the counts of links are right.
Consistent(im, nd, en) ==
    /\ im \subseteq Nrs /\ 1 \in im /\ nd[1].kind = "dir" /\ Named(en, 1) = {}
    /\ \A d \in Nrs, s \in Slots :
         en[d][s].nr # 0 => d \in im /\ nd[d].kind = "dir" /\ en[d][s].nr \in im
    /\ \A n \in im \ {1} : /\ Named(en, n) # {}
                           /\ nd[n].kind = "dir" => \A v, w \in Named(en, n) : v = w
    /\ \A n \in im : nd[n].nlinks = Links(nd, en, n)

\* One entry is set, or cleared.
Sets(en, en2, d, s, nr) ==
    \A e \in Nrs, r \in Slots :
        en2[e][r].nr = IF e = d /\ r = s THEN nr ELSE en[e][r].nr

-----------------------------------------------------------------------------
LEMMA PlacesCounted ==
    /\ Cardinality(Nrs \X Slots) \in Nat
    /\ Cardinality(Nrs \X Slots) = Numbers * Entries
<1>1. /\ IsFiniteSet(Nrs) /\ Cardinality(Nrs) = Numbers
      /\ IsFiniteSet(Slots) /\ Cardinality(Slots) = Entries
  <2>1. Numbers \in Nat \ {0} /\ Entries \in Nat \ {0}
    BY FilesAssumption
  <2>2. ASSUME NEW m \in Nat \ {0}
        PROVE  IsFiniteSet(1 .. m) /\ Cardinality(1 .. m) = m
    <3>1. m \in Int /\ 1 \in Int /\ ~(1 > m) /\ m - 1 + 1 = m
      OBVIOUS
    <3> QED
      BY <3>1, FS_Interval
  <2> QED
    BY <2>1, <2>2 DEF Nrs, Slots
<1>2. IsFiniteSet(Nrs \X Slots) /\ Cardinality(Nrs \X Slots) = Cardinality(Nrs) * Cardinality(Slots)
  BY <1>1, FS_Product
<1> QED
  BY <1>1, <1>2, FS_CardinalityType

LEMMA EntriesFinite ==
    /\ IsFiniteSet(Nrs \X Slots)
    /\ \A en, n : IsFiniteSet(Named(en, n)) /\ Cardinality(Named(en, n)) \in Nat
    /\ \A nd, en : \A n \in Nrs : /\ IsFiniteSet(SubDirs(nd, en, n))
                                     /\ Cardinality(SubDirs(nd, en, n)) \in Nat
<1>1. IsFiniteSet(Nrs) /\ IsFiniteSet(Slots)
  BY FS_Interval, FilesAssumption DEF Nrs, Slots
<1>2. IsFiniteSet(Nrs \X Slots)
  BY <1>1, FS_Product
<1>3. ASSUME NEW en, NEW n
      PROVE  IsFiniteSet(Named(en, n)) /\ Cardinality(Named(en, n)) \in Nat
  <2>1. Named(en, n) \subseteq Nrs \X Slots
    BY DEF Named
  <2> QED
    BY <1>2, <2>1, FS_Subset, FS_CardinalityType
<1>4. ASSUME NEW nd, NEW en, NEW n \in Nrs
      PROVE  IsFiniteSet(SubDirs(nd, en, n)) /\ Cardinality(SubDirs(nd, en, n)) \in Nat
  <2>1. SubDirs(nd, en, n) \subseteq Nrs \X Slots
    BY DEF SubDirs
  <2> QED
    BY <1>2, <2>1, FS_Subset, FS_CardinalityType
<1> QED
  BY <1>2, <1>3, <1>4

\* What a directory holds beside the numbers of the inodes does not matter.
LEMMA NumbersMatter ==
    ASSUME NEW im, NEW nd, NEW en, NEW en2, Consistent(im, nd, en),
           \A d \in Nrs, s \in Slots : en2[d][s].nr = en[d][s].nr
    PROVE  Consistent(im, nd, en2)
<1>1. \A n : Named(en2, n) = Named(en, n)
  <2> SUFFICES ASSUME NEW n, NEW v \in Nrs \X Slots
               PROVE  en2[v[1]][v[2]].nr = n <=> en[v[1]][v[2]].nr = n
    BY DEF Named
  <2>1. v[1] \in Nrs /\ v[2] \in Slots
    OBVIOUS
  <2> QED
    BY <2>1
<1>2. \A n \in Nrs : SubDirs(nd, en2, n) = SubDirs(nd, en, n)
  <2> SUFFICES ASSUME NEW n \in Nrs, NEW v \in {n} \X Slots
               PROVE  NamesDir(nd, en2, n, v[2]) <=> NamesDir(nd, en, n, v[2])
    BY DEF SubDirs
  <2>1. v[2] \in Slots
    OBVIOUS
  <2> QED
    BY <2>1 DEF NamesDir
<1>3. im \subseteq Nrs
  BY DEF Consistent
<1>4. \A n \in im : Links(nd, en2, n) = Links(nd, en, n)
  BY <1>1, <1>2, <1>3 DEF Links
<1>5. /\ 1 \in im /\ nd[1].kind = "dir" /\ Named(en, 1) = {}
      /\ \A d \in Nrs, s \in Slots :
           en[d][s].nr # 0 => d \in im /\ nd[d].kind = "dir" /\ en[d][s].nr \in im
      /\ \A n \in im \ {1} : /\ Named(en, n) # {}
                             /\ nd[n].kind = "dir" => \A v, w \in Named(en, n) : v = w
      /\ \A n \in im : nd[n].nlinks = Links(nd, en, n)
  BY DEF Consistent
<1>6. \A d \in Nrs, s \in Slots :
        en2[d][s].nr # 0 => d \in im /\ nd[d].kind = "dir" /\ en2[d][s].nr \in im
  BY <1>5
<1>7. \A n \in im \ {1} : /\ Named(en2, n) # {}
                          /\ nd[n].kind = "dir" => \A v, w \in Named(en2, n) : v = w
  BY <1>1, <1>5
<1> QED
  BY <1>1, <1>3, <1>4, <1>5, <1>6, <1>7 DEF Consistent

\* The entries that name an inode, before and after.
NamedAs(en, en2, d, s, nr) ==
    \A n : /\ <<d, s>> \in Named(en, n) <=> en[d][s].nr = n
           /\ n = nr => Named(en2, n) = Named(en, n) \cup {<<d, s>>}
           /\ n # nr => Named(en2, n) = Named(en, n) \ {<<d, s>>}

LEMMA NamedAfter ==
    ASSUME NEW en, NEW en2, NEW d \in Nrs, NEW s \in Slots, NEW nr, Sets(en, en2, d, s, nr)
    PROVE  NamedAs(en, en2, d, s, nr)
<1> SUFFICES ASSUME NEW n
             PROVE  /\ <<d, s>> \in Named(en, n) <=> en[d][s].nr = n
                    /\ n = nr => Named(en2, n) = Named(en, n) \cup {<<d, s>>}
                    /\ n # nr => Named(en2, n) = Named(en, n) \ {<<d, s>>}
  BY DEF NamedAs
<1>1. ASSUME NEW v \in Nrs \X Slots
      PROVE  en2[v[1]][v[2]].nr = IF v = <<d, s>> THEN nr ELSE en[v[1]][v[2]].nr
  <2>1. v[1] \in Nrs /\ v[2] \in Slots /\ (v = <<d, s>> <=> v[1] = d /\ v[2] = s)
    OBVIOUS
  <2> QED
    BY <2>1 DEF Sets
<1>2. <<d, s>> \in Nrs \X Slots /\ (<<d, s>> \in Named(en, n) <=> en[d][s].nr = n)
  BY DEF Named
<1>3. \A v : v \in Named(en, n) <=> v \in Nrs \X Slots /\ en[v[1]][v[2]].nr = n
  BY DEF Named
<1>4. \A v : v \in Named(en2, n) <=> v \in Nrs \X Slots /\ en2[v[1]][v[2]].nr = n
  BY DEF Named
<1>5. CASE n = nr
  <2>1. \A v : v \in Named(en2, n) <=> v \in Named(en, n) \/ v = <<d, s>>
    BY <1>1, <1>2, <1>3, <1>4, <1>5
  <2> QED
    BY <1>2, <1>5, <2>1
<1>6. CASE n # nr
  <2>1. \A v : v \in Named(en2, n) <=> v \in Named(en, n) /\ v # <<d, s>>
    BY <1>1, <1>2, <1>3, <1>4, <1>6
  <2> QED
    BY <1>2, <1>6, <2>1
<1> QED
  BY <1>5, <1>6

LEMMA NamedSame ==
    ASSUME NEW en, NEW en2, NEW d, NEW s, NEW nr, NamedAs(en, en2, d, s, nr),
           NEW n, n # nr, en[d][s].nr # n
    PROVE  Named(en2, n) = Named(en, n)
<1>1. <<d, s>> \notin Named(en, n) /\ Named(en2, n) = Named(en, n) \ {<<d, s>>}
  BY DEF NamedAs
<1> QED
  BY <1>1

\* The entries beside one slot name directories after as they did before, so
\* the subdirectories change by that slot at most.
Elsewhere(nd, en, nd2, en2, d, s) ==
    \A e \in Nrs, r \in Slots :
        e # d \/ r # s => (NamesDir(nd2, en2, e, r) <=> NamesDir(nd, en, e, r))

SubDirsAs(nd, en, nd2, en2, d, s) ==
    \A n \in Nrs :
        /\ <<d, s>> \in SubDirs(nd, en, n) <=> n = d /\ NamesDir(nd, en, d, s)
        /\ n = d /\ NamesDir(nd2, en2, d, s) =>
             SubDirs(nd2, en2, n) = SubDirs(nd, en, n) \cup {<<d, s>>}
        /\ n # d \/ ~NamesDir(nd2, en2, d, s) =>
             SubDirs(nd2, en2, n) = SubDirs(nd, en, n) \ {<<d, s>>}

LEMMA SubDirsAfter ==
    ASSUME NEW nd, NEW en, NEW nd2, NEW en2, NEW d \in Nrs, NEW s \in Slots,
           Elsewhere(nd, en, nd2, en2, d, s)
    PROVE  SubDirsAs(nd, en, nd2, en2, d, s)
<1> SUFFICES ASSUME NEW n \in Nrs
             PROVE  /\ <<d, s>> \in SubDirs(nd, en, n) <=> n = d /\ NamesDir(nd, en, d, s)
                    /\ n = d /\ NamesDir(nd2, en2, d, s) =>
                         SubDirs(nd2, en2, n) = SubDirs(nd, en, n) \cup {<<d, s>>}
                    /\ n # d \/ ~NamesDir(nd2, en2, d, s) =>
                         SubDirs(nd2, en2, n) = SubDirs(nd, en, n) \ {<<d, s>>}
  BY DEF SubDirsAs
<1>1. \A v : v \in SubDirs(nd, en, n) <=> v \in {n} \X Slots /\ NamesDir(nd, en, n, v[2])
  BY DEF SubDirs
<1>2. \A v : v \in SubDirs(nd2, en2, n) <=> v \in {n} \X Slots /\ NamesDir(nd2, en2, n, v[2])
  BY DEF SubDirs
<1>3. ASSUME NEW v \in {n} \X Slots, v # <<d, s>>
      PROVE  NamesDir(nd2, en2, n, v[2]) <=> NamesDir(nd, en, n, v[2])
  <2>1. v = <<n, v[2]>> /\ v[2] \in Slots
    OBVIOUS
  <2>2. n # d \/ v[2] # s
    BY <1>3, <2>1
  <2> QED
    BY <2>1, <2>2 DEF Elsewhere
<1>4. <<d, s>> \in {n} \X Slots <=> n = d
  OBVIOUS
<1>5. CASE n = d
  <2>1. <<d, s>> \in SubDirs(nd, en, n) <=> NamesDir(nd, en, d, s)
    BY <1>1, <1>4, <1>5
  <2>2. <<d, s>> \in SubDirs(nd2, en2, n) <=> NamesDir(nd2, en2, d, s)
    BY <1>2, <1>4, <1>5
  <2>3. \A v : v # <<d, s>> => (v \in SubDirs(nd2, en2, n) <=> v \in SubDirs(nd, en, n))
    BY <1>1, <1>2, <1>3
  <2> QED
    BY <1>5, <2>1, <2>2, <2>3
<1>6. CASE n # d
  <2>1. \A v : v \in SubDirs(nd2, en2, n) <=> v \in SubDirs(nd, en, n)
    BY <1>1, <1>2, <1>3, <1>4, <1>6
  <2>2. <<d, s>> \notin SubDirs(nd, en, n)
    BY <1>1, <1>4, <1>6
  <2> QED
    BY <1>6, <2>1, <2>2
<1> QED
  BY <1>5, <1>6

LEMMA ConsistentFacts ==
    ASSUME NEW im, NEW nd, NEW en, Consistent(im, nd, en)
    PROVE  /\ im \subseteq Nrs /\ 1 \in im /\ nd[1].kind = "dir" /\ Named(en, 1) = {}
           /\ \A d \in Nrs, s \in Slots :
                en[d][s].nr # 0 => d \in im /\ nd[d].kind = "dir" /\ en[d][s].nr \in im
           /\ \A n \in im \ {1} : /\ Named(en, n) # {}
                                  /\ nd[n].kind = "dir" => \A v, w \in Named(en, n) : v = w
           /\ \A n \in im : nd[n].nlinks = Links(nd, en, n)
           /\ \A n : n \notin im /\ n # 0 => Named(en, n) = {}
           /\ 0 \notin Nrs
<1>1. \A n : n \notin im /\ n # 0 => Named(en, n) = {}
  <2> SUFFICES ASSUME NEW n, n \notin im, n # 0, NEW v \in Named(en, n)
               PROVE  FALSE
    OBVIOUS
  <2>1. v[1] \in Nrs /\ v[2] \in Slots /\ en[v[1]][v[2]].nr = n
    BY DEF Named
  <2> QED
    BY <2>1 DEF Consistent
<1> QED
  BY <1>1, FilesAssumption DEF Consistent, Nrs

\* A new file gets its entry.
LEMMA WithFile ==
    ASSUME NEW im, NEW nd, NEW en, NEW nd2, NEW en2, NEW d \in im, NEW s \in Slots,
           NEW nr \in Nrs \ im, Consistent(im, nd, en), nd[d].kind = "dir", en[d][s].nr = 0,
           Sets(en, en2, d, s, nr), nd2[nr].kind = "file", nd2[nr].nlinks = 1,
           \A n \in im : nd2[n] = nd[n]
    PROVE  Consistent(im \cup {nr}, nd2, en2)
<1>1. /\ im \subseteq Nrs /\ 1 \in im /\ nd[1].kind = "dir" /\ Named(en, 1) = {}
      /\ \A e \in Nrs, r \in Slots :
           en[e][r].nr # 0 => e \in im /\ nd[e].kind = "dir" /\ en[e][r].nr \in im
      /\ \A n \in im \ {1} : /\ Named(en, n) # {}
                             /\ nd[n].kind = "dir" => \A v, w \in Named(en, n) : v = w
      /\ \A n \in im : nd[n].nlinks = Links(nd, en, n)
      /\ \A n : n \notin im /\ n # 0 => Named(en, n) = {}
      /\ d \in Nrs /\ nr # 0 /\ 0 \notin im
  BY ConsistentFacts
<1>2. \A e \in Nrs, r \in Slots :
        en2[e][r].nr = IF e = d /\ r = s THEN nr ELSE en[e][r].nr
  BY DEF Sets
<1>3. Elsewhere(nd, en, nd2, en2, d, s)
  BY <1>1, <1>2 DEF NamesDir, Elsewhere
<1>4. ~NamesDir(nd, en, d, s) /\ ~NamesDir(nd2, en2, d, s)
  BY <1>1, <1>2 DEF NamesDir
<1>5. \A n \in Nrs : SubDirs(nd2, en2, n) = SubDirs(nd, en, n)
  <2>1. d \in Nrs
    BY <1>1
  <2>2. SubDirsAs(nd, en, nd2, en2, d, s)
    BY <2>1, <1>3, SubDirsAfter
  <2> QED
    BY <2>1, <2>2, <1>4 DEF SubDirsAs
<1>6. /\ Named(en2, nr) = {<<d, s>>}
      /\ \A n \in im : Named(en2, n) = Named(en, n)
  <2>1. d \in Nrs
    BY <1>1
  <2>2. NamedAs(en, en2, d, s, nr)
    BY <2>1, NamedAfter
  <2>3. ASSUME NEW n \in im
        PROVE  Named(en2, n) = Named(en, n)
    <3>1. n # nr /\ en[d][s].nr # n
      BY <1>1
    <3> QED
      BY <2>2, <3>1, NamedSame
  <2>4. Named(en, nr) = {} /\ Named(en2, nr) = Named(en, nr) \cup {<<d, s>>}
    BY <1>1, <2>2 DEF NamedAs
  <2> QED
    BY <2>3, <2>4
<1>7. nd2[nr].nlinks = Links(nd2, en2, nr)
  BY <1>6, FS_Singleton DEF Links
<1>8. \A n \in im : nd2[n].nlinks = Links(nd2, en2, n)
  BY <1>1, <1>5, <1>6 DEF Links
<1>9. \A e \in Nrs, r \in Slots :
        en2[e][r].nr # 0 => /\ e \in im \cup {nr} /\ nd2[e].kind = "dir"
                            /\ en2[e][r].nr \in im \cup {nr}
  BY <1>1, <1>2
<1>10. \A n \in (im \cup {nr}) \ {1} :
         /\ Named(en2, n) # {}
         /\ nd2[n].kind = "dir" => \A v, w \in Named(en2, n) : v = w
  <2>1. Named(en2, nr) # {} /\ \A v, w \in Named(en2, nr) : v = w
    BY <1>6
  <2>2. \A n \in im \ {1} : /\ Named(en2, n) # {}
                            /\ nd2[n].kind = "dir" => \A v, w \in Named(en2, n) : v = w
    BY <1>1, <1>6
  <2> QED
    BY <2>1, <2>2
<1> QED
  BY <1>1, <1>6, <1>7, <1>8, <1>9, <1>10 DEF Consistent

\* A new directory gets its entry.
LEMMA WithDirectory ==
    ASSUME NEW im, NEW nd, NEW en, NEW nd2, NEW en2, NEW d \in im, NEW s \in Slots,
           NEW nr \in Nrs \ im, Consistent(im, nd, en), nd[d].kind = "dir", en[d][s].nr = 0,
           Sets(en, en2, d, s, nr), nd2[nr].kind = "dir", nd2[nr].nlinks = 2,
           nd2[d].kind = "dir", nd2[d].nlinks = nd[d].nlinks + 1,
           \A n \in im \ {d} : nd2[n] = nd[n]
    PROVE  Consistent(im \cup {nr}, nd2, en2)
<1>1. /\ im \subseteq Nrs /\ 1 \in im /\ nd[1].kind = "dir" /\ Named(en, 1) = {}
      /\ \A e \in Nrs, r \in Slots :
           en[e][r].nr # 0 => e \in im /\ nd[e].kind = "dir" /\ en[e][r].nr \in im
      /\ \A n \in im \ {1} : /\ Named(en, n) # {}
                             /\ nd[n].kind = "dir" => \A v, w \in Named(en, n) : v = w
      /\ \A n \in im : nd[n].nlinks = Links(nd, en, n)
      /\ \A n : n \notin im /\ n # 0 => Named(en, n) = {}
      /\ d \in Nrs /\ nr # 0 /\ 0 \notin im
  BY ConsistentFacts
<1>2. \A e \in Nrs, r \in Slots :
        en2[e][r].nr = IF e = d /\ r = s THEN nr ELSE en[e][r].nr
  BY DEF Sets
<1>. \A n \in im : nd2[n].kind = nd[n].kind
  OBVIOUS
<1>3. Elsewhere(nd, en, nd2, en2, d, s)
  BY <1>1, <1>2 DEF NamesDir, Elsewhere
<1>4. ~NamesDir(nd, en, d, s) /\ NamesDir(nd2, en2, d, s)
  BY <1>1, <1>2 DEF NamesDir
<1>5. /\ SubDirs(nd2, en2, d) = SubDirs(nd, en, d) \cup {<<d, s>>}
      /\ <<d, s>> \notin SubDirs(nd, en, d)
      /\ \A n \in Nrs \ {d} : SubDirs(nd2, en2, n) = SubDirs(nd, en, n)
  <2>1. d \in Nrs
    BY <1>1
  <2>2. SubDirsAs(nd, en, nd2, en2, d, s)
    BY <2>1, <1>3, SubDirsAfter
  <2> QED
    BY <2>1, <2>2, <1>4 DEF SubDirsAs
<1>6. /\ Named(en2, nr) = {<<d, s>>}
      /\ \A n \in im : Named(en2, n) = Named(en, n)
  <2>1. d \in Nrs
    BY <1>1
  <2>2. NamedAs(en, en2, d, s, nr)
    BY <2>1, NamedAfter
  <2>3. ASSUME NEW n \in im
        PROVE  Named(en2, n) = Named(en, n)
    <3>1. n # nr /\ en[d][s].nr # n
      BY <1>1
    <3> QED
      BY <2>2, <3>1, NamedSame
  <2>4. Named(en, nr) = {} /\ Named(en2, nr) = Named(en, nr) \cup {<<d, s>>}
    BY <1>1, <2>2 DEF NamedAs
  <2> QED
    BY <2>3, <2>4
<1>7. nd2[nr].nlinks = Links(nd2, en2, nr)
  <2>1. SubDirs(nd2, en2, nr) = SubDirs(nd, en, nr)
    BY <1>1, <1>5
  <2>2. SubDirs(nd, en, nr) = {}
    BY <1>1 DEF SubDirs, NamesDir
  <2> QED
    BY <2>1, <2>2, FS_EmptySet DEF Links
<1>8. nd2[d].nlinks = Links(nd2, en2, d)
  <2>1. IsFiniteSet(SubDirs(nd, en, d)) /\ Cardinality(SubDirs(nd, en, d)) \in Nat
    BY <1>1, EntriesFinite
  <2>2. Cardinality(SubDirs(nd, en, d) \cup {<<d, s>>}) = Cardinality(SubDirs(nd, en, d)) + 1
    BY <1>5, <2>1, FS_AddElement
  <2>3. nd[d].nlinks = 2 + Cardinality(SubDirs(nd, en, d))
    BY <1>1 DEF Links
  <2> QED
    BY <1>5, <2>1, <2>2, <2>3 DEF Links
<1>9. \A n \in im \ {d} : nd2[n].nlinks = Links(nd2, en2, n)
  BY <1>1, <1>5, <1>6 DEF Links
<1>10. \A e \in Nrs, r \in Slots :
        en2[e][r].nr # 0 => /\ e \in im \cup {nr} /\ nd2[e].kind = "dir"
                            /\ en2[e][r].nr \in im \cup {nr}
  BY <1>1, <1>2
<1>11. \A n \in (im \cup {nr}) \ {1} :
         /\ Named(en2, n) # {}
         /\ nd2[n].kind = "dir" => \A v, w \in Named(en2, n) : v = w
  <2>1. Named(en2, nr) # {} /\ \A v, w \in Named(en2, nr) : v = w
    BY <1>6
  <2>2. \A n \in im \ {1} : /\ Named(en2, n) # {}
                            /\ nd2[n].kind = "dir" => \A v, w \in Named(en2, n) : v = w
    BY <1>1, <1>6
  <2> QED
    BY <2>1, <2>2
<1> QED
  BY <1>1, <1>6, <1>7, <1>8, <1>9, <1>10, <1>11 DEF Consistent

\* A file gets one more entry.
LEMMA WithLink ==
    ASSUME NEW im, NEW nd, NEW en, NEW nd2, NEW en2, NEW d \in im, NEW s \in Slots,
           NEW nr \in im, Consistent(im, nd, en), nd[d].kind = "dir", en[d][s].nr = 0,
           Sets(en, en2, d, s, nr), nd[nr].kind # "dir", nd2[nr].kind # "dir",
           nd2[nr].nlinks = nd[nr].nlinks + 1,
           \A n \in im \ {nr} : nd2[n] = nd[n]
    PROVE  Consistent(im, nd2, en2)
<1>1. /\ im \subseteq Nrs /\ 1 \in im /\ nd[1].kind = "dir" /\ Named(en, 1) = {}
      /\ \A e \in Nrs, r \in Slots :
           en[e][r].nr # 0 => e \in im /\ nd[e].kind = "dir" /\ en[e][r].nr \in im
      /\ \A n \in im \ {1} : /\ Named(en, n) # {}
                             /\ nd[n].kind = "dir" => \A v, w \in Named(en, n) : v = w
      /\ \A n \in im : nd[n].nlinks = Links(nd, en, n)
      /\ d \in Nrs /\ nr # 0 /\ 0 \notin im
  BY ConsistentFacts
<1>2. \A e \in Nrs, r \in Slots :
        en2[e][r].nr = IF e = d /\ r = s THEN nr ELSE en[e][r].nr
  BY DEF Sets
<1>. \A n \in im : nd2[n].kind = "dir" <=> nd[n].kind = "dir"
  OBVIOUS
<1>3. Elsewhere(nd, en, nd2, en2, d, s)
  BY <1>1, <1>2 DEF NamesDir, Elsewhere
<1>4. ~NamesDir(nd, en, d, s) /\ ~NamesDir(nd2, en2, d, s)
  BY <1>1, <1>2 DEF NamesDir
<1>5. \A n \in Nrs : SubDirs(nd2, en2, n) = SubDirs(nd, en, n)
  <2>1. d \in Nrs
    BY <1>1
  <2>2. SubDirsAs(nd, en, nd2, en2, d, s)
    BY <2>1, <1>3, SubDirsAfter
  <2> QED
    BY <2>1, <2>2, <1>4 DEF SubDirsAs
<1>6. /\ Named(en2, nr) = Named(en, nr) \cup {<<d, s>>} /\ <<d, s>> \notin Named(en, nr)
      /\ \A n \in im \ {nr} : Named(en2, n) = Named(en, n)
  <2>1. d \in Nrs
    BY <1>1
  <2>2. NamedAs(en, en2, d, s, nr)
    BY <2>1, NamedAfter
  <2>3. ASSUME NEW n \in im \ {nr}
        PROVE  Named(en2, n) = Named(en, n)
    <3>1. n # nr /\ en[d][s].nr # n
      BY <1>1
    <3> QED
      BY <2>2, <3>1, NamedSame
  <2>4. <<d, s>> \notin Named(en, nr) /\ Named(en2, nr) = Named(en, nr) \cup {<<d, s>>}
    BY <1>1, <2>2 DEF NamedAs
  <2> QED
    BY <2>3, <2>4
<1>7. nd2[nr].nlinks = Links(nd2, en2, nr)
  <2>1. IsFiniteSet(Named(en, nr)) /\ Cardinality(Named(en, nr)) \in Nat
    BY EntriesFinite
  <2>2. Cardinality(Named(en, nr) \cup {<<d, s>>}) = Cardinality(Named(en, nr)) + 1
    BY <1>6, <2>1, FS_AddElement
  <2>3. nd[nr].nlinks = Cardinality(Named(en, nr))
    BY <1>1 DEF Links
  <2> QED
    BY <1>6, <2>2, <2>3 DEF Links
<1>8. \A n \in im \ {nr} : nd2[n].nlinks = Links(nd2, en2, n)
  BY <1>1, <1>5, <1>6 DEF Links
<1>9. \A e \in Nrs, r \in Slots :
        en2[e][r].nr # 0 => e \in im /\ nd2[e].kind = "dir" /\ en2[e][r].nr \in im
  BY <1>1, <1>2
<1>10. \A n \in im \ {1} :
         /\ Named(en2, n) # {}
         /\ nd2[n].kind = "dir" => \A v, w \in Named(en2, n) : v = w
  BY <1>1, <1>6
<1> QED
  BY <1>1, <1>6, <1>7, <1>8, <1>9, <1>10 DEF Consistent

\* A file loses an entry, and with the last one its number.
ConsistentOrLess(im, nd, en, nr) ==
    /\ nd[nr].nlinks # 0 => Consistent(im, nd, en)
    /\ nd[nr].nlinks = 0 => Consistent(im \ {nr}, nd, en)

LEMMA WithoutLink ==
    ASSUME NEW im, NEW nd, NEW en, NEW nd2, NEW en2, NEW d \in im, NEW s \in Slots,
           NEW nr \in im, Consistent(im, nd, en), en[d][s].nr = nr,
           Sets(en, en2, d, s, 0), nd[nr].kind # "dir", nd2[nr].kind # "dir",
           nd2[nr].nlinks = nd[nr].nlinks - 1,
           \A n \in im \ {nr} : nd2[n] = nd[n]
    PROVE  ConsistentOrLess(im, nd2, en2, nr)
<1>1. /\ im \subseteq Nrs /\ 1 \in im /\ nd[1].kind = "dir" /\ Named(en, 1) = {}
      /\ \A e \in Nrs, r \in Slots :
           en[e][r].nr # 0 => e \in im /\ nd[e].kind = "dir" /\ en[e][r].nr \in im
      /\ \A n \in im \ {1} : /\ Named(en, n) # {}
                             /\ nd[n].kind = "dir" => \A v, w \in Named(en, n) : v = w
      /\ \A n \in im : nd[n].nlinks = Links(nd, en, n)
      /\ d \in Nrs /\ nr # 0 /\ 0 \notin im /\ nr # 1
  BY ConsistentFacts
<1>2. \A e \in Nrs, r \in Slots :
        en2[e][r].nr = IF e = d /\ r = s THEN 0 ELSE en[e][r].nr
  BY DEF Sets
<1>. \A n \in im : nd2[n].kind = "dir" <=> nd[n].kind = "dir"
  OBVIOUS
<1>3. Elsewhere(nd, en, nd2, en2, d, s)
  BY <1>1, <1>2 DEF NamesDir, Elsewhere
<1>4. ~NamesDir(nd, en, d, s) /\ ~NamesDir(nd2, en2, d, s)
  BY <1>1, <1>2 DEF NamesDir
<1>5. \A n \in Nrs : SubDirs(nd2, en2, n) = SubDirs(nd, en, n)
  <2>1. d \in Nrs
    BY <1>1
  <2>2. SubDirsAs(nd, en, nd2, en2, d, s)
    BY <2>1, <1>3, SubDirsAfter
  <2> QED
    BY <2>1, <2>2, <1>4 DEF SubDirsAs
<1>6. /\ Named(en2, nr) = Named(en, nr) \ {<<d, s>>} /\ <<d, s>> \in Named(en, nr)
      /\ \A n \in im \ {nr} : Named(en2, n) = Named(en, n)
  <2>1. d \in Nrs
    BY <1>1
  <2>2. NamedAs(en, en2, d, s, 0)
    BY <2>1, NamedAfter
  <2>3. ASSUME NEW n \in im \ {nr}
        PROVE  Named(en2, n) = Named(en, n)
    <3>1. n # 0 /\ en[d][s].nr # n
      BY <1>1
    <3> QED
      BY <2>2, <3>1, NamedSame
  <2>4. <<d, s>> \in Named(en, nr) /\ Named(en2, nr) = Named(en, nr) \ {<<d, s>>}
    BY <1>1, <2>2 DEF NamedAs
  <2> QED
    BY <2>3, <2>4
<1>7. /\ nd[nr].nlinks \in Nat \ {0} /\ nd2[nr].nlinks = Links(nd2, en2, nr)
      /\ nd2[nr].nlinks = 0 <=> Named(en2, nr) = {}
  <2>1. IsFiniteSet(Named(en, nr)) /\ Cardinality(Named(en, nr)) \in Nat
    BY EntriesFinite
  <2>2. Cardinality(Named(en, nr) \ {<<d, s>>}) = Cardinality(Named(en, nr)) - 1
    BY <1>6, <2>1, FS_RemoveElement
  <2>3. IsFiniteSet(Named(en2, nr)) /\ Cardinality(Named(en2, nr)) \in Nat
    BY EntriesFinite
  <2>4. Cardinality(Named(en2, nr)) = 0 <=> Named(en2, nr) = {}
    BY <2>3, FS_EmptySet
  <2>5. nd[nr].nlinks = Cardinality(Named(en, nr))
    BY <1>1 DEF Links
  <2>6. Cardinality(Named(en2, nr)) = Cardinality(Named(en, nr)) - 1
    BY <1>6, <2>2
  <2> QED
    BY <2>1, <2>3, <2>4, <2>5, <2>6 DEF Links
<1>8. \A n \in im \ {nr} : nd2[n].nlinks = Links(nd2, en2, n)
  BY <1>1, <1>5, <1>6 DEF Links
<1>9. \A e \in Nrs, r \in Slots :
        en2[e][r].nr # 0 => e \in im /\ nd2[e].kind = "dir" /\ en2[e][r].nr \in im
  BY <1>1, <1>2
<1>10. \A n \in im \ {1, nr} :
         /\ Named(en2, n) # {}
         /\ nd2[n].kind = "dir" => \A v, w \in Named(en2, n) : v = w
  BY <1>1, <1>6
<1>11. CASE nd2[nr].nlinks # 0
  <2>1. \A n \in im \ {1} :
          /\ Named(en2, n) # {}
          /\ nd2[n].kind = "dir" => \A v, w \in Named(en2, n) : v = w
    BY <1>7, <1>10, <1>11
  <2>2. Consistent(im, nd2, en2)
    BY <1>1, <1>6, <1>7, <1>8, <1>9, <2>1 DEF Consistent
  <2> QED
    BY <1>11, <2>2 DEF ConsistentOrLess
<1>12. CASE nd2[nr].nlinks = 0
  <2>1. \A e \in Nrs, r \in Slots : en2[e][r].nr # nr
    <3> SUFFICES ASSUME NEW e \in Nrs, NEW r \in Slots, en2[e][r].nr = nr
                 PROVE  <<e, r>> \in Named(en2, nr)
      BY <1>7, <1>12
    <3> QED
      BY DEF Named
  <2>2. \A e \in Nrs, r \in Slots :
          en2[e][r].nr # 0 => e \in im \ {nr} /\ nd2[e].kind = "dir" /\ en2[e][r].nr \in im \ {nr}
    BY <1>9, <2>1
  <2>3. Consistent(im \ {nr}, nd2, en2)
    BY <1>1, <1>6, <1>8, <1>10, <2>2 DEF Consistent
  <2> QED
    BY <1>12, <2>3 DEF ConsistentOrLess
<1> QED
  BY <1>11, <1>12

\* An empty directory loses its entry and its number.
LEMMA WithoutDirectory ==
    ASSUME NEW im, NEW nd, NEW en, NEW nd2, NEW en2, NEW d \in im, NEW s \in Slots,
           NEW nr \in im, Consistent(im, nd, en), en[d][s].nr = nr,
           Sets(en, en2, d, s, 0), nd[nr].kind = "dir", \A r \in Slots : en[nr][r].nr = 0,
           nd2[d].kind = "dir", nd2[d].nlinks = nd[d].nlinks - 1,
           \A n \in im \ {nr, d} : nd2[n] = nd[n]
    PROVE  d # nr /\ Consistent(im \ {nr}, nd2, en2)
<1>1. /\ im \subseteq Nrs /\ 1 \in im /\ nd[1].kind = "dir" /\ Named(en, 1) = {}
      /\ \A e \in Nrs, r \in Slots :
           en[e][r].nr # 0 => e \in im /\ nd[e].kind = "dir" /\ en[e][r].nr \in im
      /\ \A n \in im \ {1} : /\ Named(en, n) # {}
                             /\ nd[n].kind = "dir" => \A v, w \in Named(en, n) : v = w
      /\ \A n \in im : nd[n].nlinks = Links(nd, en, n)
      /\ d \in Nrs /\ nr # 0 /\ 0 \notin im
  BY ConsistentFacts
<1>2. d # nr
  BY <1>1
<1>3. \A e \in Nrs, r \in Slots :
        en2[e][r].nr = IF e = d /\ r = s THEN 0 ELSE en[e][r].nr
  BY DEF Sets
<1>4. /\ <<d, s>> \in Named(en, nr) /\ Named(en2, nr) = Named(en, nr) \ {<<d, s>>}
      /\ \A n \in im \ {nr} : Named(en2, n) = Named(en, n)
  <2>1. d \in Nrs
    BY <1>1
  <2>2. NamedAs(en, en2, d, s, 0)
    BY <2>1, NamedAfter
  <2>3. ASSUME NEW n \in im \ {nr}
        PROVE  Named(en2, n) = Named(en, n)
    <3>1. n # 0 /\ en[d][s].nr # n
      BY <1>1
    <3> QED
      BY <2>2, <3>1, NamedSame
  <2>4. <<d, s>> \in Named(en, nr) /\ Named(en2, nr) = Named(en, nr) \ {<<d, s>>}
    BY <1>1, <2>2 DEF NamedAs
  <2> QED
    BY <2>3, <2>4
<1>5. nr # 1 /\ Named(en2, nr) = {}
  BY <1>1, <1>4
<1>6. \A e \in Nrs, r \in Slots : en2[e][r].nr # nr
  <2> SUFFICES ASSUME NEW e \in Nrs, NEW r \in Slots, en2[e][r].nr = nr
               PROVE  <<e, r>> \in Named(en2, nr)
    BY <1>5
  <2> QED
    BY DEF Named
<1>7. nd[d].kind = "dir" /\ \A n \in im \ {nr} : nd2[n].kind = nd[n].kind
  BY <1>1, <1>2
<1>8. Elsewhere(nd, en, nd2, en2, d, s)
  BY <1>1, <1>3, <1>6, <1>7 DEF NamesDir, Elsewhere
<1>9. NamesDir(nd, en, d, s) /\ ~NamesDir(nd2, en2, d, s)
  BY <1>1, <1>3 DEF NamesDir
<1>10. /\ SubDirs(nd2, en2, d) = SubDirs(nd, en, d) \ {<<d, s>>}
       /\ <<d, s>> \in SubDirs(nd, en, d)
       /\ \A n \in Nrs \ {d} : SubDirs(nd2, en2, n) = SubDirs(nd, en, n)
  <2>1. d \in Nrs
    BY <1>1
  <2>2. SubDirsAs(nd, en, nd2, en2, d, s)
    BY <2>1, <1>8, SubDirsAfter
  <2> QED
    BY <2>1, <2>2, <1>9 DEF SubDirsAs
<1>11. nd2[d].nlinks = Links(nd2, en2, d)
  <2>1. IsFiniteSet(SubDirs(nd, en, d)) /\ Cardinality(SubDirs(nd, en, d)) \in Nat
    BY <1>1, EntriesFinite
  <2>2. Cardinality(SubDirs(nd, en, d) \ {<<d, s>>}) = Cardinality(SubDirs(nd, en, d)) - 1
    BY <1>10, <2>1, FS_RemoveElement
  <2>3. nd[d].nlinks = 2 + Cardinality(SubDirs(nd, en, d))
    BY <1>1, <1>7 DEF Links
  <2> QED
    BY <1>10, <2>1, <2>2, <2>3 DEF Links
<1>12. \A n \in im \ {nr, d} : nd2[n].nlinks = Links(nd2, en2, n)
  BY <1>1, <1>4, <1>10 DEF Links
<1>13. \A e \in Nrs, r \in Slots :
         en2[e][r].nr # 0 => e \in im \ {nr} /\ nd2[e].kind = "dir" /\ en2[e][r].nr \in im \ {nr}
  BY <1>1, <1>3, <1>6, <1>7
<1>14. \A n \in im \ {1, nr} :
         /\ Named(en2, n) # {}
         /\ nd2[n].kind = "dir" => \A v, w \in Named(en2, n) : v = w
  BY <1>1, <1>4, <1>7
<1>15. /\ im \ {nr} \subseteq Nrs /\ 1 \in im \ {nr} /\ nd2[1].kind = "dir" /\ Named(en2, 1) = {}
       /\ \A n \in im \ {nr} : nd2[n].nlinks = Links(nd2, en2, n)
  BY <1>1, <1>4, <1>5, <1>7, <1>11, <1>12
<1> QED
  BY <1>2, <1>13, <1>14, <1>15 DEF Consistent

IsConsistent == Consistent(imap, node, entry)
InDirectory(o) == o.dir \in imap /\ node[o.dir].kind = "dir"

\* How far the disk is from consistent at each place of a call, and what the
\* call still holds true from its earlier steps.
Phase(o) ==
    /\ o.pc = "open" => IsConsistent
    /\ o.pc = "add" =>
        /\ IsConsistent /\ InDirectory(o) /\ o.name \in Names /\ Present(o.dir, o.name) = {}
        /\ o.call \in {"open", "mkdir", "mknod"}
    /\ o.pc = "enter" =>
        /\ Consistent(imap \ {o.nr}, node, entry) /\ o.nr \in imap
        /\ InDirectory(o) /\ o.dir # o.nr /\ o.slot \in Slots /\ entry[o.dir][o.slot].nr = 0
        /\ o.call \in {"open", "mkdir", "mknod"}
    /\ o.pc = "new" =>
        /\ o.nr \in imap /\ InDirectory(o) /\ o.dir # o.nr
        /\ o.call \in {"open", "mkdir", "mknod"}
        /\ \E s \in Slots,
              en \in [Nrs -> [Slots -> [name : Names \cup {None}, nr : 0 .. Numbers]]] :
             /\ Consistent(imap \ {o.nr}, node, en) /\ en[o.dir][s].nr = 0
             /\ Sets(en, entry, o.dir, s, o.nr)
    /\ o.pc = "link" =>
        /\ IsConsistent /\ InDirectory(o) /\ o.name \in Names /\ Present(o.dir, o.name) = {}
        /\ o.nr \in imap /\ node[o.nr].kind # "dir"
    /\ o.pc \in {"unlink", "rmdir"} =>
        /\ IsConsistent /\ InDirectory(o) /\ o.slot \in Slots
        /\ o.nr \in imap /\ entry[o.dir][o.slot].nr = o.nr
    /\ o.pc = "ifree" => Consistent(imap \ {o.nr}, node, entry) /\ o.nr \in imap
    /\ o.pc = "removed" =>
        /\ o.nr \in Nrs \ imap /\ Consistent(imap \cup {o.nr}, node, entry)
        /\ node[o.nr].kind = "dir" /\ is_empty(o.nr)
        /\ InDirectory(o) /\ o.slot \in Slots /\ entry[o.dir][o.slot].nr = o.nr

DiskTyped ==
    /\ imap \subseteq Nrs
    /\ node \in [Nrs -> [kind : {"dir", "file"}, nlinks : 0 .. 255]]
    /\ entry \in [Nrs -> [Slots -> [name : Names \cup {None}, nr : 0 .. Numbers]]]

\* The places of a call.
Pcs == OnTable \cup {"open", "add", "enter", "new", "link", "unlink", "rmdir", "ifree", "removed"}

\* With the directories on a device that never waits one call at a time is
\* inside them.
DiskInv ==
    /\ DiskTyped /\ op = [t \in Tasks |-> op[t]]
    /\ \A t \in Tasks : /\ op[t].pc \in Pcs
                        /\ op[t].pc = "close" => op[t].next.pc \in OnTable \ {"close"}
    /\ \A t, u \in Tasks : t # u => op[t].pc \in OnTable \/ op[u].pc \in OnTable
    /\ (\A t \in Tasks : op[t].pc \in OnTable) => IsConsistent
    /\ \A t \in Tasks : Phase(op[t])
-----------------------------------------------------------------------------
(* One call at a time.                                                     *)

\* No count of links is at the limit of its byte.
LinksFit == \A n \in imap : node[n].nlinks < 255

\* There are so few places for entries that none ever is.
Few == Numbers * Entries <= 252

Alone(t) == \A u \in Tasks \ {t} : op[u].pc \in OnTable

LEMMA PhaseStays ==
    ASSUME UNCHANGED disk, NEW o
    PROVE  Phase(o)' <=> Phase(o)
BY DEF disk, Phase, IsConsistent, InDirectory, Present, is_empty

LEMMA CallGoesOn ==
    ASSUME DiskInv, NEW t \in Tasks, Alone(t), NEW next, Goes(t, next), DiskTyped',
           next.pc \in Pcs, next.pc = "close" => next.next.pc \in OnTable \ {"close"},
           next.pc \in OnTable => IsConsistent', Phase(next)'
    PROVE  DiskInv'
<1>1. \A u \in Tasks : op'[u] = IF u = t THEN next ELSE op[u]
  BY DEF DiskInv, Goes
<1>2. op' = [u \in Tasks |-> op'[u]]
  BY DEF DiskInv, Goes
<1>3. \A u \in Tasks : /\ op'[u].pc \in Pcs
                       /\ op'[u].pc = "close" => op'[u].next.pc \in OnTable \ {"close"}
  BY <1>1 DEF DiskInv
<1>4. \A u, v \in Tasks : u # v => op'[u].pc \in OnTable \/ op'[v].pc \in OnTable
  BY <1>1 DEF Alone
<1>5. (\A u \in Tasks : op'[u].pc \in OnTable) => IsConsistent'
  BY <1>1
<1>6. ASSUME NEW u \in Tasks
      PROVE  Phase(op[u])'
  <2>1. CASE u = t
    <3>1. op'[u] = next
      BY <1>1, <2>1
    <3> QED
      BY <3>1 DEF Phase
  <2>2. CASE u # t
    <3>1. op'[u].pc \in OnTable
      BY <1>1, <2>2 DEF Alone
    <3> QED
      BY <3>1 DEF Phase, OnTable
  <2> QED
    BY <2>1, <2>2
<1> QED
  BY <1>2, <1>3, <1>4, <1>5, <1>6 DEF DiskInv

\* A step that leaves the disk alone.
LEMMA CallOnSameDisk ==
    ASSUME DiskInv, NEW t \in Tasks, Alone(t), NEW next, Goes(t, next), UNCHANGED disk,
           next.pc \in Pcs, next.pc = "close" => next.next.pc \in OnTable \ {"close"},
           next.pc \in OnTable => IsConsistent, Phase(next)
    PROVE  DiskInv'
<1>1. DiskTyped' /\ (IsConsistent' <=> IsConsistent)
  BY DEF DiskInv, DiskTyped, disk, IsConsistent
<1>2. Phase(next)'
  BY PhaseStays
<1> QED
  BY <1>1, <1>2, CallGoesOn

LEMMA TurnIsAlone ==
    ASSUME ~Waits, NEW t, NEW pc, Is(t, pc)
    PROVE  Alone(t) /\ op[t].pc = pc
BY DEF Is, Turn, Alone

LEMMA ConsistentAtRest ==
    ASSUME DiskInv, NEW t \in Tasks, Alone(t), op[t].pc \in OnTable
    PROVE  IsConsistent
BY DEF DiskInv, Alone

LEMMA DirectoriesAre ==
    ASSUME IsConsistent, NEW dir \in Directories
    PROVE  dir \in imap /\ node[dir].kind = "dir"
<1>1. CASE dir = 1
  BY <1>1 DEF IsConsistent, Consistent
<1>2. CASE dir # 1
  <2>1. dir \in Nrs /\ node[dir].kind = "dir"
    BY <1>2 DEF Directories
  <2>2. PICK d \in Nrs, s \in Slots : entry[d][s].nr = dir
    BY <1>2 DEF Directories
  <2>3. dir # 0
    BY <2>1, FilesAssumption DEF Nrs
  <2> QED
    BY <2>1, <2>2, <2>3 DEF IsConsistent, Consistent
<1> QED
  BY <1>1, <1>2

LEMMA CreateOnDisk ==
    ASSUME DiskInv, ~Waits, NEW t \in Tasks, NEW dir \in Directories, NEW name \in Names,
           NEW call \in {"open", "mkdir", "mknod"}, Create(t, dir, name, call)
    PROVE  DiskInv'
<1> DEFINE next == [pc |-> "add", dir |-> dir, name |-> name, call |-> call]
<1>1. Alone(t) /\ op[t].pc = "idle"
  BY TurnIsAlone DEF Create
<1>2. IsConsistent
  BY <1>1, ConsistentAtRest DEF OnTable
<1>3. InDirectory(next)
  BY <1>2, DirectoriesAre DEF InDirectory
<1>4. Goes(t, next) /\ UNCHANGED disk /\ Present(dir, name) = {}
  BY DEF Create
<1>5. Phase(next)
  BY <1>2, <1>3, <1>4 DEF Phase
<1>6. next.pc \in Pcs /\ next.pc \notin OnTable
  BY DEF Pcs, OnTable
<1>7. next.pc # "close"
  OBVIOUS
<1> HIDE DEF next
<1> QED
  BY <1>1, <1>4, <1>5, <1>6, <1>7, CallOnSameDisk

LEMMA LinkOnDisk ==
    ASSUME DiskInv, ~Waits, NEW t \in Tasks, NEW dir \in Directories, NEW name \in Names,
           NEW old \in Nrs, sys_link(t, old, dir, name)
    PROVE  DiskInv'
<1> DEFINE next == [pc |-> "link", dir |-> dir, name |-> name, nr |-> old]
<1>1. Alone(t) /\ op[t].pc = "idle"
  BY TurnIsAlone DEF sys_link
<1>2. IsConsistent
  BY <1>1, ConsistentAtRest DEF OnTable
<1>3. InDirectory(next)
  BY <1>2, DirectoriesAre DEF InDirectory
<1>4. Goes(t, next) /\ UNCHANGED disk /\ Present(dir, name) = {} /\ node[old].kind # "dir"
  BY DEF sys_link
<1>5. old \in imap
  <2>1. PICK d \in Directories, s \in Slots : entry[d][s].nr = old
    BY DEF sys_link
  <2>2. d \in imap
    BY <1>2, DirectoriesAre
  <2>3. d \in Nrs /\ old # 0
    BY <1>2, <2>2, FilesAssumption DEF IsConsistent, Consistent, Nrs
  <2> QED
    BY <1>2, <2>1, <2>3 DEF IsConsistent, Consistent
<1>6. Phase(next)
  BY <1>2, <1>3, <1>4, <1>5 DEF Phase
<1>7. next.pc \in Pcs /\ next.pc \notin OnTable
  BY DEF Pcs, OnTable
<1>8. next.pc # "close"
  OBVIOUS
<1> HIDE DEF next
<1> QED
  BY <1>1, <1>4, <1>6, <1>7, <1>8, CallOnSameDisk

LEMMA FindOnDisk ==
    ASSUME DiskInv, ~Waits, NEW t \in Tasks, NEW dir \in Directories, NEW name \in Names,
           NEW call \in {"open", "unlink", "rmdir"}, Find(t, call, dir, name)
    PROVE  DiskInv'
<1> DEFINE s == Slot(dir, name)
           next == [pc |-> call, dir |-> dir, slot |-> s, nr |-> entry[dir][s].nr]
<1>1. Alone(t) /\ op[t].pc = "idle"
  BY TurnIsAlone DEF Find
<1>2. IsConsistent
  BY <1>1, ConsistentAtRest DEF OnTable
<1>3. InDirectory(next) /\ dir \in Nrs
  BY <1>2, DirectoriesAre DEF InDirectory, IsConsistent, Consistent
<1>4. Goes(t, next) /\ UNCHANGED disk /\ Present(dir, name) # {}
  BY DEF Find
<1>5. s \in Slots /\ entry[dir][s].nr \in imap
  <2>1. Present(dir, name) \in SUBSET Nat
    BY FilesAssumption DEF Present, Slots
  <2>2. s \in Present(dir, name)
    BY <1>4, <2>1, MinInSet DEF Slot
  <2>3. s \in Slots /\ entry[dir][s].nr # 0
    BY <2>2 DEF Present
  <2> QED
    BY <1>2, <1>3, <2>3 DEF IsConsistent, Consistent
<1> HIDE DEF s
<1>6. Phase(next)
  BY <1>2, <1>3, <1>5 DEF Phase
<1>7. next.pc \in Pcs /\ next.pc \notin OnTable
  BY DEF Pcs, OnTable
<1>8. next.pc # "close"
  OBVIOUS
<1> HIDE DEF next
<1> QED
  BY <1>1, <1>4, <1>6, <1>7, <1>8, CallOnSameDisk

LEMMA AddEntryOnDisk ==
    ASSUME DiskInv, ~Waits, NEW t \in Tasks, AddEntry(t)
    PROVE  DiskInv'
<1>1. Alone(t) /\ op[t].pc = "add"
  BY TurnIsAlone DEF AddEntry
<1>2. Phase(op[t]) /\ DiskTyped
  BY DEF DiskInv
<1>3. PICK d, name, call : d = op[t].dir /\ name = op[t].name /\ call = op[t].call
  OBVIOUS
<1>4. /\ IsConsistent /\ d \in imap /\ node[d].kind = "dir"
      /\ name \in Names /\ Present(d, name) = {}
      /\ call \in {"open", "mkdir", "mknod"}
  BY <1>1, <1>2, <1>3 DEF Phase, InDirectory
<1>5. PICK s, nr : s = Slot(d, name) /\ nr = Min(Nrs \ imap)
  OBVIOUS
<1> DEFINE next == [pc |-> "enter", dir |-> d, slot |-> s, nr |-> nr, call |-> call]
<1>6. /\ entry' = [entry EXCEPT ![d][s].name = name] /\ imap' = imap \cup {nr} /\ node' = node
      /\ Goes(t, next) /\ Nrs \ imap # {} /\ FreeSlots(d) # {}
  BY <1>3, <1>4, <1>5 DEF AddEntry
<1>7. d \in Nrs /\ nr \in Nrs \ imap
  <2>1. Nrs \ imap \in SUBSET Nat
    BY FilesAssumption DEF Nrs
  <2>2. d \in Nrs
    BY <1>4 DEF IsConsistent, Consistent
  <2> QED
    BY <1>5, <1>6, <2>1, <2>2, MinInSet
<1>8. s \in Slots /\ entry[d][s].nr = 0
  <2>1. FreeSlots(d) \in SUBSET Nat
    BY FilesAssumption DEF FreeSlots, Slots
  <2>2. s \in FreeSlots(d)
    BY <1>4, <1>5, <1>6, <2>1, MinInSet DEF Slot
  <2> QED
    BY <2>2 DEF FreeSlots
<1>9. /\ DiskTyped'
      /\ \A e \in Nrs, r \in Slots : entry'[e][r].nr = entry[e][r].nr
  BY <1>2, <1>4, <1>6, <1>7, <1>8 DEF DiskTyped
<1>10. imap' \ {nr} = imap
  BY <1>6, <1>7
<1>11. Consistent(imap, node, entry')
  BY <1>4, <1>9, NumbersMatter DEF IsConsistent
<1>12. Consistent(imap \ {nr}, node, entry)'
  BY <1>6, <1>10, <1>11
<1>13. InDirectory(next)' /\ d # nr /\ entry'[d][s].nr = 0
  BY <1>4, <1>6, <1>7, <1>8, <1>9 DEF InDirectory
<1>14. Phase(next)'
  BY <1>4, <1>6, <1>8, <1>12, <1>13 DEF Phase
<1>15. next.pc \in Pcs /\ next.pc \notin OnTable
  BY DEF Pcs, OnTable
<1>16. next.pc # "close"
  OBVIOUS
<1> HIDE DEF next
<1> QED
  BY <1>1, <1>6, <1>9, <1>14, <1>15, <1>16, CallGoesOn

LEMMA EnterOnDisk ==
    ASSUME DiskInv, ~Waits, NEW t \in Tasks, EnterNumber(t)
    PROVE  DiskInv'
<1>1. Alone(t) /\ op[t].pc = "enter"
  BY TurnIsAlone DEF EnterNumber
<1>2. Phase(op[t]) /\ DiskTyped
  BY DEF DiskInv
<1>3. PICK d, s, nr, call : d = op[t].dir /\ s = op[t].slot /\ nr = op[t].nr /\ call = op[t].call
  OBVIOUS
<1>4. /\ Consistent(imap \ {nr}, node, entry) /\ nr \in imap
      /\ d \in imap /\ node[d].kind = "dir" /\ d # nr /\ s \in Slots /\ entry[d][s].nr = 0
      /\ call \in {"open", "mkdir", "mknod"}
  BY <1>1, <1>2, <1>3 DEF Phase, InDirectory
<1> DEFINE next == [pc |-> "new", dir |-> d, nr |-> nr, call |-> call]
<1>5. /\ entry' = [entry EXCEPT ![d][s].nr = nr] /\ imap' = imap /\ node' = node
      /\ Goes(t, next)
  BY <1>3 DEF EnterNumber
<1>6. d \in Nrs /\ nr \in 0 .. Numbers
  BY <1>2, <1>4 DEF DiskTyped, Nrs
<1>7. DiskTyped' /\ Sets(entry, entry', d, s, nr)
  <2>1. entry' \in [Nrs -> [Slots -> [name : Names \cup {None}, nr : 0 .. Numbers]]]
    BY <1>2, <1>4, <1>5, <1>6 DEF DiskTyped
  <2>2. DiskTyped'
    BY <1>2, <1>5, <2>1 DEF DiskTyped
  <2>3. \A e \in Nrs, r \in Slots : entry'[e][r].nr = IF e = d /\ r = s THEN nr ELSE entry[e][r].nr
    BY <1>2, <1>4, <1>5, <1>6 DEF DiskTyped
  <2> QED
    BY <2>2, <2>3 DEF Sets
<1>8. PICK en \in [Nrs -> [Slots -> [name : Names \cup {None}, nr : 0 .. Numbers]]] : en = entry
  BY <1>2 DEF DiskTyped
<1>9. /\ Consistent(imap' \ {nr}, node', en) /\ en[d][s].nr = 0
      /\ Sets(en, entry', d, s, nr)
  BY <1>4, <1>5, <1>7, <1>8
<1>10. InDirectory(next)'
  BY <1>4, <1>5 DEF InDirectory
<1>11. Phase(next)'
  BY <1>4, <1>5, <1>9, <1>10 DEF Phase
<1>12. next.pc \in Pcs /\ next.pc \notin OnTable
  BY DEF Pcs, OnTable
<1>13. next.pc # "close"
  OBVIOUS
<1> HIDE DEF next
<1> QED
  BY <1>1, <1>5, <1>7, <1>11, <1>12, <1>13, CallGoesOn

LEMMA TwoChanged ==
    ASSUME NEW S, NEW R, NEW f \in [S -> R], NEW x, NEW y, NEW v \in R, NEW w \in R
    PROVE  [f EXCEPT ![x] = v, ![y] = w] \in [S -> R]
OBVIOUS

\* A count that is to grow does not reach the limit of its byte.
LEMMA LinkFits ==
    ASSUME LinksFit \/ Few, DiskTyped, NEW im \in SUBSET imap, NEW en, Consistent(im, node, en),
           NEW n \in im
    PROVE  node[n].nlinks \in 0 .. 254
<1>1. node[n].nlinks \in 0 .. 255
  BY DEF DiskTyped
<1>2. CASE LinksFit
  BY <1>1, <1>2 DEF LinksFit
<1>3. CASE Few
  <2>1. PICK k \in Nat : k = Cardinality(Nrs \X Slots) /\ k <= 252
    BY <1>3, PlacesCounted DEF Few
  <2>2. Named(en, n) \subseteq Nrs \X Slots
    BY DEF Named
  <2>3. n \in Nrs
    BY DEF DiskTyped
  <2>4. SubDirs(node, en, n) \subseteq Nrs \X Slots
    BY <2>3 DEF SubDirs
  <2>5. Cardinality(Named(en, n)) <= k /\ Cardinality(SubDirs(node, en, n)) <= k
    BY <2>1, <2>2, <2>4, EntriesFinite, FS_Subset
  <2>6. Cardinality(Named(en, n)) \in Nat /\ Cardinality(SubDirs(node, en, n)) \in Nat
    BY <2>3, EntriesFinite
  <2>7. node[n].nlinks \in {Cardinality(Named(en, n)), 2 + Cardinality(SubDirs(node, en, n))}
    BY DEF Consistent, Links
  <2>8. node[n].nlinks <= 254
    BY <1>1, <2>1, <2>5, <2>6, <2>7
  <2> QED
    BY <1>1, <2>8
<1> QED
  BY <1>2, <1>3

\* What new_inode needs: the entry has the number, the inode not yet its kind.
LEMMA NewInodeOnDisk ==
    ASSUME DiskInv, LinksFit \/ Few, ~Waits, NEW t \in Tasks, NewInode(t)
    PROVE  DiskInv'
<1>1. Alone(t) /\ op[t].pc = "new"
  BY TurnIsAlone DEF NewInode
<1>2. Phase(op[t]) /\ DiskTyped
  BY DEF DiskInv
<1>3. PICK d, nr, call : d = op[t].dir /\ nr = op[t].nr /\ call = op[t].call
  OBVIOUS
<1>4. /\ nr \in imap /\ d \in imap /\ node[d].kind = "dir" /\ d # nr
      /\ call \in {"open", "mkdir", "mknod"}
      /\ d \in Nrs /\ nr \in Nrs /\ imap \subseteq Nrs
  BY <1>1, <1>2, <1>3 DEF Phase, InDirectory, DiskTyped
<1>5. PICK s \in Slots, en \in [Nrs -> [Slots -> [name : Names \cup {None}, nr : 0 .. Numbers]]] :
        /\ Consistent(imap \ {nr}, node, en) /\ en[d][s].nr = 0
        /\ Sets(en, entry, d, s, nr)
  BY <1>1, <1>2, <1>3 DEF Phase
<1>6. /\ imap' = imap /\ imap = (imap \ {nr}) \cup {nr}
      /\ nr \in Nrs \ (imap \ {nr}) /\ d \in imap \ {nr}
  BY <1>4 DEF NewInode
<1> DEFINE next == IF call = "open" THEN [pc |-> "open", nr |-> nr] ELSE Idle
<1>7. Goes(t, next)
  BY <1>3 DEF NewInode, Ends
<1>8. IsConsistent' /\ DiskTyped'
  <2>1. CASE call = "mkdir"
    <3>1. /\ node' = [node EXCEPT ![nr] = [kind |-> "dir", nlinks |-> 2], ![d] = Linked(d)]
          /\ entry' = [entry EXCEPT ![nr] = [r \in Slots |-> FreeEntry]]
      BY <1>3, <2>1 DEF NewInode
    <3>2. node[d].nlinks \in 0 .. 254
      BY <1>2, <1>5, <1>6, LinkFits
    <3>3. Linked(d) = [kind |-> "dir", nlinks |-> node[d].nlinks + 1]
      <4>1. (node[d].nlinks + 1) % 256 = node[d].nlinks + 1
        BY <3>2
      <4> QED
        BY <1>2, <1>4, <4>1 DEF Linked, DiskTyped
    <3>4. /\ node'[nr].kind = "dir" /\ node'[nr].nlinks = 2
          /\ node'[d].kind = "dir" /\ node'[d].nlinks = node[d].nlinks + 1
          /\ \A n \in imap \ {nr, d} : node'[n] = node[n]
      BY <1>2, <1>4, <3>1, <3>3 DEF DiskTyped
    <3>5. node' \in [Nrs -> [kind : {"dir", "file"}, nlinks : 0 .. 255]]
      <4>1. Linked(d) \in [kind : {"dir", "file"}, nlinks : 0 .. 255]
        BY <3>2, <3>3
      <4>2. [kind |-> "dir", nlinks |-> 2] \in [kind : {"dir", "file"}, nlinks : 0 .. 255]
        OBVIOUS
      <4> QED
        BY <1>2, <3>1, <4>1, <4>2, TwoChanged DEF DiskTyped
    <3>6. FreeEntry \in [name : Names \cup {None}, nr : 0 .. Numbers] /\ FreeEntry.nr = 0
      BY FilesAssumption DEF FreeEntry
    <3>7. entry' \in [Nrs -> [Slots -> [name : Names \cup {None}, nr : 0 .. Numbers]]]
      BY <1>2, <3>1, <3>6 DEF DiskTyped
    <3>8. \A e \in Nrs, r \in Slots : entry'[e][r].nr = IF e = nr THEN 0 ELSE entry[e][r].nr
      BY <1>2, <1>4, <3>1, <3>6 DEF DiskTyped
    <3>9. \A r \in Slots : en[nr][r].nr = 0
      BY <1>4, <1>5 DEF Consistent
    <3>10. Sets(en, entry', d, s, nr)
      BY <1>4, <1>5, <3>8, <3>9 DEF Sets
    <3>11. PICK im : im = imap \ {nr}
      OBVIOUS
    <3>12. Consistent(im \cup {nr}, node', entry')
      BY <1>4, <1>5, <1>6, <3>4, <3>10, <3>11, WithDirectory
    <3> QED
      BY <1>2, <1>6, <3>5, <3>7, <3>11, <3>12 DEF IsConsistent, DiskTyped
  <2>2. CASE call # "mkdir"
    <3>1. /\ node' = [node EXCEPT ![nr] = [kind |-> "file", nlinks |-> 1]]
          /\ entry' = entry
      BY <1>3, <2>2 DEF NewInode
    <3>2. /\ node'[nr].kind = "file" /\ node'[nr].nlinks = 1
          /\ \A n \in imap \ {nr} : node'[n] = node[n]
      BY <1>2, <1>4, <3>1 DEF DiskTyped
    <3>3. node' \in [Nrs -> [kind : {"dir", "file"}, nlinks : 0 .. 255]]
      BY <1>2, <1>4, <3>1 DEF DiskTyped
    <3>4. PICK im : im = imap \ {nr}
      OBVIOUS
    <3>5. Sets(en, entry', d, s, nr)
      BY <1>5, <3>1
    <3>6. /\ d \in im /\ nr \in Nrs \ im /\ Consistent(im, node, en) /\ en[d][s].nr = 0
          /\ \A n \in im : node'[n] = node[n]
      BY <1>5, <1>6, <3>2, <3>4
    <3>7. Consistent(im \cup {nr}, node', entry')
      BY <1>4, <3>2, <3>5, <3>6, WithFile
    <3> QED
      BY <1>2, <1>6, <3>1, <3>3, <3>4, <3>7 DEF IsConsistent, DiskTyped
  <2> QED
    BY <2>1, <2>2
<1>9. next.pc \in Pcs /\ next.pc \in {"open", "idle"}
  BY DEF Pcs, OnTable, Idle
<1>10. Phase(next)'
  BY <1>8, <1>9 DEF Phase
<1> HIDE DEF next
<1> QED
  BY <1>1, <1>7, <1>8, <1>9, <1>10, CallGoesOn

LEMMA LinkEntryOnDisk ==
    ASSUME DiskInv, LinksFit \/ Few, ~Waits, NEW t \in Tasks, LinkEntry(t)
    PROVE  DiskInv'
<1>1. Alone(t) /\ op[t].pc = "link"
  BY TurnIsAlone DEF LinkEntry
<1>2. Phase(op[t]) /\ DiskTyped
  BY DEF DiskInv
<1>3. PICK d, name, nr : d = op[t].dir /\ name = op[t].name /\ nr = op[t].nr
  OBVIOUS
<1>4. /\ IsConsistent /\ d \in imap /\ node[d].kind = "dir"
      /\ name \in Names /\ Present(d, name) = {}
      /\ nr \in imap /\ node[nr].kind # "dir"
      /\ d \in Nrs /\ nr \in Nrs
  BY <1>1, <1>2, <1>3 DEF Phase, InDirectory, DiskTyped
<1>5. PICK s : s = Slot(d, name)
  OBVIOUS
<1>6. /\ entry' = [entry EXCEPT ![d][s] = [name |-> name, nr |-> nr]]
      /\ node' = [node EXCEPT ![nr].nlinks = (@ + 1) % 256] /\ imap' = imap
      /\ Goes(t, Idle) /\ FreeSlots(d) # {}
  BY <1>3, <1>4, <1>5 DEF LinkEntry, Ends
<1>7. s \in Slots /\ entry[d][s].nr = 0
  <2>1. FreeSlots(d) \in SUBSET Nat
    BY FilesAssumption DEF FreeSlots, Slots
  <2>2. s \in FreeSlots(d)
    BY <1>4, <1>5, <1>6, <2>1, MinInSet DEF Slot
  <2> QED
    BY <2>2 DEF FreeSlots
<1>8. node[nr].nlinks \in 0 .. 254 /\ (node[nr].nlinks + 1) % 256 = node[nr].nlinks + 1
  <2>1. node[nr].nlinks \in 0 .. 254
    BY <1>2, <1>4, LinkFits DEF IsConsistent
  <2> QED
    BY <2>1
<1>9. /\ node'[nr].kind = node[nr].kind /\ node'[nr].nlinks = node[nr].nlinks + 1
      /\ \A n \in imap \ {nr} : node'[n] = node[n]
  BY <1>2, <1>4, <1>6, <1>8 DEF DiskTyped
<1>10. node' \in [Nrs -> [kind : {"dir", "file"}, nlinks : 0 .. 255]]
  BY <1>2, <1>4, <1>6, <1>8 DEF DiskTyped
<1>11. [name |-> name, nr |-> nr] \in [name : Names \cup {None}, nr : 0 .. Numbers]
  BY <1>4 DEF Nrs
<1>12. entry' \in [Nrs -> [Slots -> [name : Names \cup {None}, nr : 0 .. Numbers]]]
  BY <1>2, <1>4, <1>6, <1>7, <1>11 DEF DiskTyped
<1>13. Sets(entry, entry', d, s, nr)
  BY <1>2, <1>4, <1>6, <1>7 DEF DiskTyped, Sets
<1>14. Consistent(imap, node', entry')
  BY <1>4, <1>7, <1>9, <1>13, WithLink DEF IsConsistent
<1>15. IsConsistent' /\ DiskTyped'
  BY <1>2, <1>6, <1>10, <1>12, <1>14 DEF IsConsistent, DiskTyped
<1>16. Idle.pc \in Pcs /\ Idle.pc = "idle"
  BY DEF Pcs, OnTable, Idle
<1>17. Phase(Idle)'
  BY <1>16 DEF Phase
<1> QED
  BY <1>1, <1>6, <1>15, <1>16, <1>17, CallGoesOn

LEMMA UnlinkOnDisk ==
    ASSUME DiskInv, ~Waits, NEW t \in Tasks, sys_unlink(t)
    PROVE  DiskInv'
<1>1. Alone(t) /\ op[t].pc = "unlink"
  BY TurnIsAlone DEF sys_unlink
<1>2. Phase(op[t]) /\ DiskTyped
  BY DEF DiskInv
<1>3. PICK d, s, nr : d = op[t].dir /\ s = op[t].slot /\ nr = op[t].nr
  OBVIOUS
<1>4. /\ IsConsistent /\ d \in imap /\ node[d].kind = "dir" /\ s \in Slots
      /\ nr \in imap /\ entry[d][s].nr = nr
      /\ d \in Nrs /\ nr \in Nrs
  BY <1>1, <1>2, <1>3 DEF Phase, InDirectory, DiskTyped
<1>5. PICK links : links = (node[nr].nlinks + 255) % 256
  OBVIOUS
<1>6. CASE node[nr].kind = "dir"
  <2>1. Goes(t, Idle) /\ UNCHANGED disk
    BY <1>3, <1>6 DEF sys_unlink, Ends
  <2>2. Idle.pc \in Pcs /\ Idle.pc = "idle"
    BY DEF Pcs, OnTable, Idle
  <2>3. Phase(Idle)
    BY <2>2 DEF Phase
  <2> QED
    BY <1>1, <1>4, <2>1, <2>2, <2>3, CallOnSameDisk
<1>7. CASE node[nr].kind # "dir"
  <2> DEFINE next == IF links = 0 THEN [pc |-> "ifree", nr |-> nr] ELSE Idle
  <2>1. /\ entry' = [entry EXCEPT ![d][s] = FreeEntry]
        /\ node' = [node EXCEPT ![nr].nlinks = links]
        /\ imap' = imap /\ Goes(t, next)
    BY <1>3, <1>5, <1>7 DEF sys_unlink, FreesLast, Ends
  <2>2. FreeEntry \in [name : Names \cup {None}, nr : 0 .. Numbers] /\ FreeEntry.nr = 0
    BY FilesAssumption DEF FreeEntry
  <2>3. entry' \in [Nrs -> [Slots -> [name : Names \cup {None}, nr : 0 .. Numbers]]]
    BY <1>2, <1>4, <2>1, <2>2 DEF DiskTyped
  <2>4. Sets(entry, entry', d, s, 0)
    BY <1>2, <1>4, <2>1, <2>2 DEF DiskTyped, Sets
  <2>5. node[nr].nlinks \in 0 .. 255 /\ node[nr].nlinks # 0
    <3>1. node[nr].nlinks \in 0 .. 255
      BY <1>2, <1>4 DEF DiskTyped
    <3>2. node[nr].nlinks = Cardinality(Named(entry, nr))
      BY <1>4, <1>7 DEF IsConsistent, Consistent, Links
    <3>3. <<d, s>> \in Named(entry, nr)
      BY <1>4 DEF Named
    <3>4. IsFiniteSet(Named(entry, nr))
      BY EntriesFinite
    <3> QED
      BY <3>1, <3>2, <3>3, <3>4, FS_EmptySet
  <2>6. links = node[nr].nlinks - 1 /\ links \in 0 .. 255
    BY <1>5, <2>5
  <2>7. /\ node'[nr].kind = node[nr].kind /\ node'[nr].nlinks = node[nr].nlinks - 1
        /\ node'[nr].nlinks = links
        /\ \A n \in imap \ {nr} : node'[n] = node[n]
    BY <1>2, <1>4, <2>1, <2>6 DEF DiskTyped
  <2>8. node' \in [Nrs -> [kind : {"dir", "file"}, nlinks : 0 .. 255]]
    BY <1>2, <1>4, <2>1, <2>6 DEF DiskTyped
  <2>9. /\ node'[nr].nlinks # 0 => Consistent(imap, node', entry')
        /\ node'[nr].nlinks = 0 => Consistent(imap \ {nr}, node', entry')
    <3>1. PICK im, nd, en, nd2, en2 :
            im = imap /\ nd = node /\ en = entry /\ nd2 = node' /\ en2 = entry'
      OBVIOUS
    <3>2. /\ d \in im /\ s \in Slots /\ nr \in im /\ Consistent(im, nd, en) /\ en[d][s].nr = nr
          /\ Sets(en, en2, d, s, 0) /\ nd[nr].kind # "dir" /\ nd2[nr].kind # "dir"
          /\ nd2[nr].nlinks = nd[nr].nlinks - 1
          /\ \A n \in im \ {nr} : nd2[n] = nd[n]
      BY <1>4, <1>7, <2>4, <2>7, <3>1 DEF IsConsistent
    <3>3. ConsistentOrLess(im, nd2, en2, nr)
      BY <3>2, WithoutLink
    <3> QED
      BY <3>1, <3>3 DEF ConsistentOrLess
  <2>10. DiskTyped'
    BY <1>2, <2>1, <2>3, <2>8 DEF DiskTyped
  <2>11. next.pc \in Pcs /\ next.pc # "close"
    BY DEF Pcs, OnTable, Idle
  <2>12. next.pc \in OnTable => IsConsistent'
    BY <2>1, <2>7, <2>9 DEF OnTable, IsConsistent
  <2>13. Phase(next)'
    <3>1. CASE links = 0
      BY <1>4, <2>1, <2>7, <2>9, <3>1 DEF Phase
    <3>2. CASE links # 0
      BY <3>2 DEF Phase, Idle
    <3> QED
      BY <3>1, <3>2
  <2> HIDE DEF next
  <2> QED
    BY <1>1, <2>1, <2>10, <2>11, <2>12, <2>13, CallGoesOn
<1> QED
  BY <1>6, <1>7

LEMMA IfreeOnDisk ==
    ASSUME DiskInv, ~Waits, NEW t \in Tasks, Ifree(t)
    PROVE  DiskInv'
<1>1. Alone(t) /\ op[t].pc = "ifree"
  BY TurnIsAlone DEF Ifree
<1>2. Phase(op[t]) /\ DiskTyped
  BY DEF DiskInv
<1>3. imap' = imap \ {op[t].nr} /\ node' = node /\ entry' = entry /\ Goes(t, Idle)
  BY DEF Ifree, Ends
<1>4. IsConsistent' /\ DiskTyped'
  BY <1>1, <1>2, <1>3 DEF Phase, IsConsistent, DiskTyped
<1>5. Idle.pc \in Pcs /\ Idle.pc = "idle"
  BY DEF Pcs, OnTable, Idle
<1>6. Phase(Idle)'
  BY <1>5 DEF Phase
<1> QED
  BY <1>1, <1>3, <1>4, <1>5, <1>6, CallGoesOn

LEMMA RmdirOnDisk ==
    ASSUME DiskInv, ~Waits, NEW t \in Tasks, sys_rmdir(t)
    PROVE  DiskInv'
<1>1. Alone(t) /\ op[t].pc = "rmdir"
  BY TurnIsAlone DEF sys_rmdir
<1>2. Phase(op[t]) /\ DiskTyped
  BY DEF DiskInv
<1>3. PICK d, s, nr : d = op[t].dir /\ s = op[t].slot /\ nr = op[t].nr
  OBVIOUS
<1>4. /\ IsConsistent /\ d \in imap /\ node[d].kind = "dir" /\ s \in Slots
      /\ nr \in imap /\ entry[d][s].nr = nr
      /\ d \in Nrs /\ nr \in Nrs
  BY <1>1, <1>2, <1>3 DEF Phase, InDirectory, DiskTyped
<1> DEFINE next == [pc |-> "removed", dir |-> d, slot |-> s, nr |-> nr]
<1>5. CASE Goes(t, Idle) /\ UNCHANGED disk
  <2>1. Idle.pc \in Pcs /\ Idle.pc = "idle"
    BY DEF Pcs, OnTable, Idle
  <2>2. Phase(Idle)
    BY <2>1 DEF Phase
  <2> QED
    BY <1>1, <1>4, <1>5, <2>1, <2>2, CallOnSameDisk
<1>6. CASE /\ imap' = imap \ {nr} /\ node' = node /\ entry' = entry /\ Goes(t, next)
           /\ node[nr].kind = "dir" /\ is_empty(nr)
  <2>1. DiskTyped'
    BY <1>2, <1>6 DEF DiskTyped
  <2>2. d # nr
    BY <1>4, <1>6, FilesAssumption DEF is_empty, Nrs
  <2>3. imap' \cup {nr} = imap
    BY <1>4, <1>6
  <2>4. Consistent(imap \cup {nr}, node, entry)'
    BY <1>4, <1>6, <2>3 DEF IsConsistent
  <2>5. Phase(next)'
    BY <1>4, <1>6, <2>2, <2>4 DEF Phase, InDirectory, is_empty
  <2>6. next.pc \in Pcs /\ next.pc \notin OnTable
    BY DEF Pcs, OnTable
  <2>7. next.pc # "close"
    OBVIOUS
  <2> HIDE DEF next
  <2> QED
    BY <1>1, <1>6, <2>1, <2>5, <2>6, <2>7, CallGoesOn
<1>7. \/ Goes(t, Idle) /\ UNCHANGED disk
      \/ /\ imap' = imap \ {nr} /\ node' = node /\ entry' = entry /\ Goes(t, next)
         /\ node[nr].kind = "dir" /\ is_empty(nr)
  BY <1>3 DEF sys_rmdir, Ends
<1> QED
  BY <1>5, <1>6, <1>7

LEMMA RemoveDirOnDisk ==
    ASSUME DiskInv, ~Waits, NEW t \in Tasks, RemoveDir(t)
    PROVE  DiskInv'
<1>1. Alone(t) /\ op[t].pc = "removed"
  BY TurnIsAlone DEF RemoveDir
<1>2. Phase(op[t]) /\ DiskTyped
  BY DEF DiskInv
<1>3. PICK d, s, nr : d = op[t].dir /\ s = op[t].slot /\ nr = op[t].nr
  OBVIOUS
<1>4. /\ nr \in Nrs \ imap /\ Consistent(imap \cup {nr}, node, entry)
      /\ node[nr].kind = "dir" /\ \A r \in Slots : entry[nr][r].nr = 0
      /\ d \in imap /\ node[d].kind = "dir" /\ s \in Slots /\ entry[d][s].nr = nr
      /\ d \in Nrs /\ d # nr /\ imap \subseteq Nrs
  BY <1>1, <1>2, <1>3 DEF Phase, InDirectory, DiskTyped, is_empty
<1>5. /\ node' = [node EXCEPT ![nr].nlinks = 0, ![d] = Unlinked(d)]
      /\ entry' = [entry EXCEPT ![d][s] = FreeEntry]
      /\ imap' = imap /\ Goes(t, Idle)
  BY <1>3 DEF RemoveDir, Ends
<1>6. FreeEntry \in [name : Names \cup {None}, nr : 0 .. Numbers] /\ FreeEntry.nr = 0
  BY FilesAssumption DEF FreeEntry
<1>7. entry' \in [Nrs -> [Slots -> [name : Names \cup {None}, nr : 0 .. Numbers]]]
  BY <1>2, <1>4, <1>5, <1>6 DEF DiskTyped
<1>8. Sets(entry, entry', d, s, 0)
  BY <1>2, <1>4, <1>5, <1>6 DEF DiskTyped, Sets
<1>9. node[d].nlinks \in 2 .. 255
  <2>1. node[d].nlinks \in 0 .. 255
    BY <1>2, <1>4 DEF DiskTyped
  <2>2. node[d].nlinks = 2 + Cardinality(SubDirs(node, entry, d))
    BY <1>4 DEF Consistent, Links
  <2>3. Cardinality(SubDirs(node, entry, d)) \in Nat
    BY <1>4, EntriesFinite
  <2> QED
    BY <2>1, <2>2, <2>3
<1>10. Unlinked(d) = [kind |-> "dir", nlinks |-> node[d].nlinks - 1]
  <2>1. (node[d].nlinks + 255) % 256 = node[d].nlinks - 1
    BY <1>9
  <2> QED
    BY <1>2, <1>4, <2>1 DEF Unlinked, DiskTyped
<1>11. /\ node'[d].kind = "dir" /\ node'[d].nlinks = node[d].nlinks - 1
       /\ \A n \in imap \ {d} : node'[n] = node[n]
  BY <1>2, <1>4, <1>5, <1>10 DEF DiskTyped
<1>12. node' \in [Nrs -> [kind : {"dir", "file"}, nlinks : 0 .. 255]]
  <2>1. Unlinked(d) \in [kind : {"dir", "file"}, nlinks : 0 .. 255]
    BY <1>9, <1>10
  <2>2. [node[nr] EXCEPT !.nlinks = 0] \in [kind : {"dir", "file"}, nlinks : 0 .. 255]
    BY <1>2, <1>4 DEF DiskTyped
  <2>3. node' = [node EXCEPT ![nr] = [node[nr] EXCEPT !.nlinks = 0], ![d] = Unlinked(d)]
    BY <1>2, <1>4, <1>5 DEF DiskTyped
  <2> QED
    BY <1>2, <2>1, <2>2, <2>3, TwoChanged DEF DiskTyped
<1>13. PICK im : im = imap \cup {nr}
  OBVIOUS
<1>14. imap = im \ {nr} /\ nr \in im /\ d \in im
  BY <1>4, <1>13
<1>15. Consistent(im \ {nr}, node', entry')
  BY <1>4, <1>8, <1>11, <1>13, <1>14, WithoutDirectory
<1>16. IsConsistent' /\ DiskTyped'
  BY <1>2, <1>5, <1>7, <1>12, <1>14, <1>15 DEF IsConsistent, DiskTyped
<1>17. Idle.pc \in Pcs /\ Idle.pc = "idle"
  BY DEF Pcs, OnTable, Idle
<1>18. Phase(Idle)'
  BY <1>17 DEF Phase
<1> QED
  BY <1>1, <1>5, <1>16, <1>17, <1>18, CallGoesOn

-----------------------------------------------------------------------------
(* The steps on the table of files do not see the directories.             *)

\* Such a call begins and ends on the table.
LEMMA TableOnDisk ==
    ASSUME DiskInv, NEW t \in Tasks, Alone(t), op[t].pc \in OnTable \cup {"open"},
           UNCHANGED disk, NEW next, Goes(t, next), next.pc \in OnTable,
           next.pc = "close" => next.next.pc \in OnTable \ {"close"}
    PROVE  DiskInv'
<1>1. IsConsistent
  <2>1. CASE op[t].pc = "open"
    BY <2>1 DEF DiskInv, Phase
  <2>2. CASE op[t].pc \in OnTable
    BY <2>2, ConsistentAtRest
  <2> QED
    BY <2>1, <2>2
<1>2. Phase(next) /\ next.pc \in Pcs
  BY DEF Phase, Pcs, OnTable
<1> QED
  BY <1>1, <1>2, CallOnSameDisk

LEMMA CloseOnDisk ==
    ASSUME DiskInv, NEW t \in Tasks, Alone(t), op[t].pc \in OnTable,
           NEW d, NEW next, next.pc \in OnTable \ {"close"}, Close(t, d, next)
    PROVE  DiskInv'
<1> DEFINE closing == [pc |-> "close", fd |-> d, next |-> next]
<1>1. UNCHANGED disk
  BY DEF Close
<1>2. CASE Goes(t, closing)
  <2>1. closing.pc \in OnTable /\ closing.next.pc \in OnTable \ {"close"}
    BY DEF OnTable
  <2> HIDE DEF closing
  <2> QED
    BY <1>1, <1>2, <2>1, TableOnDisk
<1>3. CASE Goes(t, next)
  BY <1>1, <1>3, TableOnDisk
<1> QED
  BY <1>2, <1>3 DEF Close

LEMMA SameCallsOnDisk ==
    ASSUME DiskInv, UNCHANGED disk, op' = op
    PROVE  DiskInv'
<1>1. DiskTyped' /\ (IsConsistent' <=> IsConsistent)
  BY DEF DiskInv, DiskTyped, disk, IsConsistent
<1>2. \A o : Phase(o)' <=> Phase(o)
  BY PhaseStays
<1> QED
  BY <1>1, <1>2 DEF DiskInv

LEMMA NextKeepsDiskInv ==
    ASSUME DiskInv, LinksFit \/ Few, ~Waits, [Next]_vars
    PROVE  DiskInv'
<1>1. CASE UNCHANGED vars
  <2>1. UNCHANGED disk /\ op' = op
    BY <1>1 DEF vars, disk
  <2> QED
    BY <2>1, SameCallsOnDisk
<1>2. ASSUME NEW t \in Tasks, DirectoryStep(t)
      PROVE  DiskInv'
  BY <1>2, CreateOnDisk, LinkOnDisk, FindOnDisk, AddEntryOnDisk, EnterOnDisk, NewInodeOnDisk,
     LinkEntryOnDisk, UnlinkOnDisk, IfreeOnDisk, RmdirOnDisk, RemoveDirOnDisk DEF DirectoryStep
<1>3. Idle.pc = "idle"
  BY DEF Idle
<1>4. ASSUME NEW t \in Tasks, sys_open(t)
      PROVE  DiskInv'
  <2>1. Alone(t) /\ op[t].pc = "open" /\ UNCHANGED disk /\ Goes(t, Idle)
    BY <1>4, TurnIsAlone DEF sys_open, Ends
  <2> QED
    BY <1>3, <2>1, TableOnDisk DEF OnTable
<1>5. ASSUME NEW t \in Tasks, NEW d \in Fds, sys_close(t, d)
      PROVE  DiskInv'
  <2>1. Alone(t) /\ op[t].pc = "idle" /\ Close(t, d, Idle)
    BY <1>5, TurnIsAlone DEF sys_close
  <2> QED
    BY <1>3, <2>1, CloseOnDisk DEF OnTable
<1>6. ASSUME NEW t \in Tasks, NEW d \in Fds, sys_dup(t, d)
      PROVE  DiskInv'
  BY <1>6, SameCallsOnDisk DEF sys_dup
<1>7. ASSUME NEW t \in Tasks, NEW d \in Fds, NEW e \in Fds, sys_dup2(t, d, e)
      PROVE  DiskInv'
  <2> DEFINE next == [pc |-> "dup", fd |-> d, arg |-> e]
  <2>1. CASE Close(t, e, next)
    <3>1. Alone(t) /\ op[t].pc = "idle" /\ Close(t, e, next)
      BY <1>7, <2>1, TurnIsAlone DEF sys_dup2
    <3>2. next.pc \in OnTable \ {"close"}
      BY DEF OnTable
    <3> HIDE DEF next
    <3> QED
      BY <3>1, <3>2, CloseOnDisk DEF OnTable
  <2>2. CASE UNCHANGED disk /\ op' = op
    BY <2>2, SameCallsOnDisk
  <2> QED
    BY <1>7, <2>1, <2>2 DEF sys_dup2
<1>8. ASSUME NEW t \in Tasks, task_put_fd(t)
      PROVE  DiskInv'
  <2>1. Alone(t) /\ op[t].pc = "close" /\ UNCHANGED disk /\ Goes(t, op[t].next)
    BY <1>8, TurnIsAlone DEF task_put_fd
  <2>2. PICK next : next = op[t].next
    OBVIOUS
  <2>3. next.pc \in OnTable \ {"close"}
    BY <2>1, <2>2, <1>8 DEF DiskInv
  <2> QED
    BY <2>1, <2>2, <2>3, TableOnDisk DEF OnTable
<1>9. ASSUME NEW t \in Tasks, DupAfter(t)
      PROVE  DiskInv'
  <2>1. Alone(t) /\ op[t].pc = "dup" /\ UNCHANGED disk /\ Goes(t, Idle)
    BY <1>9, TurnIsAlone DEF DupAfter, Ends
  <2> QED
    BY <1>3, <2>1, TableOnDisk DEF OnTable
<1>10. ASSUME NEW t \in Tasks, NEW u \in Tasks, task_fork(t, u)
       PROVE  DiskInv'
  BY <1>10, SameCallsOnDisk DEF task_fork
<1>11. ASSUME NEW t \in Tasks, task_exit(t)
       PROVE  DiskInv'
  <2> DEFINE next == [pc |-> "exit"]
  <2>1. Alone(t) /\ op[t].pc = "idle" /\ UNCHANGED disk /\ Goes(t, next)
    BY <1>11, TurnIsAlone DEF task_exit
  <2>2. next.pc \in OnTable /\ next.pc # "close"
    BY DEF OnTable
  <2> HIDE DEF next
  <2> QED
    BY <2>1, <2>2, TableOnDisk DEF OnTable
<1>12. ASSUME NEW t \in Tasks, ExitClose(t)
       PROVE  DiskInv'
  <2> DEFINE next == [pc |-> "exit"]
  <2>1. Alone(t) /\ op[t].pc = "exit"
    BY <1>12, TurnIsAlone DEF ExitClose
  <2>2. next.pc \in OnTable \ {"close"}
    BY DEF OnTable
  <2>3. \/ \E d : Close(t, d, next)
        \/ UNCHANGED disk /\ Goes(t, Idle)
    BY <1>12 DEF ExitClose, Ends
  <2> HIDE DEF next
  <2>4. CASE \E d : Close(t, d, next)
    BY <2>1, <2>2, <2>4, CloseOnDisk DEF OnTable
  <2>5. CASE UNCHANGED disk /\ Goes(t, Idle)
    BY <1>3, <2>1, <2>5, TableOnDisk DEF OnTable
  <2> QED
    BY <2>3, <2>4, <2>5
<1>13. Next => \E t \in Tasks :
         \/ DirectoryStep(t) \/ sys_open(t)
         \/ \E d \in Fds : sys_close(t, d) \/ sys_dup(t, d) \/ \E e \in Fds : sys_dup2(t, d, e)
         \/ task_put_fd(t) \/ DupAfter(t)
         \/ \E u \in Tasks : task_fork(t, u)
         \/ task_exit(t) \/ ExitClose(t)
  BY DEF Next, DirectoryStep, Fds
<1> QED
  BY <1>1, <1>2, <1>4, <1>5, <1>6, <1>7, <1>8, <1>9, <1>10, <1>11, <1>12, <1>13

-----------------------------------------------------------------------------
(* What this says of entries and links.                                    *)

LEMMA InitDiskInv ==
    ASSUME Init
    PROVE  DiskInv
<1>1. /\ imap = {1} /\ Idle.pc = "idle" /\ op = [t \in Tasks |-> Idle]
      /\ node = [n \in Nrs |-> [kind |-> "dir", nlinks |-> IF n = 1 THEN 2 ELSE 0]]
      /\ entry = [n \in Nrs |-> [s \in Slots |-> FreeEntry]]
  BY DEF Init, Idle
<1>2. 1 \in Nrs
  BY FilesAssumption DEF Nrs
<1>3. FreeEntry \in [name : Names \cup {None}, nr : 0 .. Numbers] /\ FreeEntry.nr = 0
  BY FilesAssumption DEF FreeEntry
<1>4. DiskTyped
  <2>1. node \in [Nrs -> [kind : {"dir", "file"}, nlinks : 0 .. 255]]
    BY <1>1
  <2>2. entry \in [Nrs -> [Slots -> [name : Names \cup {None}, nr : 0 .. Numbers]]]
    BY <1>1, <1>3
  <2> QED
    BY <1>1, <1>2, <2>1, <2>2 DEF DiskTyped
<1>5. \A d \in Nrs, s \in Slots : entry[d][s].nr = 0
  BY <1>1, <1>3
<1>6. node[1].kind = "dir" /\ node[1].nlinks = 2
  BY <1>1, <1>2
<1>7. Named(entry, 1) = {} /\ SubDirs(node, entry, 1) = {}
  BY <1>2, <1>5 DEF Named, SubDirs, NamesDir
<1>8. node[1].nlinks = Links(node, entry, 1)
  BY <1>6, <1>7, FS_EmptySet DEF Links
<1>9. IsConsistent
  BY <1>1, <1>2, <1>5, <1>6, <1>7, <1>8 DEF IsConsistent, Consistent
<1>10. \A t \in Tasks : op[t].pc = "idle"
  BY <1>1
<1>11. \A t \in Tasks : Phase(op[t])
  BY <1>10 DEF Phase
<1>12. op = [t \in Tasks |-> op[t]]
  BY <1>1
<1> QED
  BY <1>4, <1>9, <1>10, <1>11, <1>12 DEF DiskInv, Pcs, OnTable

LEMMA QuietIsConsistent ==
    ASSUME DiskInv, Quiet
    PROVE  IsConsistent
<1>1. CASE \A t \in Tasks : op[t].pc \in OnTable
  BY <1>1 DEF DiskInv
<1>2. CASE \E t \in Tasks : op[t].pc = "open"
  BY <1>2 DEF DiskInv, Phase
<1> QED
  BY <1>1, <1>2 DEF Quiet

LEMMA NamedIsEntries ==
    ASSUME IsConsistent, NEW n \in Nrs
    PROVE  EntriesOf(n) = Named(entry, n)
<1>1. imap \subseteq Nrs /\ n # 0
  BY FilesAssumption DEF IsConsistent, Consistent, Nrs
<1>2. ASSUME NEW v \in Named(entry, n)
      PROVE  v \in EntriesOf(n)
  <2>1. v \in Nrs \X Slots /\ entry[v[1]][v[2]].nr = n
    BY DEF Named
  <2>2. v[1] \in imap /\ node[v[1]].kind = "dir"
    BY <1>1, <2>1 DEF IsConsistent, Consistent
  <2> QED
    BY <2>1, <2>2 DEF EntriesOf
<1>3. EntriesOf(n) \subseteq Named(entry, n)
  BY <1>1 DEF EntriesOf, Named
<1> QED
  BY <1>2, <1>3

LEMMA LinksAreCounted ==
    ASSUME DiskInv
    PROVE  NlinksIsEntries
<1> SUFFICES ASSUME Quiet, NEW n \in imap
             PROVE  node[n].nlinks =
                      IF node[n].kind # "dir" THEN Cardinality(EntriesOf(n))
                      ELSE 2 + Cardinality({x \in {n} \X Slots :
                             entry[n][x[2]].nr # 0 /\ node[entry[n][x[2]].nr].kind = "dir"})
  BY DEF NlinksIsEntries
<1>1. IsConsistent
  BY QuietIsConsistent
<1>2. n \in Nrs /\ node[n].nlinks = Links(node, entry, n)
  BY <1>1 DEF IsConsistent, Consistent
<1>3. EntriesOf(n) = Named(entry, n)
  BY <1>1, <1>2, NamedIsEntries
<1>4. SubDirs(node, entry, n) =
        {x \in {n} \X Slots : entry[n][x[2]].nr # 0 /\ node[entry[n][x[2]].nr].kind = "dir"}
  BY DEF SubDirs, NamesDir
<1> QED
  BY <1>2, <1>3, <1>4 DEF Links

LEMMA EntriesAreOfFiles ==
    ASSUME DiskInv
    PROVE  EntriesAreFiles
<1> SUFFICES ASSUME Quiet PROVE
        /\ \A d \in imap, s \in Slots :
               node[d].kind = "dir" /\ entry[d][s].nr # 0 => entry[d][s].nr \in imap
        /\ \A n \in imap \ {1} :
               EntriesOf(n) # {} /\ (node[n].kind = "dir" => Cardinality(EntriesOf(n)) = 1)
  BY DEF EntriesAreFiles
<1>1. IsConsistent
  BY QuietIsConsistent
<1>2. \A d \in imap, s \in Slots :
        node[d].kind = "dir" /\ entry[d][s].nr # 0 => entry[d][s].nr \in imap
  BY <1>1 DEF IsConsistent, Consistent
<1>3. ASSUME NEW n \in imap \ {1}
      PROVE  EntriesOf(n) # {} /\ (node[n].kind = "dir" => Cardinality(EntriesOf(n)) = 1)
  <2>1. n \in Nrs
    BY <1>1 DEF IsConsistent, Consistent
  <2>2. EntriesOf(n) = Named(entry, n)
    BY <1>1, <2>1, NamedIsEntries
  <2>3. PICK v : v \in EntriesOf(n)
    BY <1>1, <1>3, <2>2 DEF IsConsistent, Consistent
  <2>4. ASSUME node[n].kind = "dir"
        PROVE  EntriesOf(n) = {v}
    BY <1>1, <1>3, <2>2, <2>3, <2>4 DEF IsConsistent, Consistent
  <2>5. Cardinality({v}) = 1
    BY FS_Singleton
  <2> QED
    BY <2>3, <2>4, <2>5
<1> QED
  BY <1>2, <1>3

-----------------------------------------------------------------------------
\* On a device that never waits entries, inodes and counts agree whenever no call
\* is inside a directory, and are apart by what Phase says while one is, as long
\* as no count of links is at the limit of its byte, which namei.c never looks at.
THEOREM FilesConsistent ==
    ASSUME ~Waits
    PROVE  Spec /\ []LinksFit => []DiskInv
<1>1. Init => DiskInv
  BY InitDiskInv
<1>2. DiskInv /\ LinksFit /\ [Next]_vars => DiskInv'
  BY NextKeepsDiskInv
<1> QED
  BY <1>1, <1>2, PTL DEF Spec

\* Then nlinks is the number of entries that name an inode, with . and .. for a
\* directory (sys_link, sys_unlink, sys_mkdir, sys_rmdir).
THEOREM FilesNlinksIsEntries ==
    ASSUME ~Waits
    PROVE  Spec /\ []LinksFit => []NlinksIsEntries
<1>1. DiskInv => NlinksIsEntries
  BY LinksAreCounted
<1> QED
  BY <1>1, FilesConsistent, PTL

\* And entries name inodes in use, each of which has an entry, a directory just
\* one: no inode is lost and no entry dangles.
THEOREM FilesEntriesAreFiles ==
    ASSUME ~Waits
    PROVE  Spec /\ []LinksFit => []EntriesAreFiles
<1>1. DiskInv => EntriesAreFiles
  BY EntriesAreOfFiles
<1> QED
  BY <1>1, FilesConsistent, PTL

\* Where there are places for no more than 252 entries no count of links can
\* get to its limit, and nothing has to be supposed of it.
THEOREM FewFilesAreCounted ==
    ASSUME ~Waits, Few
    PROVE  Spec => [](NlinksIsEntries /\ EntriesAreFiles)
<1>1. Init => DiskInv
  BY InitDiskInv
<1>2. DiskInv /\ [Next]_vars => DiskInv'
  BY NextKeepsDiskInv
<1>3. DiskInv => NlinksIsEntries /\ EntriesAreFiles
  BY LinksAreCounted, EntriesAreOfFiles
<1> QED
  BY <1>1, <1>2, <1>3, PTL DEF Spec
=============================================================================
