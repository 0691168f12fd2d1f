--------------------------- MODULE InodeInvariant ---------------------------
(***************************************************************************)
(* The inductive invariant of InodeCache, for one task that mounts and as  *)
(* long as no umount has met a busy file system; InodeCacheProofs proves   *)
(* that it is one.                                                         *)
(*                                                                         *)
(* CountIsReferences is not inductive.  That a micro-step finds the inodes *)
(* it uses needs to know that what is left of a call fits the inodes its   *)
(* task holds (Fits); that a pointer of a super block is given up once,    *)
(* how far the mount, umount or mkfs in progress is (Phase) and in which   *)
(* order it does the rest (Ranked, ClearLate); that a directory which a    *)
(* task replaces is given up once, where in its list that is (HomedLate);  *)
(* and that a call that ends early drops all it holds, what may come after *)
(* a lookup (Early, FinalLast).                                            *)
(*                                                                         *)
(* All is stated of parameters instead of the variables: a lemma about a   *)
(* step names the tables before and after it.                              *)
(***************************************************************************)
EXTENDS InodeCache

\* The super blocks for mounts, and the one that the next mount takes.
Others == Supers \ {1}
First == Min(Others)
Devs == {Root, Disk, "pipe"}
Fields == {"iroot", "imount"}

\* The names that calls look up.
Names == {1} \cup UNION {{path[k] : k \in 2 .. Len(path)} : path \in Paths \cup Specials}

-----------------------------------------------------------------------------
(* Micro-steps, and the lists of them.                                     *)

Ops ==
    ({"iput", "drop", "fill"} \X Slots) \cup ({"start", "chdir", "homed"} \X Homes)
    \cup ({"parent", "walk", "last"} \X Names) \cup ({"iget"} \X Devs \X Names)
    \cup ({"enter"} \X Supers) \cup ({"isblk"} \X Paths)
    \cup ({"read", "mounted", "attach", "put", "made"} \X Others)
    \cup ({"release", "clear"} \X Others \X Fields)
    \cup {<<"under">>, <<"onto">>, <<"umount">>, <<"mkfs">>}

MountKinds ==
    {"isblk", "onto", "umount", "mkfs", "read", "mounted", "attach", "put", "made",
     "release", "clear"}

\* How many of its inodes a task needs for a micro-step, and how many more it
\* has when what the micro-step calls is done, too.
Needs(kind) ==
    IF kind \in {"walk", "last", "parent", "homed", "chdir", "isblk", "umount", "mkfs"} THEN 1
    ELSE IF kind \in {"under", "onto", "mounted", "made"} THEN 2
    ELSE IF kind = "attach" THEN 3 ELSE 0

Gain(kind) ==
    IF kind \in {"iget", "fill", "enter", "start"} THEN 1
    ELSE IF kind \in {"under", "homed", "chdir", "isblk", "umount", "mkfs"} THEN -1
    ELSE IF kind \in {"onto", "mounted", "made"} THEN -2
    ELSE IF kind = "attach" THEN -3 ELSE 0

\* The order of the micro-steps of a mount, an umount or mkfs.
Rank(op) ==
    IF op[1] = "read" THEN 1
    ELSE IF op[1] = "mounted" THEN 2
    ELSE IF op[1] \in {"release", "clear"} THEN IF op[3] = "iroot" THEN 1 ELSE 2
    ELSE 3

IsMount(op) == op[1] \in MountKinds
Mounts(ops) == {ops[k] : k \in {j \in 1 .. Len(ops) : IsMount(ops[j])}}
Has(ops, op) == \E k \in 1 .. Len(ops) : ops[k] = op

\* d is how many inodes the task has before each of ops, and after the last.
Follows(ops, d) ==
    \A k \in 1 .. Len(ops) :
        d[k] >= Needs(ops[k][1]) /\ d[k + 1] = d[k] + Gain(ops[k][1])

\* A task with h inodes can do ops, and has e in the end.
FitsTo(ops, h, e) ==
    \E d \in [1 .. Len(ops) + 1 -> Nat] : d[1] = h /\ d[Len(ops) + 1] = e /\ Follows(ops, d)
Fits(ops, h) == \E e \in Nat : FitsTo(ops, h, e)

\* The micro-steps of a mount, an umount or mkfs come in their order.
Ranked(ops) ==
    \A j, k \in 1 .. Len(ops) :
        j < k /\ IsMount(ops[j]) /\ IsMount(ops[k]) => Rank(ops[j]) < Rank(ops[k])

\* The directory of a task is replaced as soon as the old one is dropped,
Drops(op) == op[1] \in {"iput", "drop"}

HomedLate(ops) ==
    \A k \in 1 .. Len(ops) : ops[k][1] = "homed" => k = 1 \/ (k = 2 /\ Drops(ops[1]))

\* and a pointer of a super block is cleared as soon as its inode is dropped.
DropsOf(op, i) == op = <<"iput", i>> \/ op = <<"drop", i>>

ClearLate(ops, sup, kn, t) ==
    \A k \in 1 .. Len(ops) : ops[k][1] = "clear" =>
        (k = 1 /\ kn = t) \/ (k = 2 /\ DropsOf(ops[1], sup[ops[2][2]][ops[2][3]]))

\* A lookup that finds no directory ends its call: what is left of the call are
\* the rest of the lookup and at most one micro-step, the last one.
Lookups == {"parent", "walk", "last"}

Finals == {"chdir", "isblk", "onto", "umount", "mkfs"}

MayEnd(op) == op[1] \in {"walk", "last"}

Early(ops) ==
    \A j, k \in 1 .. Len(ops) : MayEnd(ops[j]) /\ j < k =>
        ops[k][1] \in Lookups \/ (k = Len(ops) /\ ops[k][1] \in Finals)

FinalLast(ops) == \A k \in 1 .. Len(ops) : ops[k][1] \in Finals => k = Len(ops)

\* A list of micro-steps that a task with h inodes can do, in their order.
Good(ops, h) ==
    /\ ops \in Seq(Ops) /\ Fits(ops, h) /\ Ranked(ops)
    /\ HomedLate(ops) /\ Early(ops) /\ FinalLast(ops)

-----------------------------------------------------------------------------
(* The tables.                                                             *)

SlotRec ==
    [dev : Devs \cup {None}, nr : Names \cup {0}, count : Nat, mount : {None, Root, Disk},
     sb : Supers \cup {None}, desc : ((Devs \cup {None}) \X (Names \cup {0})) \cup {<< >>}]

\* Devices of which the table has each inode once.
Listed(r) == r.dev # None /\ r.dev # "pipe"

SlotOk(r) ==
    /\ r.dev = None <=> r.count = 0
    /\ ~Listed(r) => r.sb = None
    /\ r.dev = Root => r.sb = 1
    /\ r.dev = Disk => r.sb = First
    /\ r.dev = None => r.desc = << >>

SameInode(r, q) == Listed(r) /\ r.dev = q.dev /\ r.nr = q.nr

SlotInv(sl) ==
    /\ sl \in [Slots -> SlotRec]
    /\ \A i \in Slots : SlotOk(sl[i])
    /\ sl[1].dev = Root /\ sl[1].nr = 1
    /\ \A i, j \in Slots : SameInode(sl[i], sl[j]) => i = j

\* 1 for an inode whose block is still to be read.
Unread(r) == IF Listed(r) /\ r.desc # <<r.dev, r.nr>> THEN 1 ELSE 0

SuperRec ==
    [dev : {None, Root, Disk}, count : Nat, iroot : Slots \cup {None}, imount : Slots \cup {None}]

SuperInv(sup) ==
    /\ sup \in [Supers -> SuperRec]
    /\ sup[1].dev = Root /\ sup[1].iroot = 1 /\ sup[1].imount = 1
    /\ \A s \in Others : sup[s].dev # Root

\* A super block is not in use; First is mounted, and counted n times; s is in
\* use and not mounted.
Off(sup, s) == sup[s].dev = None /\ sup[s].imount = None
AllOff(sup, S) == \A s \in S : Off(sup, s)

On(sup, n) ==
    /\ sup[First].dev = Disk /\ sup[First].count = n
    /\ sup[First].imount \in Slots /\ sup[First].iroot \in Slots

Half(sup, s) == sup[s].dev = Disk /\ sup[s].imount = None /\ sup[s].count = 1

\* M are the micro-steps left of a mount, an umount or mkfs, of which there is
\* one at a time.  Between two calls, and before they touch super_table:
Resting(M) ==
    \/ M = {} \/ \E path \in Paths : M = {<<"isblk", path>>}
    \/ M = {<<"onto">>} \/ M = {<<"umount">>} \/ M = {<<"mkfs">>}

Idle(sup) ==
    AllOff(sup, Others) \/ (First \in Others /\ AllOff(sup, Others \ {First}) /\ On(sup, 1))

Mounting(M, sup) ==
    \/ M = {<<"read", First>>, <<"mounted", First>>} /\ AllOff(sup, Others)
    \/ M = {<<"mounted", First>>} /\ (On(sup, 2) \/ Half(sup, First))
    \/ M = {<<"attach", First>>} /\ Half(sup, First)
    \/ M = {<<"put", First>>} /\ On(sup, 2)

Unmounting(M, sup) ==
    \/ /\ \/ M = {<<"release", First, "iroot">>, <<"release", First, "imount">>, <<"put", First>>}
          \/ M = {<<"clear", First, "iroot">>, <<"release", First, "imount">>, <<"put", First>>}
       /\ On(sup, 1)
    \/ /\ \/ M = {<<"release", First, "imount">>, <<"put", First>>}
          \/ M = {<<"clear", First, "imount">>, <<"put", First>>}
       /\ sup[First].dev = Disk /\ sup[First].count = 1
       /\ sup[First].imount \in Slots /\ sup[First].iroot = None

Making(M, sup) ==
    \E s \in Others :
        /\ M = {<<"made", s>>} \/ M = {<<"put", s>>}
        /\ Half(sup, s)
        /\ AllOff(sup, Others \ {First, s})
        /\ s = First \/ On(sup, 1)

\* How far the call is and the state of super_table agree.
Phase(M, sup) ==
    \/ Resting(M) /\ Idle(sup)
    \/ First \in Others /\ AllOff(sup, Others \ {First}) /\ (Mounting(M, sup) \/ Unmounting(M, sup))
    \/ Making(M, sup)

AllMounts(td) == UNION {Mounts(td[t]) : t \in Tasks}

-----------------------------------------------------------------------------
(* The invariant.                                                          *)

\* At how many places the sequences of the tasks have an element of S.
Total(f, S) == Cardinality(Places(f, S))

Only(i) == {i}
Fills(i) == {<<"fill", i>>}
Calls(i) == {<<"iput", i>>, <<"drop", i>>, <<"fill", i>>}

\* The directories and the pointers of super blocks that count for inode i.
HomeSet(hm, td, i) ==
    {x \in Tasks \X Homes : hm[x[1]][x[2]] = i /\ ~Has(td[x[1]], <<"homed", x[2]>>)}

CountsIn(sup, M, s, f) ==
    /\ sup[s].dev # None /\ <<"clear", s, f>> \notin M
    /\ sup[s].imount # None \/ <<"put", s>> \in M

SuperSet(sup, M, i) ==
    {x \in Supers \X Fields : sup[x[1]][x[2]] = i /\ CountsIn(sup, M, x[1], x[2])}

HomeRefs(hm, td, i) == Cardinality(HomeSet(hm, td, i))
SuperRefs(sup, M, i) == Cardinality(SuperSet(sup, M, i))

IsSum(n, a, b, d, m) == n = a + b + d + m

\* What is left of the call of t, which holds h.
Stack(ops, h, sup, kn, t) == h \in Seq(Slots) /\ Good(ops, Len(h)) /\ ClearLate(ops, sup, kn, t)

IInvOf(kn, td, sl, sup, hm, hd) ==
    /\ kn \in Tasks \cup {None}
    /\ td \in [Tasks -> Seq(Ops)] /\ hd \in [Tasks -> Seq(Slots)]
    /\ hm \in [Tasks -> [Homes -> Slots]]
    /\ \A t \in Tasks : Stack(td[t], hd[t], sup, kn, t)
    /\ \A t \in Tasks \ Mounters : Mounts(td[t]) = {}
    /\ SuperInv(sup) /\ Phase(AllMounts(td), sup)
    /\ SlotInv(sl)
    /\ \A i \in Slots : Total(td, Fills(i)) = Unread(sl[i])
    /\ \A i \in Slots :
          IsSum(sl[i].count, Total(hd, Only(i)), Total(td, Calls(i)),
                HomeRefs(hm, td, i), SuperRefs(sup, AllMounts(td), i))

IInv == IInvOf(kernel, todo, slot, super, home, held)

-----------------------------------------------------------------------------
\* read_super waits between its choice of a super block and its use: of two
\* tasks that mount, both may get the same one.
OneMounter == \A a, b \in Mounters : a = b

\* The super blocks are in the state that the call of sys_mount, sys_umount or
\* sys_mkfs in progress has brought them to; between calls one is in use at
\* most, and it is mounted and counted once: no call that fails half-way leaves
\* one taken, counted twice or without its inodes.
SuperBlocksInPhase == ~stolen => Phase(AllMounts(todo), super)
=============================================================================
