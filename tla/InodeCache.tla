----------------------------- MODULE InodeCache -----------------------------
(***************************************************************************)
(* The table of inodes (inode.c) and the table of super blocks (super.c):  *)
(* iget, iput, the pipe inodes, path lookup as far as it holds and drops   *)
(* inodes, chdir, mount, umount and mkfs.                                  *)
(*                                                                         *)
(* A call is a list of micro-steps, todo[t]; one that runs puts the ones   *)
(* it calls in front.  A step of another task comes between two of them    *)
(* only where the code may wait, in bread or bwrite: kernel is the task    *)
(* that executes, and a wait leaves it None.                               *)
(***************************************************************************)
EXTENDS Integers, FiniteSetsExt, SequencesExt

CONSTANTS
    Users, Mounters,  \* the tasks that open and close, and those that mount, umount and mkfs
    Slots, Supers,    \* the indices of inode_table and super_table
    Root, Disk,       \* the device of the root file system, and another one
    None,             \* NULL and EOF
    Homes,            \* {"ipwd", "iroot"} or one of them
    Paths, Specials,  \* the paths looked up, and those given to mount and mkfs as devices
    AfterBusy,        \* whether calls go on after umount has met a busy file system
    MaxHeld           \* bound of the model: a task opens while it holds fewer

ASSUME InodeAssumption ==
    /\ Slots \subseteq Nat /\ 1 \in Slots
    /\ Supers \subseteq Nat /\ 1 \in Supers
    /\ AfterBusy \in BOOLEAN
    /\ Homes \subseteq {"ipwd", "iroot"}
    /\ \A path \in Paths \cup Specials : Len(path) \in Nat \ {0, 1} /\ path[1] \in Homes
    /\ IsFiniteSet(Users \cup Mounters) /\ IsFiniteSet(Supers)
    /\ Root # Disk /\ None \notin Users \cup Mounters \cup Slots \cup Supers \cup {Root, Disk}
    /\ "pipe" \notin {None, Root, Disk}

VARIABLES
    kernel,  \* the task that executes in the kernel, or None
    todo,    \* what is left of the call of each task
    slot,    \* inode_table
    super,   \* super_table
    home,    \* ipwd and iroot of each task
    held,    \* the inodes a task has open or in a local of its call
    stolen,  \* put_super has released a reference nobody held
    failed   \* the line at which the kernel stopped, or 0

vars == <<kernel, todo, slot, super, home, held, stolen, failed>>

Tasks == Users \cup Mounters

\* Number 1 of a device is its root directory, 2 a directory in it, and 3 of
\* the root file system is the block special file of Disk.
Numbers == 1 .. 3
IsBlk(node) == node = <<Root, 3>>
IsDir(node) == ~IsBlk(node)

\* A path is the directory it starts at and the names that follow.
Up == 0  \* the name ".."

-----------------------------------------------------------------------------
get_super(d) ==
    LET found == {s \in Supers : super[s].dev = d}
    IN  IF found = {} THEN None ELSE Min(found)

Free(table) == {i \in DOMAIN table : table[i].dev = None}

\* sb->inode_list
Linked(s) == {i \in Slots : slot[i].sb = s}

find_inode(s, n) == {i \in Linked(s) : slot[i].nr = n}

\* dev and nr, and of which buf and desc are those, or << >>.
Node(i) == <<slot[i].dev, slot[i].nr>>
Complete(i) == slot[i].dev = "pipe" \/ slot[i].desc = Node(i)

Top(t) == Last(held[t])

Counted(i, n) == [slot EXCEPT ![i].count = @ + n]

\* A free inode keeps its mount; its number and its buffer are not read again.
Unused(mount) ==
    [dev |-> None, nr |-> 0, count |-> 0, mount |-> mount, sb |-> None, desc |-> << >>]

Init ==
    /\ kernel = None
    /\ todo = [t \in Tasks |-> << >>]
    /\ slot = [i \in Slots |->
                 IF i = 1 THEN [dev |-> Root, nr |-> 1, count |-> 2 + Cardinality(Tasks \X Homes),
                                mount |-> Root, sb |-> 1, desc |-> <<Root, 1>>]
                 ELSE Unused(None)]
    /\ super = [s \in Supers |->
                  IF s = 1 THEN [dev |-> Root, count |-> 1, iroot |-> 1, imount |-> 1]
                  ELSE [dev |-> None, count |-> 0, iroot |-> None, imount |-> None]]
    /\ home = [t \in Tasks |-> [h \in Homes |-> 1]]
    /\ held = [t \in Tasks |-> << >>]
    /\ stolen = FALSE
    /\ failed = 0

\* The next micro-step of t and the ones after it.
Does(t, op) == failed = 0 /\ kernel \in {t, None} /\ todo[t] # << >> /\ Head(todo[t])[1] = op
Arg(t, k) == Head(todo[t])[k]
Then(t, ops, waits) ==
    /\ todo' = [todo EXCEPT ![t] = ops \o Tail(@)]
    /\ kernel' = IF waits \/ todo'[t] = << >> THEN None ELSE t
    /\ UNCHANGED failed

\* An assertion fails or a null pointer is used, in the middle of a step.
Fail(line) ==
    /\ failed' = line
    /\ UNCHANGED <<kernel, todo, slot, held>>

Keeps == UNCHANGED <<super, home, stolen>>

\* A local of the call points to i.
Holds(t, i) == held' = [held EXCEPT ![t] = Append(@, i)]
\* The last n locals go away.
Forgets(t, n) == held' = [held EXCEPT ![t] = SubSeq(@, 1, Len(@) - n)]

-----------------------------------------------------------------------------
\* iget, when the list of the super block has found.  fit_inode goes on to the
\* root of what is mounted on the inode.
IgetOf(t, found) ==
    LET d == Arg(t, 2)
        n == Arg(t, 3)
        s == get_super(d)
        i == IF found = {} THEN Min(Free(slot)) ELSE Min(found)
        m == get_super(slot[i].mount)
    IN  IF s = None THEN Fail(95)
        ELSE IF found = {} /\ Free(slot) = {} THEN Fail(32)
        ELSE IF found = {}
        THEN /\ slot' = [slot EXCEPT ![i].dev = d, ![i].nr = n, ![i].count = @ + 1, ![i].sb = s]
             /\ \E waits \in BOOLEAN : Then(t, <<<<"fill", i>>>>, waits)
             /\ UNCHANGED held
        ELSE IF slot[i].mount = None
        THEN slot' = Counted(i, 1) /\ Holds(t, i) /\ Then(t, << >>, FALSE)
        ELSE IF m = None THEN Fail(116)
        ELSE /\ slot' = Counted(i, 1)
             /\ Then(t, <<<<"iput", i>>, <<"enter", m>>>>, FALSE)
             /\ UNCHANGED held

IgetAnew(t) == Does(t, "iget") /\ IgetOf(t, {}) /\ Keeps

Iget(t) == Does(t, "iget") /\ IgetOf(t, find_inode(get_super(Arg(t, 2)), Arg(t, 3))) /\ Keeps

FillElsewhere(t) ==
    /\ Does(t, "fill")
    /\ Holds(t, Arg(t, 2)) /\ Then(t, << >>, FALSE)
    /\ UNCHANGED slot /\ Keeps

\* The block of the inode has been read.
Fill(t) ==
    LET i == Arg(t, 2)
    IN  /\ Does(t, "fill")
        /\ slot' = [slot EXCEPT ![i].desc = Node(i)]
        /\ Holds(t, i) /\ Then(t, << >>, FALSE) /\ Keeps

\* inode = sb->iroot in fit_inode, after its iput.  The file system may have
\* been unmounted while that waited; the model stops at the inode it then uses.
Enter(t) ==
    LET i == super[Arg(t, 2)].iroot
    IN  /\ Does(t, "enter")
        /\ IF i = None THEN Fail(119)
           ELSE IF slot[i].dev = None THEN Fail(119)
           ELSE slot' = Counted(i, 1) /\ Holds(t, i) /\ Then(t, << >>, FALSE)
        /\ Keeps

\* iput up to its wait in bwrite.  The model stops at a task that uses an
\* inode without its block: what it does to memory is not defined.
Iput(t) ==
    LET i == Arg(t, 2)
    IN  /\ Does(t, "iput")
        /\ IF ~Complete(i) THEN Fail(191)
           ELSE /\ \E waits \in IF slot[i].dev = "pipe" THEN {FALSE} ELSE BOOLEAN :
                     Then(t, <<<<"drop", i>>>>, waits)
                /\ UNCHANGED <<slot, held>>
        /\ Keeps

DropAt(t, n) ==
    LET i == Arg(t, 2)
        last == slot[i].count = n
    IN  /\ Does(t, "drop")
        /\ IF last /\ i = 1 THEN Fail(38)
           ELSE /\ slot' = [slot EXCEPT ![i] = IF last THEN Unused(slot[i].mount)
                                               ELSE [slot[i] EXCEPT !.count = @ - 1]]
                /\ Then(t, << >>, FALSE) /\ UNCHANGED held
        /\ Keeps

DropEarly(t) == DropAt(t, 2)

\* The rest of it, and of put_pipe_inode.
Drop(t) == DropAt(t, 1)

-----------------------------------------------------------------------------
\* named and namei: a directory on the way is dropped before the next one is
\* looked up, the last directory only after the inode was found.
Resolve(path) ==
    LET n == 2 * Len(path) - 1
    IN  [k \in 1 .. n |->
           <<IF k = 1 THEN "start" ELSE IF k % 2 = 0 THEN "parent" ELSE IF k < n THEN "walk" ELSE "last",
             path[(k + 2) \div 2]>>]

Start(t) ==
    LET i == home[t][Arg(t, 2)]
    IN  /\ Does(t, "start")
        /\ slot' = Counted(i, 1) /\ Holds(t, i) /\ Then(t, << >>, FALSE) /\ Keeps

\* find_entry on the directory: ".." of a root leads to the mount point.
Parent(t) ==
    LET i == Top(t)
        s == get_super(slot[i].dev)
        up == super[s].imount
    IN  /\ Does(t, "parent")
        /\ IF ~Complete(i) THEN Fail(191)
           ELSE IF Arg(t, 2) # Up \/ slot[i].nr # 1
           THEN Then(t, << >>, FALSE) /\ UNCHANGED <<slot, held>>
           ELSE IF s = None \/ up = None THEN Fail(64)
           ELSE /\ slot' = Counted(up, 1)
                /\ held' = [held EXCEPT ![t] = Append(Front(@), up)]
                /\ Then(t, <<<<"iput", i>>>>, FALSE)
        /\ Keeps

\* entry->nr: the parent of the only subdirectory is the root.
Entry(n) == IF n = Up THEN 1 ELSE n

\* namei returns NULL: the call ends, and a mount that looks up the directory
\* drops devinode, which is below the top.
Second(t) == held[t][Len(held[t]) - 1]
NotFound(t) ==
    LET mounts == Last(todo[t]) = <<"onto">>
    IN  /\ todo' = [todo EXCEPT ![t] = <<<<"iput", Top(t)>>>>
                                      \o IF mounts THEN <<<<"iput", Second(t)>>>> ELSE << >>]
        /\ kernel' = t
        /\ Forgets(t, IF mounts THEN 2 ELSE 1)
        /\ UNCHANGED failed

Walk(t) ==
    LET i == Top(t)
    IN  /\ Does(t, "walk")
        /\ IF IsDir(Node(i))
           THEN /\ Then(t, <<<<"iput", i>>, <<"iget", slot[i].dev, Entry(Arg(t, 2))>>>>, FALSE)
                /\ Forgets(t, 1)
           ELSE NotFound(t)
        /\ UNCHANGED slot /\ Keeps

\* dir is below inode, which is returned.
LastName(t) ==
    LET i == Top(t)
    IN  /\ Does(t, "last")
        /\ IF IsDir(Node(i))
           THEN /\ Then(t, <<<<"iget", slot[i].dev, Entry(Arg(t, 2))>>, <<"under">>>>, FALSE)
                /\ UNCHANGED held
           ELSE NotFound(t)
        /\ UNCHANGED slot /\ Keeps

Under(t) ==
    /\ Does(t, "under")
    /\ Then(t, <<<<"iput", Second(t)>>>>, FALSE)
    /\ held' = [held EXCEPT ![t] = RemoveAt(@, Len(@) - 1)]
    /\ UNCHANGED slot /\ Keeps

-----------------------------------------------------------------------------
Call(t, ops) ==
    /\ failed = 0 /\ (stolen => AfterBusy)
    /\ kernel = None /\ todo[t] = << >>
    /\ todo' = [todo EXCEPT ![t] = ops]
    /\ kernel' = t
    /\ UNCHANGED <<slot, failed>> /\ Keeps

\* open, chdir and chroot leave the inode they resolve with the task.
Namei(t, path) ==
    /\ Len(held[t]) < MaxHeld
    /\ Call(t, Resolve(path)) /\ UNCHANGED held

\* close
Close(t, k) ==
    /\ Call(t, <<<<"iput", held[t][k]>>>>)
    /\ held' = [held EXCEPT ![t] = RemoveAt(@, k)]

sys_chdir(t, which, path) == Call(t, Resolve(path) \o <<<<"chdir", which>>>>) /\ UNCHANGED held

\* The directory is replaced after iput(task->ipwd) returns.
Chdir(t) ==
    LET which == Arg(t, 2)
        i == Top(t)
    IN  /\ Does(t, "chdir")
        /\ IF ~Complete(i) THEN Fail(191)
           ELSE IF ~IsDir(Node(i)) \/ i = home[t][which]
           THEN Then(t, <<<<"iput", i>>>>, FALSE) /\ Forgets(t, 1) /\ UNCHANGED slot
           ELSE /\ Then(t, <<<<"iput", home[t][which]>>, <<"homed", which>>>>, FALSE)
                /\ UNCHANGED <<slot, held>>
        /\ Keeps

Homed(t) ==
    /\ Does(t, "homed")
    /\ home' = [home EXCEPT ![t][Arg(t, 2)] = Top(t)]
    /\ Forgets(t, 1) /\ Then(t, << >>, FALSE)
    /\ UNCHANGED <<slot, super, stolen>>

get_pipe_inode(t) ==
    LET i == Min(Free(slot))
    IN  /\ Len(held[t]) < MaxHeld
        /\ failed = 0 /\ (stolen => AfterBusy)
        /\ kernel = None /\ todo[t] = << >>
        /\ IF Free(slot) = {} THEN Fail(32)
           ELSE /\ slot' = [slot EXCEPT ![i].dev = "pipe", ![i].count = 2, ![i].desc = << >>]
                /\ held' = [held EXCEPT ![t] = @ \o <<i, i>>]
                /\ UNCHANGED <<kernel, todo, failed>>
        /\ Keeps

-----------------------------------------------------------------------------
sys_mount(t, special, path) ==
    Call(t, Resolve(special) \o <<<<"isblk", path>>>>) /\ UNCHANGED held

MountDevice(t) ==
    /\ Does(t, "isblk")
    /\ IF ~Complete(Top(t)) THEN Fail(191)
       ELSE IF IsBlk(Node(Top(t)))
       THEN Then(t, Resolve(Arg(t, 2)) \o <<<<"onto">>>>, FALSE) /\ UNCHANGED held
       ELSE Then(t, <<<<"iput", Top(t)>>>>, FALSE) /\ Forgets(t, 1)
    /\ UNCHANGED slot /\ Keeps

Rollback(t, s) ==
    /\ Then(t, (IF s = None THEN << >> ELSE <<<<"put", s>>>>)
               \o <<<<"iput", Second(t)>>, <<"iput", Top(t)>>>>, FALSE)
    /\ Forgets(t, 2)

\* The checks of the directory, and read_super up to its first wait: the
\* free slot it has chosen is not taken yet.
MountOnto(t) ==
    LET i == Top(t)
        s == get_super(Disk)
    IN  /\ Does(t, "onto")
        /\ IF ~Complete(i) THEN Fail(191) /\ UNCHANGED super
           ELSE IF ~IsDir(Node(i)) \/ slot[i].count # 1 \/ slot[i].mount # None
           THEN Rollback(t, None) /\ UNCHANGED <<slot, super>>
           ELSE IF s # None
           THEN /\ super' = [super EXCEPT ![s].count = @ + 1]
                /\ Then(t, <<<<"mounted", s>>>>, FALSE) /\ UNCHANGED <<slot, held>>
           ELSE IF Free(super) = {} THEN Fail(30) /\ UNCHANGED super
           ELSE /\ \E waits \in BOOLEAN :
                     Then(t, <<<<"read", Min(Free(super))>>, <<"mounted", Min(Free(super))>>>>, waits)
                /\ UNCHANGED <<slot, super, held>>
        /\ UNCHANGED <<home, stolen>>

ReadSuper(t) ==
    /\ Does(t, "read")
    /\ super' = [super EXCEPT ![Arg(t, 2)].dev = Disk, ![Arg(t, 2)].count = 1]
    /\ Then(t, << >>, FALSE)
    /\ UNCHANGED <<slot, held, home, stolen>>

MountFree(t) ==
    LET s == Arg(t, 2)
    IN  /\ Does(t, "mounted")
        /\ IF super[s].imount # None THEN Rollback(t, s)
           ELSE Then(t, <<<<"iget", Disk, 1>>, <<"attach", s>>>>, FALSE) /\ UNCHANGED held
        /\ UNCHANGED slot /\ Keeps

\* iroot is above dirinode, which is above devinode.
Attach(t) ==
    LET s == Arg(t, 2)
    IN  /\ Does(t, "attach")
        /\ super' = [super EXCEPT ![s].iroot = Top(t), ![s].imount = Second(t)]
        /\ slot' = [slot EXCEPT ![Second(t)].mount = Disk]
        /\ Forgets(t, 3)
        /\ Then(t, <<<<"iput", held[t][Len(held[t]) - 2]>>>>, FALSE)
        /\ UNCHANGED <<home, stolen>>

\* put_super.  A super block of which nothing is in use is released with the
\* references of imount and iroot, which keep their values.
PutSuper(t) ==
    LET s == Arg(t, 2)
        Refs(i) == IF i = None THEN << >> ELSE <<<<"iput", i>>>>
    IN  /\ Does(t, "put")
        /\ IF super[s].count = 0 THEN Fail(51) /\ UNCHANGED super
           ELSE /\ super' = [super EXCEPT ![s].count = @ - 1,
                                          ![s].dev = IF super[s].count = 1 THEN None ELSE @]
                /\ Then(t, IF super[s].count > 1 THEN << >>
                           ELSE Refs(super[s].imount) \o Refs(super[s].iroot), FALSE)
                /\ UNCHANGED <<slot, held>>
        /\ UNCHANGED <<home, stolen>>

-----------------------------------------------------------------------------
sys_umount(t, path) ==
    Call(t, Resolve(path) \o <<<<"umount">>>>) /\ UNCHANGED held

\* The checks of umount.  The rollback gives sb to put_super although the
\* call has not counted it.
Umount(t) ==
    LET i == Top(t)
        s == IF IsBlk(Node(i)) THEN get_super(Disk) ELSE get_super(slot[i].dev)
        bad == ~IsBlk(Node(i)) /\ slot[i].nr # 1
    IN  /\ Does(t, "umount")
        /\ IF ~Complete(i) THEN Fail(191) /\ UNCHANGED <<held, stolen>>
           ELSE IF bad \/ i = super[get_super(Root)].imount
           THEN Then(t, <<<<"iput", i>>>>, FALSE) /\ Forgets(t, 1) /\ UNCHANGED stolen
           ELSE IF s = None THEN Fail(222) /\ UNCHANGED <<held, stolen>>
           ELSE IF super[s].imount = None \/ Cardinality(Linked(s)) > 1
           THEN /\ Then(t, <<<<"put", s>>, <<"iput", i>>>>, FALSE)
                /\ Forgets(t, 1)
                /\ stolen' = TRUE
           ELSE /\ Then(t, <<<<"release", s, "iroot">>, <<"release", s, "imount">>,
                             <<"put", s>>, <<"iput", i>>>>, FALSE)
                /\ Forgets(t, 1) /\ UNCHANGED stolen
        /\ UNCHANGED <<slot, super, home>>

\* iput(sb->iroot), then iput(sb->imount), each cleared when it returns.
Release(t) ==
    LET s == Arg(t, 2)
        field == Arg(t, 3)
        i == super[s][field]
    IN  /\ Does(t, "release")
        /\ IF i = None THEN Fail(236) /\ UNCHANGED slot
           ELSE /\ Then(t, <<<<"iput", i>>, <<"clear", s, field>>>>, FALSE)
                /\ slot' = IF field = "imount" THEN [slot EXCEPT ![i].mount = None] ELSE slot
        /\ UNCHANGED <<held>> /\ Keeps

ClearNothing(t) ==
    /\ Does(t, "clear")
    /\ Then(t, << >>, FALSE)
    /\ UNCHANGED <<slot, super, held, home, stolen>>

Clear(t) ==
    /\ Does(t, "clear")
    /\ super' = [super EXCEPT ![Arg(t, 2)][Arg(t, 3)] = None]
    /\ Then(t, << >>, FALSE)
    /\ UNCHANGED <<slot, held, home, stolen>>

-----------------------------------------------------------------------------
sys_mkfs(t, special) ==
    Call(t, Resolve(special) \o <<<<"mkfs">>>>) /\ UNCHANGED held

\* devmkfs takes a super block before it waits, and puts it when the root
\* inode is made.
Mkfs(t) ==
    LET i == Top(t)
        s == Min(Free(super))
    IN  /\ Does(t, "mkfs")
        /\ IF ~Complete(i) THEN Fail(191) /\ UNCHANGED super
           ELSE IF ~IsBlk(Node(i))
           THEN Then(t, <<<<"iput", i>>>>, FALSE) /\ Forgets(t, 1) /\ UNCHANGED super
           ELSE IF Free(super) = {} THEN Fail(30) /\ UNCHANGED super
           ELSE /\ super' = [super EXCEPT ![s].dev = Disk, ![s].count = 1]
                /\ \E waits \in BOOLEAN : Then(t, <<<<"iget", Disk, 1>>, <<"made", s>>>>, waits)
                /\ UNCHANGED held
        /\ UNCHANGED <<slot, home, stolen>>

Made(t) ==
    LET s == Arg(t, 2)
    IN  /\ Does(t, "made")
        /\ IF ~Complete(Top(t)) THEN Fail(191) /\ UNCHANGED super
           ELSE /\ super' = [super EXCEPT ![s].iroot = Top(t)]
                /\ Forgets(t, 2)
                /\ \E waits \in BOOLEAN : Then(t, <<<<"put", s>>, <<"iput", Second(t)>>>>, waits)
        /\ UNCHANGED <<slot, home, stolen>>

Step(t) ==
    \/ Iget(t) \/ Fill(t) \/ Enter(t) \/ Iput(t) \/ Drop(t)
    \/ Start(t) \/ Parent(t) \/ Walk(t) \/ LastName(t) \/ Under(t)
    \/ Chdir(t) \/ Homed(t)
    \/ MountDevice(t) \/ MountOnto(t) \/ ReadSuper(t) \/ MountFree(t) \/ Attach(t)
    \/ PutSuper(t) \/ Umount(t) \/ Release(t) \/ Clear(t) \/ Mkfs(t) \/ Made(t)

Next ==
    \/ \E t \in Tasks : Step(t)
    \/ \E t \in Users :
        \/ get_pipe_inode(t)
        \/ \E k \in 1 .. Len(held[t]) : Close(t, k)
        \/ \E path \in Paths :
            Namei(t, path) \/ \E which \in Homes : sys_chdir(t, which, path)
    \/ \E t \in Mounters :
        \/ \E path \in Paths :
            sys_umount(t, path) \/ \E special \in Specials : sys_mount(t, special, path)
        \/ \E special \in Specials : sys_mkfs(t, special)

Spec == Init /\ [][Next]_vars

-----------------------------------------------------------------------------
Pending(t, ops) == {k \in 1 .. Len(todo[t]) : todo[t][k] \in ops}
AnyPending(op) == \E t \in Tasks : Pending(t, {op}) # {}

\* A pointer of a super block in use counts until umount has given it to
\* iput; the iroot of an earlier mkfs is left behind and does not.
Counts(s, field) ==
    /\ super[s].dev # None
    /\ ~AnyPending(<<"clear", s, field>>)
    /\ super[s].imount # None \/ AnyPending(<<"put", s>>)

\* Where the sequences of the tasks have an element of S.
Places(seqs, S) == UNION {{t} \X {k \in DOMAIN seqs[t] : seqs[t][k] \in S} : t \in Tasks}

References(i) ==
    Cardinality(Places(held, {i}))
    + Cardinality(Places(todo, {<<"iput", i>>, <<"drop", i>>, <<"fill", i>>}))
    + Cardinality({x \in Tasks \X Homes :
                    home[x[1]][x[2]] = i /\ Pending(x[1], {<<"homed", x[2]>>}) = {}})
    + Cardinality({x \in Supers \X {"iroot", "imount"} :
                    super[x[1]][x[2]] = i /\ Counts(x[1], x[2])})

\* The count of an inode is the number of tasks' files, locals and
\* directories and of super blocks that point to it, across waits in iget,
\* iput and umount: no inode is freed in use and none is kept for ever.
CountIsReferences ==
    ~stolen => \A i \in Slots : slot[i].count = References(i)

\* No two entries of the table are the same inode, although iget waits
\* between its search and the end of the read.
OneInodePerNumber ==
    ~stolen => \A i, j \in Slots :
        slot[i].dev \notin {None, "pipe"} /\ Node(i) = Node(j) => i = j

\* An inode whose block is not read yet is being read by exactly one task.
IncompleteIsRead ==
    ~stolen => \A i \in Slots :
        slot[i].dev # None /\ ~Complete(i) =>
            Cardinality({t \in Tasks : Pending(t, {<<"fill", i>>}) # {}}) = 1
=============================================================================
