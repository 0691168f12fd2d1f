------------------------------- MODULE Files -------------------------------
(***************************************************************************)
(* Directories (namei.c) and the table of open files (file.c): tasks       *)
(* create, link, unlink, mkdir, rmdir, mknod and open by name, and dup,    *)
(* close, fork and exit with the descriptors they get.                     *)
(*                                                                         *)
(* A call is cut where the disk may make it wait.  What a path leads to is *)
(* found in one step (InodeCache has it with its waits), blocks are those  *)
(* of Storage.                                                             *)
(***************************************************************************)
EXTENDS Integers, FiniteSetsExt

CONSTANTS
    Tasks, First,   \* the tasks, and the one alive at first
    Names, None,    \* names of entries, and no name
    Numbers,        \* inode numbers 1 .. Numbers, 1 is the root
    Entries,        \* bound: entries of a directory, without . and ..
    FileNr, FdNr,   \* FILE_NR and TASK_FILE_NR, without the three of the console
    Waits           \* the directories are on a disk that waits, not a RAM disk

ASSUME FilesAssumption ==
    /\ First \in Tasks /\ None \notin Names
    /\ {Numbers, Entries, FileNr, FdNr} \subseteq Nat \ {0}
    /\ Waits \in BOOLEAN

VARIABLES
    imap,    \* inode numbers in use on the disk
    node,    \* kind and nlinks of each inode
    entry,   \* the entries of each directory: [name, nr], nr = 0 when free
    table,   \* file_table: count and inode
    fds,     \* files of each task, 0 when free
    alive,   \* the tasks there are
    op,      \* the call of each task and how far it is
    opened   \* the inode that each descriptor was opened on

vars == <<imap, node, entry, table, fds, alive, op, opened>>
disk == <<imap, node, entry>>
files == <<table, fds, alive, opened>>

Nrs == 1 .. Numbers
Slots == 1 .. Entries
Idle == [pc |-> "idle"]
FreeEntry == [name |-> None, nr |-> 0]

Init ==
    /\ imap = {1}
    /\ node = [n \in Nrs |-> [kind |-> "dir", nlinks |-> IF n = 1 THEN 2 ELSE 0]]
    /\ entry = [n \in Nrs |-> [s \in Slots |-> FreeEntry]]
    /\ table = [f \in 1 .. FileNr |-> [count |-> 0, inode |-> 0]]
    /\ fds = [t \in Tasks |-> [d \in 1 .. FdNr |-> 0]]
    /\ alive = {First}
    /\ op = [t \in Tasks |-> Idle]
    /\ opened = [t \in Tasks |-> [d \in 1 .. FdNr |-> 0]]

\* A RAM disk never waits, so a call on a directory is over before the next.
OnTable == {"idle", "close", "dup", "exit"}
Turn(t) == Waits \/ \A u \in Tasks \ {t} : op[u].pc \in OnTable
Is(t, pc) == t \in alive /\ op[t].pc = pc /\ Turn(t)
Goes(t, next) == op' = [op EXCEPT ![t] = next]
Ends(t) == Goes(t, Idle)

Present(dir, name) == {s \in Slots : entry[dir][s].name = name /\ entry[dir][s].nr # 0}
FreeSlots(dir) == {s \in Slots : entry[dir][s].nr = 0}

\* find_entry and add_entry
Slot(dir, name) ==
    IF Present(dir, name) # {} THEN Min(Present(dir, name)) ELSE Min(FreeSlots(dir))

Directories == {1} \cup {n \in Nrs : node[n].kind = "dir" /\ \E d \in Nrs, s \in Slots : d \in imap /\ entry[d][s].nr = n}

\* permission: an inode without links allows nothing.
permission(n) == node[n].nlinks # 0

-----------------------------------------------------------------------------
\* sys_mkdir, sys_mknod and inode_open with O_CREAT start alike.  A device is a
\* file here.
Create(t, dir, name, call) ==
    /\ Is(t, "idle") /\ dir \in Directories /\ permission(dir)
    /\ Present(dir, name) = {}
    /\ Goes(t, [pc |-> "add", dir |-> dir, name |-> name, call |-> call])
    /\ UNCHANGED <<disk, files>>

\* add_entry puts the name into a slot; ialloc takes a number and waits.
AddEntry(t) ==
    LET o == op[t]
        s == Slot(o.dir, o.name)
        nr == Min(Nrs \ imap)
    IN  /\ Is(t, "add") /\ Nrs \ imap # {}
        /\ Present(o.dir, o.name) \cup FreeSlots(o.dir) # {}
        /\ entry' = [entry EXCEPT ![o.dir][s].name = o.name]
        /\ imap' = imap \cup {nr}
        /\ Goes(t, [pc |-> "enter", dir |-> o.dir, slot |-> s, nr |-> nr, call |-> o.call])
        /\ UNCHANGED <<node, files>>

\* The number goes to the slot; iget waits.
EnterNumber(t) ==
    LET o == op[t]
    IN  /\ Is(t, "enter")
        /\ entry' = [entry EXCEPT ![o.dir][o.slot].nr = o.nr]
        /\ Goes(t, [pc |-> "new", dir |-> o.dir, nr |-> o.nr, call |-> o.call])
        /\ UNCHANGED <<imap, node, files>>

Linked(dir) == [node[dir] EXCEPT !.nlinks = (@ + 1) % 256]

\* new_inode and the rest of the call.  A file that is opened gets a descriptor.
NewInode(t) ==
    LET o == op[t]
    IN  /\ Is(t, "new")
        /\ node' = IF o.call = "mkdir"
                   THEN [node EXCEPT ![o.nr] = [kind |-> "dir", nlinks |-> 2], ![o.dir] = Linked(o.dir)]
                   ELSE [node EXCEPT ![o.nr] = [kind |-> "file", nlinks |-> 1]]
        /\ entry' = IF o.call = "mkdir" THEN [entry EXCEPT ![o.nr] = [s \in Slots |-> FreeEntry]] ELSE entry
        /\ IF o.call = "open" THEN Goes(t, [pc |-> "open", nr |-> o.nr]) ELSE Ends(t)
        /\ UNCHANGED <<imap, files>>

-----------------------------------------------------------------------------
sys_link(t, old, dir, name) ==
    /\ Is(t, "idle") /\ dir \in Directories /\ permission(dir)
    /\ node[old].kind # "dir" /\ \E d \in Directories, s \in Slots : entry[d][s].nr = old
    /\ Present(dir, name) = {}
    /\ Goes(t, [pc |-> "link", dir |-> dir, name |-> name, nr |-> old])
    /\ UNCHANGED <<disk, files>>

LinkEntry(t) ==
    LET o == op[t]
        s == Slot(o.dir, o.name)
    IN  /\ Is(t, "link") /\ Present(o.dir, o.name) \cup FreeSlots(o.dir) # {}
        /\ entry' = [entry EXCEPT ![o.dir][s] = [name |-> o.name, nr |-> o.nr]]
        /\ node' = [node EXCEPT ![o.nr].nlinks = (@ + 1) % 256]
        /\ Ends(t)
        /\ UNCHANGED <<imap, files>>

\* unlink, rmdir and open find the entry and wait for its inode.
Find(t, call, dir, name) ==
    /\ Is(t, "idle") /\ dir \in Directories /\ permission(dir)
    /\ Present(dir, name) # {}
    /\ LET s == Slot(dir, name)
       IN  Goes(t, [pc |-> call, dir |-> dir, slot |-> s, nr |-> entry[dir][s].nr])
    /\ UNCHANGED <<disk, files>>

FreesAlways(nlinks) == TRUE
FreesLast(nlinks) == nlinks = 0 \* whether the inode goes with its last entry

sys_unlink(t) ==
    LET o == op[t]
        nlinks == (node[o.nr].nlinks + 255) % 256
    IN  /\ Is(t, "unlink")
        /\ IF node[o.nr].kind = "dir" THEN Ends(t) /\ UNCHANGED disk
           ELSE /\ entry' = [entry EXCEPT ![o.dir][o.slot] = FreeEntry]
                /\ node' = [node EXCEPT ![o.nr].nlinks = nlinks]
                /\ IF FreesLast(nlinks) THEN Goes(t, [pc |-> "ifree", nr |-> o.nr]) ELSE Ends(t)
                /\ UNCHANGED imap
        /\ UNCHANGED files

\* inode_truncate is over.
Ifree(t) ==
    /\ Is(t, "ifree")
    /\ imap' = imap \ {op[t].nr}
    /\ Ends(t)
    /\ UNCHANGED <<node, entry, files>>

\* inode->count, this call apart
Others(t, n) ==
    \/ \E f \in 1 .. FileNr : table[f].count > 0 /\ table[f].inode = n
    \/ \E u \in Tasks \ {t} : \/ "nr" \in DOMAIN op[u] /\ op[u].nr = n
                              \/ "dir" \in DOMAIN op[u] /\ op[u].dir = n

is_empty(n) == \A s \in Slots : entry[n][s].nr = 0

sys_rmdir(t) ==
    LET o == op[t]
    IN  /\ Is(t, "rmdir")
        /\ IF node[o.nr].kind # "dir" \/ Others(t, o.nr) \/ ~is_empty(o.nr)
           THEN Ends(t) /\ UNCHANGED disk
           ELSE /\ imap' = imap \ {o.nr}
                /\ Goes(t, [pc |-> "removed", dir |-> o.dir, slot |-> o.slot, nr |-> o.nr])
                /\ UNCHANGED <<node, entry>>
        /\ UNCHANGED files

ParentKeepsLink(dir) == node[dir]
Unlinked(dir) == [node[dir] EXCEPT !.nlinks = (@ + 255) % 256]

RemoveDir(t) ==
    LET o == op[t]
    IN  /\ Is(t, "removed")
        /\ node' = [node EXCEPT ![o.nr].nlinks = 0, ![o.dir] = Unlinked(o.dir)]
        /\ entry' = [entry EXCEPT ![o.dir][o.slot] = FreeEntry]
        /\ Ends(t)
        /\ UNCHANGED <<imap, files>>

-----------------------------------------------------------------------------
FreeFds(t) == {d \in 1 .. FdNr : fds[t][d] = 0}
FreeFiles == {f \in 1 .. FileNr : table[f].count = 0}

Cleared(t, d) ==
    /\ fds' = [fds EXCEPT ![t][d] = 0]
    /\ opened' = [opened EXCEPT ![t][d] = 0]

Duplicated(t, d, e) ==
    /\ fds' = [fds EXCEPT ![t][e] = fds[t][d]]
    /\ opened' = [opened EXCEPT ![t][e] = opened[t][d]]

\* get_file and task_get_fd; both panic when there is none left.
sys_open(t) ==
    LET nr == op[t].nr
        f == Min(FreeFiles)
        d == Min(FreeFds(t))
    IN  /\ Is(t, "open")
        /\ IF ~permission(nr) THEN UNCHANGED files
           ELSE /\ FreeFiles # {} /\ FreeFds(t) # {}
                /\ table' = [table EXCEPT ![f] = [count |-> 1, inode |-> nr]]
                /\ fds' = [fds EXCEPT ![t][d] = f]
                /\ opened' = [opened EXCEPT ![t][d] = nr]
                /\ UNCHANGED alive
        /\ Ends(t)
        /\ UNCHANGED disk

\* put_file: the last descriptor waits in iput, and is cleared after that.
Close(t, d, next) ==
    LET f == fds[t][d]
    IN  /\ table' = [table EXCEPT ![f].count = @ - 1]
        /\ IF table[f].count = 1
           THEN Goes(t, [pc |-> "close", fd |-> d, next |-> next]) /\ UNCHANGED <<fds, opened>>
           ELSE Goes(t, next) /\ Cleared(t, d)
        /\ UNCHANGED <<disk, alive>>

task_put_fd(t) ==
    /\ Is(t, "close")
    /\ Cleared(t, op[t].fd)
    /\ Goes(t, op[t].next)
    /\ UNCHANGED <<disk, table, alive>>

sys_close(t, d) == Is(t, "idle") /\ fds[t][d] # 0 /\ Close(t, d, Idle)

DupUncounted(t, d, arg) ==
    LET free == FreeFds(t) \cap arg .. FdNr
    IN  IF fds[t][d] = 0 \/ free = {} THEN UNCHANGED files
        ELSE Duplicated(t, d, Min(free)) /\ UNCHANGED <<table, alive>>

dupfd(t, d, arg) ==
    LET free == FreeFds(t) \cap arg .. FdNr
    IN  IF fds[t][d] = 0 \/ free = {} THEN UNCHANGED files
        ELSE /\ table' = [table EXCEPT ![fds[t][d]].count = @ + 1]
             /\ Duplicated(t, d, Min(free)) /\ UNCHANGED alive

sys_dup(t, d) == Is(t, "idle") /\ dupfd(t, d, 1) /\ UNCHANGED <<disk, op>>

\* dup2 closes the new descriptor first, if it is open.
sys_dup2(t, d, e) ==
    /\ Is(t, "idle") /\ d # e
    /\ \/ fds[t][e] # 0 /\ Close(t, e, [pc |-> "dup", fd |-> d, arg |-> e])
       \/ fds[t][e] = 0 /\ dupfd(t, d, e) /\ UNCHANGED <<disk, op>>

DupAfter(t) ==
    /\ Is(t, "dup")
    /\ dupfd(t, op[t].fd, op[t].arg)
    /\ Ends(t)
    /\ UNCHANGED disk

Descriptors(f, ds) == Cardinality({d \in 1 .. FdNr : ds[d] = f})

ForkUncounted(t, u) == table
Forked(t, u) == [f \in DOMAIN table |-> [table[f] EXCEPT !.count = @ + Descriptors(f, fds[t])]]

task_fork(t, u) ==
    /\ Is(t, "idle") /\ u \notin alive
    /\ alive' = alive \cup {u}
    /\ fds' = [fds EXCEPT ![u] = fds[t]]
    /\ opened' = [opened EXCEPT ![u] = opened[t]]
    /\ table' = Forked(t, u)
    /\ UNCHANGED <<disk, op>>

task_exit(t) ==
    /\ Is(t, "idle") /\ t # First
    /\ Goes(t, [pc |-> "exit"])
    /\ UNCHANGED <<disk, files>>

\* The descriptors are closed one by one.
ExitClose(t) ==
    /\ Is(t, "exit")
    /\ LET held == {d \in 1 .. FdNr : fds[t][d] # 0}
       IN  IF held # {} THEN Close(t, Min(held), [pc |-> "exit"])
           ELSE alive' = alive \ {t} /\ Ends(t) /\ UNCHANGED <<disk, table, fds, opened>>

Next ==
    \E t \in Tasks :
        \/ \E dir \in Directories, name \in Names :
            \/ \E call \in {"open", "mkdir", "mknod"} : Create(t, dir, name, call)
            \/ \E old \in Nrs : sys_link(t, old, dir, name)
            \/ \E call \in {"open", "unlink", "rmdir"} : Find(t, call, dir, name)
        \/ AddEntry(t) \/ EnterNumber(t) \/ NewInode(t)
        \/ LinkEntry(t) \/ sys_unlink(t) \/ Ifree(t) \/ sys_rmdir(t) \/ RemoveDir(t)
        \/ sys_open(t)
        \/ \E d \in 1 .. FdNr : sys_close(t, d) \/ sys_dup(t, d) \/ \E e \in 1 .. FdNr : sys_dup2(t, d, e)
        \/ task_put_fd(t) \/ DupAfter(t)
        \/ \E u \in Tasks : task_fork(t, u)
        \/ task_exit(t) \/ ExitClose(t)

Spec == Init /\ [][Next]_vars

-----------------------------------------------------------------------------
\* A file counts its descriptors, in all tasks, through open, dup, dup2, fork,
\* close and exit and the waits in them; one that closes has stopped counting.
CountIsDescriptors ==
    \A f \in 1 .. FileNr :
        table[f].count = Cardinality({x \in alive \X (1 .. FdNr) :
            fds[x[1]][x[2]] = f /\ ~(op[x[1]].pc = "close" /\ op[x[1]].fd = x[2])})

\* A descriptor stays with the inode it was opened on: its place in the file
\* table is not given to another file while some task still uses it.
DescriptorKeepsInode ==
    \A t \in alive, d \in 1 .. FdNr :
        fds[t][d] # 0 /\ ~(op[t].pc = "close" /\ op[t].fd = d) =>
            table[fds[t][d]].inode = opened[t][d]

EntriesOf(n) == {x \in imap \X Slots : node[x[1]].kind = "dir" /\ entry[x[1]][x[2]].nr = n}
Quiet == \A t \in Tasks : op[t].pc \in OnTable \cup {"open"}

\* nlinks is the number of entries that name the inode, as fs.h:73 says; for a
\* directory with its own "." and the ".." of its subdirectories.
NlinksIsEntries ==
    Quiet =>
        \A n \in imap :
            node[n].nlinks =
                IF node[n].kind # "dir" THEN Cardinality(EntriesOf(n))
                ELSE 2 + Cardinality({x \in {n} \X Slots :
                             entry[n][x[2]].nr # 0 /\ node[entry[n][x[2]].nr].kind = "dir"})

\* Every entry names an inode that is in use, no directory has two entries, and
\* every inode in use has one: nothing is lost and nothing dangles.
EntriesAreFiles ==
    Quiet =>
        /\ \A d \in imap, s \in Slots :
               node[d].kind = "dir" /\ entry[d][s].nr # 0 => entry[d][s].nr \in imap
        /\ \A n \in imap \ {1} : EntriesOf(n) # {} /\ (node[n].kind = "dir" => Cardinality(EntriesOf(n)) = 1)
=============================================================================
