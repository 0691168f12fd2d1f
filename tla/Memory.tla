------------------------------- MODULE Memory -------------------------------
(***************************************************************************)
(* The address spaces of the user tasks (memory.c), with what execve.c     *)
(* does to them: frames and their counts, copy on write, pages linked when *)
(* they are touched, brk, mmap, munmap, fork, exec and exit.               *)
(*                                                                         *)
(* None of this waits or is preempted, so a call is one step.              *)
(***************************************************************************)
EXTENDS Integers, FiniteSetsExt

CONSTANTS
    Tasks, First,  \* the tasks, and the one that runs first
    None,          \* an entry that is not present
    Heap, Maps,    \* number of pages from USER_EXEC_ADDR and from USER_MMAP_ADDR
    Frames,        \* the physical pages from start_page on that get_page can find
    Kernel,        \* pages counted in free_pages that the kernel has mapped
    Values,        \* what a page may hold
    Program,       \* the value of a page loaded by exec
    MaxProgram     \* bound of the model: the pages of a program

\* A page table entry that is present.
Entries == [frame : Frames, write : BOOLEAN, shared : BOOLEAN, readonly : BOOLEAN]

ASSUME MemoryAssumption ==
    /\ First \in Tasks /\ IsFiniteSet(Tasks)
    /\ Heap \in Nat \ {0} /\ Maps \in Nat /\ Kernel \in Nat
    /\ Frames \subseteq Nat \ {0} /\ IsFiniteSet(Frames)
    /\ None \notin Frames \cup Entries
    /\ MaxProgram \in 1 .. Heap
    /\ Program \in Values /\ None \notin Values

VARIABLES
    mem,   \* [memory_map, free_pages, dir, pte, data, failed], what memory.c changes
    task,  \* brk, end and vmap of each task, and whether it is alive
    view   \* what each task should find in its private pages, None if nothing

vars == <<mem, task, view>>

\* One page of stack above the pages of the heap and of mmap.  Each of the
\* three areas has a page table of its own.
Stack == Heap + Maps + 1
Pages == 1 .. Stack
Dir(p) == IF p <= Heap THEN "heap" ELSE IF p < Stack THEN "mmap" ELSE "stack"
Dirs == {"heap", "mmap", "stack"}

Alive == {t \in Tasks : task[t].alive}
Present(m, t, p) == m.pte[t][p] # None
Fails(m, line) == [m EXCEPT !.failed = line]

-----------------------------------------------------------------------------
FreeFrames(m) == {f \in Frames : m.memory_map[f] = 0}

Taken(m, f) == [m EXCEPT !.memory_map[f] = 1, !.free_pages = @ - 1]

\* get_page gives new(f, m), f the frame found.
get_page(m, new(_, _)) ==
    IF FreeFrames(m) = {} THEN Fails(m, 180)
    ELSE LET f == Min(FreeFrames(m)) IN new(f, Taken(m, f))

\* How many of these pages and page tables of t are in frame f.
Named(m, t, pages, tables, f) ==
    Cardinality({p \in pages : Present(m, t, p) /\ m.pte[t][p].frame = f})
    + Cardinality({d \in tables : m.dir[t][d] = f})

PutWithoutFree(m, t, pages, tables) ==
    [m EXCEPT !.memory_map = [f \in Frames |-> @[f] - Named(m, t, pages, tables, f)]]

\* put_page of each of them.  Their order does not matter, and a frame that
\* the last of them gives back is free.
put_pages(m, t, pages, tables) ==
    LET named(f) == Named(m, t, pages, tables, f)
    IN  [m EXCEPT !.memory_map = [f \in Frames |-> @[f] - named(f)],
                  !.free_pages =
                      @ + Cardinality({f \in Frames : named(f) > 0 /\ named(f) = m.memory_map[f]})]

entry_init(f) == [frame |-> f, write |-> TRUE, shared |-> FALSE, readonly |-> FALSE]

Enter(m, t, p, e) == [m EXCEPT !.pte[t][p] = e]

EnterTable(m, t, d, f) == [m EXCEPT !.dir[t][d] = f]

\* get_pte with create
get_pte(m, t, d) ==
    IF m.dir[t][d] # None THEN m
    ELSE get_page(m, LAMBDA f, n : EnterTable(n, t, d, f))

link_page(m, t, p) ==
    IF Present(m, t, p) THEN m
    ELSE LET table == get_pte(m, t, Dir(p))
         IN  IF table.failed # 0 THEN table
             ELSE get_page(table, LAMBDA f, n : Enter(n, t, p, entry_init(f)))

\* unlink_page of each of these pages
unlink_pages(m, t, pages) ==
    [put_pages(m, t, pages, {}) EXCEPT
        !.pte[t] = [p \in Pages |-> IF p \in pages THEN None ELSE @[p]]]

CopyKeepsCount(m, t, p) ==
    LET old == m.pte[t][p].frame
    IN  get_page(m, LAMBDA f, n :
            Enter([n EXCEPT !.data[f] = m.data[old]], t, p, entry_init(f)))

copy_page(m, t, p) ==
    LET old == m.pte[t][p].frame
    IN  get_page(m, LAMBDA f, n :
            Enter([n EXCEPT !.data[f] = m.data[old], !.memory_map[old] = @ - 1],
                  t, p, entry_init(f)))

\* A fault at p: of a write when p is present.
WriteFault(m, t, p) ==
    IF m.pte[t][p].shared THEN Fails(m, 682)
    ELSE IF m.pte[t][p].readonly THEN Fails(m, 683)
    ELSE IF m.memory_map[m.pte[t][p].frame] = 1
    THEN Enter(m, t, p, [m.pte[t][p] EXCEPT !.write = TRUE])
    ELSE copy_page(m, t, p)

AbsentFault(m, t, p) ==
    IF p < task[t].brk \/ p = Stack THEN link_page(m, t, p) ELSE Fails(m, 712)

page_fault(m, t, p) == IF Present(m, t, p) THEN WriteFault(m, t, p) ELSE AbsentFault(m, t, p)

-----------------------------------------------------------------------------
Init ==
    /\ mem = [memory_map |-> [f \in Frames |-> 0],
              free_pages |-> Cardinality(Frames) + Kernel,
              dir |-> [t \in Tasks |-> [d \in Dirs |-> None]],
              pte |-> [t \in Tasks |-> [p \in Pages |-> None]],
              data |-> [f \in Frames |-> Program],
              failed |-> 0]
    /\ task = [t \in Tasks |-> [alive |-> t = First, brk |-> 1, end |-> 1, vmap |-> {}]]
    /\ view = [t \in Tasks |-> [p \in Pages |-> None]]

Call(t) == mem.failed = 0 /\ t \in Alive

\* The new state of memory, or the kernel stops where it failed.
Becomes(m) == mem' = IF m.failed = 0 THEN m ELSE Fails(mem, m.failed)

Store(m, t, p, v) ==
    IF m.failed = 0 THEN [m EXCEPT !.data[m.pte[t][p].frame] = v] ELSE m

Mapping(f) == {x \in Tasks \X Pages : Present(mem, x[1], x[2]) /\ mem.pte[x[1]][x[2]].frame = f}

\* Who else is in the frame of page p of t.
Sharers(t, p) == IF Present(mem, t, p) THEN Mapping(mem.pte[t][p].frame) \ {<<t, p>>} ELSE {}

\* t has x at its page p from now on, and nothing is expected of the pages lost.
After(t, p, x, lost) ==
    [u \in Tasks |-> [q \in Pages |->
        IF u = t /\ q = p THEN x ELSE IF <<u, q>> \in lost THEN None ELSE view[u][q]]]

\* What t expects after a store of v: shared pages have no private view, nor
\* have those into which another entry lets its task write (see sys_mmap).
Told(t, p, v) ==
    IF /\ Present(mem, t, p) => ~mem.pte[t][p].shared
       /\ \A x \in Sharers(t, p) : ~mem.pte[x[1]][x[2]].write
    THEN v ELSE None

\* After a fault the page is its task's own.
Write(t, p, v) ==
    LET faults == ~Present(mem, t, p) \/ ~mem.pte[t][p].write
    IN  /\ Call(t)
        /\ Becomes(Store(IF faults THEN page_fault(mem, t, p) ELSE mem, t, p, v))
        /\ view' = After(t, p, IF faults THEN v ELSE Told(t, p, v), {})
        /\ UNCHANGED task

\* Reading a page that was never touched links it.
Read(t, p) ==
    /\ Call(t) /\ ~Present(mem, t, p)
    /\ Becomes(page_fault(mem, t, p))
    /\ UNCHANGED <<task, view>>

\* The kernel stores into a page of the user: the bit write does not stop it,
\* because enable_page leaves CR0.WP clear.
KernelStore(m, t, p, v) ==
    Store(IF Present(m, t, p) THEN m ELSE page_fault(m, t, p), t, p, v)

\* The pages it changes besides, where a write of the user would have faulted.
Trodden(t, p) == IF Present(mem, t, p) /\ ~mem.pte[t][p].write THEN Sharers(t, p) ELSE {}

\* read, waitpid and the like, into a buffer of the task.
KernelWrite(t, p, v) ==
    /\ Call(t)
    /\ Becomes(KernelStore(mem, t, p, v))
    /\ view' = After(t, p, Told(t, p, v), Trodden(t, p))
    /\ UNCHANGED task

Forgotten(t, pages) ==
    view' = [view EXCEPT ![t] = [p \in Pages |-> IF p \in pages THEN None ELSE @[p]]]

\* The pages from the new brk to the old one go; new ones come when touched.
sys_brk(t, b) ==
    LET gone == {p \in 1 .. Heap : b <= p /\ p < task[t].brk}
    IN  /\ Call(t) /\ task[t].end <= b
        /\ IF b - task[t].brk > mem.free_pages
           THEN UNCHANGED vars
           ELSE /\ Becomes(unlink_pages(mem, t, gone))
                /\ task' = [task EXCEPT ![t].brk = b]
                /\ Forgotten(t, gone)

MapPages == {p \in Pages : Dir(p) = "mmap"}

Allow(m, t, p, write, shared) ==
    Enter(m, t, p, [m.pte[t][p] EXCEPT !.write = write, !.readonly = ~write,
                                       !.shared = @ \/ shared])

\* The page is the one asked for, or the first free one of vmap; the kernel
\* reads the file given into it.  Nothing checks that the address is not in use:
\* a page shared since a fork may be made writable or filled where it is.
sys_mmap(t, p, write, shared, file) ==
    LET linked == link_page(mem, t, p)
        mapped == Allow(linked, t, p, write, shared)
        found == IF shared THEN None ELSE IF file THEN Told(t, p, Program) ELSE view[t][p]
    IN  /\ Call(t)
        /\ Becomes(IF linked.failed # 0 THEN linked
                   ELSE IF file THEN Store(mapped, t, p, Program) ELSE mapped)
        /\ task' = [task EXCEPT ![t].vmap = @ \cup {p}]
        /\ view' = After(t, p, found, IF write \/ file THEN Sharers(t, p) ELSE {})

sys_munmap(t, p) ==
    /\ Call(t) /\ p \in task[t].vmap
    /\ Becomes(unlink_pages(mem, t, {p}))
    /\ task' = [task EXCEPT ![t].vmap = @ \ {p}]
    /\ Forgotten(t, {p})

-----------------------------------------------------------------------------
\* copy_pde: the entries of the parent become read only, unless they are
\* shared, and are copied with their tables.
Counted(m, t) ==
    [m EXCEPT !.memory_map = [f \in Frames |-> @[f] + Named(m, t, Pages, {}, f)]]

ShareKeepsWrite(m, t) == Counted(m, t)

Protected(e) == IF e = None THEN None ELSE [e EXCEPT !.write = @ /\ e.shared]

Share(m, t) == [Counted(m, t) EXCEPT !.pte[t] = [p \in Pages |-> Protected(@[p])]]

\* copy_page of a page table
CopyTable(m, t, c, d) ==
    IF m.failed # 0 \/ m.dir[t][d] = None THEN m
    ELSE get_page(m, LAMBDA f, n : EnterTable(n, c, d, f))

copy_pde(m, t, c) ==
    LET tables == CopyTable(CopyTable(CopyTable(Share(m, t), t, c, "heap"), t, c, "mmap"),
                            t, c, "stack")
    IN  [tables EXCEPT !.pte[c] = tables.pte[t]]

task_fork(t, c) ==
    /\ Call(t) /\ c \notin Alive
    /\ Becomes(copy_pde(mem, t, c))
    /\ task' = [task EXCEPT ![c] = task[t]]
    /\ view' = [view EXCEPT ![c] = view[t]]

free_pde(m, t) ==
    [put_pages(m, t, Pages, Dirs) EXCEPT
        !.pte[t] = [p \in Pages |-> None], !.dir[t] = [d \in Dirs |-> None]]

\* exit, and a fault outside the user's addresses.  The first task stays.
task_exit(t) ==
    /\ Call(t) /\ t # First
    /\ Becomes(free_pde(mem, t))
    /\ task' = [task EXCEPT ![t] = [alive |-> FALSE, brk |-> 1, end |-> 1, vmap |-> {}]]
    /\ Forgotten(t, Pages)

\* load_segment reads the pages of the program, then makes those of a segment
\* that is not writable read only.
Load(m, t, p, write) ==
    LET linked == link_page(m, t, p)
        stored == Store(linked, t, p, Program)
    IN  IF linked.failed # 0 THEN linked
        ELSE Enter(stored, t, p,
                   [stored.pte[t][p] EXCEPT !.write = @ /\ write, !.readonly = @ \/ ~write])

\* The pages from data on are writable.
load_elf(m, t, n, data) ==
    LET loaded[p \in 0 .. n] ==
            IF p = 0 THEN m
            ELSE IF loaded[p - 1].failed # 0 THEN loaded[p - 1]
            ELSE Load(loaded[p - 1], t, p, p >= data)
    IN  loaded[n]

\* execve of a program of n pages, those from data on writable: the arguments
\* go to the stack, the heap is released, the segments are loaded and brk is
\* set to their end, if free_pages allows.  mmap and the stack stay.  A file
\* that is no program leaves the task without the code it returns to.
sys_execve(t, n, data, v, elf) ==
    LET args == KernelStore(mem, t, Stack, v)
        empty == unlink_pages(args, t, {p \in 1 .. Heap : p < task[t].brk})
        loaded == IF args.failed # 0 THEN args
                  ELSE IF ~elf THEN Fails(empty, 712)
                  ELSE load_elf(empty, t, n, data)
        told == After(t, Stack, Told(t, Stack, v), Trodden(t, Stack))
    IN  /\ Call(t)
        /\ Becomes(loaded)
        /\ task' = [task EXCEPT ![t].end = n + 1,
                               ![t].brk = IF n > loaded.free_pages THEN 1 ELSE n + 1]
        /\ view' = [told EXCEPT ![t] = [p \in Pages |->
                        IF p <= n THEN Program ELSE IF p <= Heap THEN None ELSE @[p]]]

Next ==
    \E t \in Tasks :
        \/ \E p \in Pages :
            Read(t, p) \/ \E v \in Values : Write(t, p, v) \/ KernelWrite(t, p, v)
        \/ \E b \in 1 .. Heap + 1 : sys_brk(t, b)
        \/ \E p \in MapPages, write, shared, file \in BOOLEAN : sys_mmap(t, p, write, shared, file)
        \/ \E p \in MapPages : sys_munmap(t, p)
        \/ \E c \in Tasks : task_fork(t, c)
        \/ task_exit(t)
        \/ \E n \in 1 .. MaxProgram, data \in 1 .. Heap + 1, v \in Values, elf \in BOOLEAN :
            sys_execve(t, n, data, v, elf)

Spec == Init /\ [][Next]_vars

-----------------------------------------------------------------------------
\* The count of a frame is the number of entries and page tables that use it,
\* through fork, copy on write, exec, munmap and exit: no frame is handed out
\* in use, and none is lost.
CountIsMappings ==
    \A f \in Frames :
        mem.memory_map[f] = Cardinality(Mapping(f))
            + Cardinality({x \in Tasks \X Dirs : mem.dir[x[1]][x[2]] = f})

\* free_pages, which brk relies on, changes as the number of free frames does:
\* a frame that comes or goes is counted once, whatever else names it.  (It is
\* not that number, as memory.c:51 has it: mapping_init marks pages of the kernel
\* as used and leaves it alone.)
FreePagesFollow ==
    [][mem'.free_pages - mem.free_pages
         = Cardinality(FreeFrames(mem')) - Cardinality(FreeFrames(mem))]_vars

\* A task finds in a private page what it wrote there last, or its parent
\* before the fork: the tasks that share a frame do not see each other's
\* writes, in whatever order they write, fork, exec and exit.  What a store of
\* the kernel into a shared frame or a second mmap of it spoils is no more than
\* the pages in that frame.
PrivateIsPrivate ==
    mem.failed = 0 =>
        \A t \in Alive, p \in Pages :
            Present(mem, t, p) /\ view[t][p] # None =>
                mem.data[mem.pte[t][p].frame] = view[t][p]

ReadOnly(f) == \A x \in Mapping(f) : ~mem.pte[x[1]][x[2]].write

\* A frame that copy_pde has made read only (memory.c:477) for two tasks
\* does not change while they have it: each write copies it first.
SharedIsReadOnly ==
    [][\A f \in Frames : Cardinality(Mapping(f)) > 1 /\ ReadOnly(f) => mem'.data[f] = mem.data[f]]_vars
=============================================================================
