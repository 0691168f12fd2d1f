-------------------------------- MODULE Arena --------------------------------
(***************************************************************************)
(* kmalloc and kfree of arena.c: kernel pages cut into blocks of one size, *)
(* with a free list per size through the blocks themselves, and whole      *)
(* pages for what is larger.                                               *)
(*                                                                         *)
(* A pointer is a page and the index of a block in it, or index 0 for what *)
(* is larger than the largest block.                                       *)
(***************************************************************************)
EXTENDS Integers, FiniteSets, Lists

CONSTANTS
    Sizes,     \* the descriptors: block_size of each
    PageRoom,  \* PAGE_SIZE without the arena_t at the start
    LastPage,  \* kernel pages are 1 .. LastPage
    MaxPages   \* a large request takes up to so many pages

\* What the constants are; an instance assumes it.
ArenaAssumption ==
    /\ PageRoom \in Nat /\ Sizes \subseteq 1 .. PageRoom
    /\ LastPage \in Nat /\ MaxPages \in Nat

Large == 0  \* NULL as arena_t.desc, of a piece with arena_t.large

VARIABLES
    used,      \* the pages alloc_kpage has given out: kernel_map
    desc,      \* arena_t.desc at the start of a page
    count,     \* arena_t.count
    free_list, \* arena_descriptor_t.free_list: blocks, head first
    held       \* the pointers the kernel has got and not given back

vars == <<used, desc, count, free_list, held>>

Pages == 1 .. LastPage

\* arena_descriptor_t.total_block
TotalBlock == [s \in Sizes |-> PageRoom \div s]

BlocksOf(page, size) == {<<page, i>> : i \in 1 .. TotalBlock[size]}

\* arena_init
Init ==
    /\ used = {}
    /\ desc = [p \in Pages |-> Large]
    /\ count = [p \in Pages |-> 0]
    /\ free_list = [s \in Sizes |-> << >>]
    /\ held = {}

-----------------------------------------------------------------------------
\* alloc_kpage: the first n free pages in a row.  Without any the kernel stops.
Fits(n) == {p \in Pages : p + n - 1 <= LastPage /\ (p .. p + n - 1) \cap used = {}}

First(n) == CHOOSE p \in Fits(n) : \A q \in Fits(n) : p <= q

\* More than the largest block.
kmalloc_large(n) ==
    /\ Fits(n) # {}
    /\ LET p == First(n)
       IN  /\ used' = used \cup (p .. p + n - 1)
           /\ desc' = [desc EXCEPT ![p] = Large]
           /\ count' = [count EXCEPT ![p] = n]
           /\ held' = held \cup {<<p, 0>>}
    /\ UNCHANGED free_list

\* The head of the free list, which a new page fills when it is empty: its
\* blocks are pushed one after the other.
kmalloc(size) ==
    IF free_list[size] # << >>
    THEN LET block == Head(free_list[size])
         IN  /\ free_list' = [free_list EXCEPT ![size] = Tail(@)]
             /\ count' = [count EXCEPT ![block[1]] = @ - 1]
             /\ held' = held \cup {block}
             /\ UNCHANGED <<used, desc>>
    ELSE /\ Fits(1) # {}
         /\ LET p == First(1)
                n == TotalBlock[size]
            IN  /\ used' = used \cup {p}
                /\ desc' = [desc EXCEPT ![p] = size]
                /\ count' = [count EXCEPT ![p] = n - 1]
                /\ held' = held \cup {<<p, n>>}
                /\ free_list' = [free_list EXCEPT ![size] =
                                    [i \in 1 .. n - 1 |-> <<p, n - i>>]]

-----------------------------------------------------------------------------
kfree_block_leaves(block) ==
    LET p == block[1]
        size == desc[p]
        list == <<block>> \o free_list[size]
        empty == count[p] + 1 = TotalBlock[size]
    IN  /\ count' = [count EXCEPT ![p] = @ + 1]
        /\ free_list' = [free_list EXCEPT ![size] = list]
        /\ used' = IF empty THEN used \ {p} ELSE used
        /\ UNCHANGED desc

\* What is left of a free list after the first blocks of a page are taken off.
Removed(list, page, size) ==
    LET rest[i \in 0 .. TotalBlock[size]] ==
            IF i = 0 THEN list ELSE Without(rest[i - 1], <<page, i>>)
    IN  rest

\* Back on the free list; when every block of the page is there, they are
\* taken off it and the page is given back.
kfree_block(block) ==
    LET p == block[1]
        size == desc[p]
        list == <<block>> \o free_list[size]
        empty == count[p] + 1 = TotalBlock[size]
    IN  /\ count' = [count EXCEPT ![p] = @ + 1]
        /\ free_list' = [free_list EXCEPT ![size] =
                            IF empty THEN Removed(list, p, size)[TotalBlock[size]] ELSE list]
        /\ used' = IF empty THEN used \ {p} ELSE used
        /\ UNCHANGED desc

kfree_large(p) ==
    /\ used' = used \ (p .. p + count[p] - 1)
    /\ UNCHANGED <<desc, count, free_list>>

\* The page of a pointer is where its arena_t is.
kfree(ptr) ==
    /\ ptr \in held
    /\ held' = held \ {ptr}
    /\ IF desc[ptr[1]] = Large THEN kfree_large(ptr[1]) ELSE kfree_block(ptr)

Next ==
    \/ \E s \in Sizes : kmalloc(s)
    \/ \E n \in 1 .. MaxPages : kmalloc_large(n)
    \/ \E ptr \in held : kfree(ptr)

-----------------------------------------------------------------------------
\* The pages that belong to a pointer.
PagesOf(ptr) ==
    IF desc[ptr[1]] = Large THEN ptr[1] .. ptr[1] + count[ptr[1]] - 1 ELSE {ptr[1]}

\* A page is taken exactly while something in it is in use, every block of
\* it is either in use or once on the free list of its size, which has no
\* block of a page that was given back; and large pieces share no page.
BlocksAccounted ==
    /\ used = UNION {PagesOf(ptr) : ptr \in held}
    /\ \A ptr, q \in held :
        ptr[2] = 0 /\ ptr # q => PagesOf(ptr) \cap PagesOf(q) = {}
    /\ \A s \in Sizes :
        LET pages == {p \in used : desc[p] = s /\ \E ptr \in held : ptr[1] = p}
        IN  /\ IsInjective(free_list[s])
            /\ ToSet(free_list[s]) = (UNION {BlocksOf(p, s) : p \in pages}) \ held
    /\ \A ptr \in held :
        ptr[2] # 0 => count[ptr[1]] = Cardinality({b \in ToSet(free_list[desc[ptr[1]]]) : b[1] = ptr[1]})
=============================================================================
