------------------------------ MODULE MCMemory ------------------------------
(* Two tasks with a page of heap, one of mmap and one of stack.              *)
(* Frames differ by who maps them only, and no step depends on what they     *)
(* hold; it matters to the properties only where a page has a view.  So two  *)
(* states with the same Seen have the same continuations.                    *)
EXTENDS Memory

Place(x) == x[2] + (IF x[1] = First THEN 0 ELSE Stack)
As(f) == [count |-> mem.memory_map[f], by |-> {Place(x) : x \in Mapping(f)}]
Entry(t, p) ==
    LET e == mem.pte[t][p]
    IN  IF e = None THEN None
        ELSE <<[e EXCEPT !.frame = As(@)], IF view[t][p] = None THEN None ELSE mem.data[e.frame]>>

Seen ==
    IF mem.failed # 0 THEN mem.failed
    ELSE <<[t \in Tasks |-> [p \in Pages |-> Entry(t, p)]],
           [t \in Tasks |-> [d \in Dirs |->
               IF mem.dir[t][d] = None THEN None ELSE mem.memory_map[mem.dir[t][d]]]],
           mem.free_pages, Cardinality(FreeFrames(mem)), task, view>>
=============================================================================
