---------------------------- MODULE MemoryProofs ----------------------------
(***************************************************************************)
(* Proofs about module Memory, for any tasks, any number of frames and any *)
(* sizes of the areas.                                                     *)
(***************************************************************************)
EXTENDS Memory, TLAPS, FiniteSetTheorems, WellFoundedInduction

-----------------------------------------------------------------------------
(* A memory, and who uses a frame: pages, and the tables of pages.         *)

Memories ==
    [memory_map : [Frames -> Int], free_pages : Int,
     dir : [Tasks -> [Dirs -> Frames \cup {None}]],
     pte : [Tasks -> [Pages -> Entries \cup {None}]],
     data : [Frames -> Values], failed : Int]

Uses(m, f) == {x \in Tasks \X Pages : Present(m, x[1], x[2]) /\ m.pte[x[1]][x[2]].frame = f}
Holds(m, f) == {x \in Tasks \X Dirs : m.dir[x[1]][x[2]] = f}

\* What is the matter of an entry, and of a table, for the count of a frame.
At(e, f) == IF e # None /\ e.frame = f THEN 1 ELSE 0
Is(g, f) == IF g = f THEN 1 ELSE 0

\* owed are uses that are counted and not yet entered: copy_pde counts first.
Counts(m, owed) ==
    \A f \in Frames :
        m.memory_map[f] = Cardinality(Uses(m, f)) + Cardinality(Holds(m, f)) + owed[f]

Frees(m) == m.free_pages = Cardinality(FreeFrames(m)) + Kernel

Nothing == [f \in Frames |-> 0]

\* A set of one column is as large as what is in it.
LEMMA Column ==
    ASSUME NEW t, NEW S, IsFiniteSet(S)
    PROVE  IsFiniteSet({t} \X S) /\ Cardinality({t} \X S) = Cardinality(S)
<1>1. IsFiniteSet({t}) /\ Cardinality({t}) = 1
  BY FS_Singleton
<1>2. IsFiniteSet({t} \X S) /\ Cardinality({t} \X S) = Cardinality({t}) * Cardinality(S)
  BY <1>1, FS_Product
<1>3. Cardinality(S) \in Nat
  BY FS_CardinalityType
<1>4. 1 * Cardinality(S) = Cardinality(S)
  BY <1>3
<1> QED
  BY <1>1, <1>2, <1>4

LEMMA Disjoint ==
    ASSUME NEW S, NEW T, IsFiniteSet(S), IsFiniteSet(T), S \cap T = {}
    PROVE  IsFiniteSet(S \cup T)
           /\ Cardinality(S \cup T) = Cardinality(S) + Cardinality(T)
<1>1. Cardinality(S \cap T) = 0
  BY FS_EmptySet
<1>2. Cardinality(S) \in Nat /\ Cardinality(T) \in Nat
  BY FS_CardinalityType
<1>3. /\ IsFiniteSet(S \cup T)
      /\ Cardinality(S \cup T) = Cardinality(S) + Cardinality(T) - Cardinality(S \cap T)
  BY FS_Union
<1> QED
  BY <1>1, <1>2, <1>3

LEMMA FinitePages == IsFiniteSet(Pages) /\ IsFiniteSet(Dirs)
<1>1. Stack \in Int
  BY MemoryAssumption DEF Stack
<1>2. IsFiniteSet(1 .. Stack)
  BY <1>1, FS_Interval
<1>3. Dirs = ({"heap"} \cup {"mmap"}) \cup {"stack"}
  BY DEF Dirs
<1>4. IsFiniteSet({"heap"})
  BY FS_Singleton
<1>5. IsFiniteSet({"heap"} \cup {"mmap"})
  BY <1>4, FS_AddElement
<1>6. IsFiniteSet(({"heap"} \cup {"mmap"}) \cup {"stack"})
  BY <1>5, FS_AddElement
<1> QED
  BY <1>2, <1>3, <1>6 DEF Pages

LEMMA FiniteUses ==
    ASSUME NEW m, NEW f
    PROVE  /\ IsFiniteSet(Uses(m, f)) /\ Cardinality(Uses(m, f)) \in Nat
           /\ IsFiniteSet(Holds(m, f)) /\ Cardinality(Holds(m, f)) \in Nat
<1>1. IsFiniteSet(Tasks \X Pages) /\ IsFiniteSet(Tasks \X Dirs)
  BY FinitePages, FS_Product, MemoryAssumption
<1>2. Uses(m, f) \in SUBSET (Tasks \X Pages) /\ Holds(m, f) \in SUBSET (Tasks \X Dirs)
  BY DEF Uses, Holds
<1>3. IsFiniteSet(Uses(m, f)) /\ IsFiniteSet(Holds(m, f))
  BY <1>1, <1>2, FS_Subset
<1> QED
  BY <1>3, FS_CardinalityType

LEMMA FiniteFree ==
    ASSUME NEW m
    PROVE  IsFiniteSet(FreeFrames(m)) /\ Cardinality(FreeFrames(m)) \in Nat
<1>1. FreeFrames(m) \in SUBSET Frames
  BY DEF FreeFrames
<1>2. IsFiniteSet(FreeFrames(m))
  BY <1>1, FS_Subset, MemoryAssumption
<1> QED
  BY <1>2, FS_CardinalityType

\* A frame that is free is in no entry; one that is in an entry has a count.
LEMMA CountsSay ==
    ASSUME NEW m, NEW owed \in [Frames -> Nat], Counts(m, owed), NEW f \in Frames
    PROVE  /\ m.memory_map[f] \in Nat
           /\ m.memory_map[f] = 0 => Uses(m, f) = {} /\ Holds(m, f) = {} /\ owed[f] = 0
           /\ Uses(m, f) # {} => m.memory_map[f] > 0
<1>. DEFINE U == Cardinality(Uses(m, f))
            H == Cardinality(Holds(m, f))
<1>1. U \in Nat /\ H \in Nat /\ owed[f] \in Nat
  BY FiniteUses
<1>2. m.memory_map[f] = U + H + owed[f]
  BY DEF Counts
<1>3. U = 0 <=> Uses(m, f) = {}
  BY FiniteUses, FS_EmptySet
<1>4. H = 0 <=> Holds(m, f) = {}
  BY FiniteUses, FS_EmptySet
<1>. HIDE DEF U, H
<1> QED
  BY <1>1, <1>2, <1>3, <1>4

\* A count of one and an entry: nobody else uses the frame.
LEMMA LastUse ==
    ASSUME NEW m, NEW owed \in [Frames -> Nat], Counts(m, owed), NEW f \in Frames,
           m.memory_map[f] = 1, NEW x, x \in Uses(m, f)
    PROVE  Uses(m, f) = {x}
<1>. DEFINE U == Cardinality(Uses(m, f))
            H == Cardinality(Holds(m, f))
<1>1. U \in Nat /\ H \in Nat /\ owed[f] \in Nat
  BY FiniteUses
<1>2. 1 = U + H + owed[f]
  BY DEF Counts
<1>3. U # 0
  BY FiniteUses, FS_EmptySet
<1>. HIDE DEF U, H
<1>4. U = 1
  BY <1>1, <1>2, <1>3
<1>5. \E y : Uses(m, f) = {y}
  BY <1>4, FiniteUses, FS_Singleton DEF U
<1> QED
  BY <1>5

-----------------------------------------------------------------------------
(* What the pieces of memory.c change.  A piece is described field by      *)
(* field, from the memory m before it to the memory n after it.            *)

SameTables(m, n) == n.dir = m.dir
SamePages(m, n) == n.pte = m.pte

\* n has e where m has the entry p of t.
Entered(m, n, t, p, e) ==
    \A u \in Tasks, q \in Pages : n.pte[u][q] = IF u = t /\ q = p THEN e ELSE m.pte[u][q]

\* n has the table d of t in frame f.
Hung(m, n, t, d, f) ==
    \A u \in Tasks, c \in Dirs : n.dir[u][c] = IF u = t /\ c = d THEN f ELSE m.dir[u][c]

\* Only the tasks of S have other entries or tables in n than in m.
Others(m, n, S) ==
    \A u \in Tasks \ S :
        /\ \A q \in Pages : n.pte[u][q] = m.pte[u][q]
        /\ \A d \in Dirs : n.dir[u][d] = m.dir[u][d]

LEMMA OthersStep ==
    ASSUME NEW m, NEW k, NEW n, NEW S, NEW T, Others(m, k, S), Others(k, n, T)
    PROVE  Others(m, n, S \cup T)
BY DEF Others

LEMMA OthersSame ==
    ASSUME NEW m, NEW n, NEW S, SamePages(m, n), SameTables(m, n)
    PROVE  Others(m, n, S)
BY DEF Others, SamePages, SameTables

LEMMA OthersEntered ==
    ASSUME NEW m, NEW n, NEW t, NEW p, NEW e, Entered(m, n, t, p, e), SameTables(m, n)
    PROVE  Others(m, n, {t})
BY DEF Others, Entered, SameTables

LEMMA OthersHung ==
    ASSUME NEW m, NEW n, NEW t, NEW d, NEW f, Hung(m, n, t, d, f), SamePages(m, n)
    PROVE  Others(m, n, {t})
BY DEF Others, Hung, SamePages

\* An entry changes: the uses of its old and its new frame change by one.
LEMMA UsesEntered ==
    ASSUME NEW m \in Memories, NEW n, NEW t \in Tasks, NEW p \in Pages,
           NEW e \in Entries \cup {None}, Entered(m, n, t, p, e), NEW f \in Frames
    PROVE  Cardinality(Uses(n, f))
           = Cardinality(Uses(m, f)) - At(m.pte[t][p], f) + At(e, f)
<1>. DEFINE x == <<t, p>>
            R == Uses(m, f) \ {x}
<1>1. x \in Tasks \X Pages /\ x[1] = t /\ x[2] = p
  OBVIOUS
<1>2. x \in Uses(m, f) <=> m.pte[t][p] # None /\ m.pte[t][p].frame = f
  BY <1>1 DEF Uses, Present
<1>3. x \in Uses(n, f) <=> e # None /\ e.frame = f
  BY <1>1 DEF Uses, Present, Entered
<1>4. ASSUME NEW y \in Tasks \X Pages, y # x
      PROVE  y \in Uses(n, f) <=> y \in Uses(m, f)
  <2>1. y[1] \in Tasks /\ y[2] \in Pages /\ y = <<y[1], y[2]>>
    OBVIOUS
  <2>2. n.pte[y[1]][y[2]] = m.pte[y[1]][y[2]]
    BY <2>1, <1>4 DEF Entered
  <2>. QED
    BY <2>2 DEF Uses, Present
<1>5. Uses(m, f) \subseteq Tasks \X Pages /\ Uses(n, f) \subseteq Tasks \X Pages
  BY DEF Uses
<1>. HIDE DEF x
<1>6. Uses(n, f) = IF x \in Uses(n, f) THEN R \cup {x} ELSE R
  BY <1>1, <1>4, <1>5
<1>7. IsFiniteSet(R) /\ Cardinality(R) = Cardinality(Uses(m, f)) - At(m.pte[t][p], f)
  BY <1>2, FiniteUses, FS_RemoveElement DEF At
<1>8. Cardinality(R \cup {x}) = Cardinality(R) + 1 /\ Cardinality(R) \in Nat
  BY <1>7, FS_AddElement, FS_CardinalityType
<1>. HIDE DEF R
<1> QED
  BY <1>3, <1>6, <1>7, <1>8 DEF At

\* A table is hung up where there was none.
LEMMA HoldsHung ==
    ASSUME NEW m \in Memories, NEW n, NEW t \in Tasks, NEW d \in Dirs, NEW g \in Frames,
           m.dir[t][d] = None, Hung(m, n, t, d, g), NEW f \in Frames
    PROVE  Cardinality(Holds(n, f)) = Cardinality(Holds(m, f)) + Is(g, f)
<1>. DEFINE x == <<t, d>>
<1>1. x \in Tasks \X Dirs /\ x[1] = t /\ x[2] = d
  OBVIOUS
<1>2. x \notin Holds(m, f)
  BY <1>1, MemoryAssumption DEF Holds
<1>3. x \in Holds(n, f) <=> g = f
  BY <1>1 DEF Holds, Hung
<1>4. ASSUME NEW y \in Tasks \X Dirs, y # x
      PROVE  y \in Holds(n, f) <=> y \in Holds(m, f)
  <2>1. y[1] \in Tasks /\ y[2] \in Dirs /\ y = <<y[1], y[2]>>
    OBVIOUS
  <2>2. n.dir[y[1]][y[2]] = m.dir[y[1]][y[2]]
    BY <2>1, <1>4 DEF Hung
  <2>. QED
    BY <2>2 DEF Holds
<1>5. Holds(m, f) \subseteq Tasks \X Dirs /\ Holds(n, f) \subseteq Tasks \X Dirs
  BY DEF Holds
<1>. HIDE DEF x
<1>6. Holds(n, f) = IF g = f THEN Holds(m, f) \cup {x} ELSE Holds(m, f)
  BY <1>1, <1>2, <1>3, <1>4, <1>5
<1>7. Cardinality(Holds(m, f) \cup {x}) = Cardinality(Holds(m, f)) + 1
  BY <1>2, FiniteUses, FS_AddElement
<1>8. Cardinality(Holds(m, f)) \in Nat
  BY FiniteUses
<1> QED
  BY <1>6, <1>7, <1>8 DEF Is

LEMMA UsesSame ==
    ASSUME NEW m, NEW n, NEW f, SamePages(m, n)
    PROVE  Uses(n, f) = Uses(m, f)
BY DEF Uses, Present, SamePages

LEMMA HoldsSame ==
    ASSUME NEW m, NEW n, NEW f, SameTables(m, n)
    PROVE  Holds(n, f) = Holds(m, f)
BY DEF Holds, SameTables

\* Frame f, free in m, is taken in n.
Takes(m, n, f) ==
    /\ \A g \in Frames : n.memory_map[g] = IF g = f THEN 1 ELSE m.memory_map[g]
    /\ n.free_pages = m.free_pages - 1

LEMMA FreesTakes ==
    ASSUME NEW m \in Memories, NEW n, NEW f \in FreeFrames(m), Takes(m, n, f), Frees(m)
    PROVE  Frees(n)
<1>1. FreeFrames(n) = FreeFrames(m) \ {f}
  BY DEF FreeFrames, Takes
<1>2. Cardinality(FreeFrames(m) \ {f}) = Cardinality(FreeFrames(m)) - 1
  BY FiniteFree, FS_RemoveElement
<1>3. Cardinality(FreeFrames(m)) \in Nat /\ Kernel \in Nat
  BY FiniteFree, MemoryAssumption
<1> QED
  BY <1>1, <1>2, <1>3 DEF Frees, Takes

\* The fields of a memory.
LEMMA FieldsOf ==
    ASSUME NEW m \in Memories
    PROVE  /\ m.memory_map \in [Frames -> Int] /\ m.free_pages \in Int
           /\ m.dir \in [Tasks -> [Dirs -> Frames \cup {None}]]
           /\ m.pte \in [Tasks -> [Pages -> Entries \cup {None}]]
           /\ m.data \in [Frames -> Values] /\ m.failed \in Int
BY DEF Memories

LEMMA EntryOf ==
    ASSUME NEW m \in Memories, NEW t \in Tasks, NEW p \in Pages
    PROVE  /\ m.pte[t][p] \in Entries \cup {None} /\ m.pte[t] \in [Pages -> Entries \cup {None}]
           /\ Present(m, t, p) => m.pte[t][p] \in Entries /\ m.pte[t][p].frame \in Frames
<1>1. m.pte[t] \in [Pages -> Entries \cup {None}]
  BY FieldsOf
<1>2. m.pte[t][p] \in Entries \cup {None}
  BY <1>1
<1>3. ASSUME NEW e \in Entries
      PROVE  e.frame \in Frames
  BY DEF Entries
<1> QED
  BY <1>1, <1>2, <1>3 DEF Present

LEMMA EntryBits ==
    ASSUME NEW e \in Entries
    PROVE  /\ e.frame \in Frames /\ e.write \in BOOLEAN /\ e.shared \in BOOLEAN
           /\ e.readonly \in BOOLEAN /\ e # None
<1>1. e.frame \in Frames /\ e.write \in BOOLEAN /\ e.shared \in BOOLEAN /\ e.readonly \in BOOLEAN
  BY DEF Entries
<1>2. e # None
  BY MemoryAssumption
<1> QED
  BY <1>1, <1>2

SameCounts(m, n) == n.memory_map = m.memory_map /\ n.free_pages = m.free_pages
SameRest(m, n) == n.data = m.data /\ n.failed = m.failed

LEMMA FailsIs ==
    ASSUME NEW m \in Memories, NEW line \in Int
    PROVE  /\ Fails(m, line) \in Memories /\ Fails(m, line).failed = line
           /\ SameCounts(m, Fails(m, line)) /\ SamePages(m, Fails(m, line))
           /\ SameTables(m, Fails(m, line)) /\ Fails(m, line).data = m.data
BY DEF Memories, Fails, SameCounts, SamePages, SameTables

LEMMA EnterIs ==
    ASSUME NEW m \in Memories, NEW t \in Tasks, NEW p \in Pages, NEW e \in Entries \cup {None}
    PROVE  /\ Enter(m, t, p, e) \in Memories /\ Entered(m, Enter(m, t, p, e), t, p, e)
           /\ SameCounts(m, Enter(m, t, p, e)) /\ SameTables(m, Enter(m, t, p, e))
           /\ SameRest(m, Enter(m, t, p, e))
<1>1. m.pte \in [Tasks -> [Pages -> Entries \cup {None}]]
  BY FieldsOf
<1>2. [m.pte EXCEPT ![t][p] = e] \in [Tasks -> [Pages -> Entries \cup {None}]]
  BY <1>1
<1>3. Enter(m, t, p, e) = [m EXCEPT !.pte = [m.pte EXCEPT ![t][p] = e]]
  BY DEF Enter
<1>4. Entered(m, Enter(m, t, p, e), t, p, e)
  BY <1>1, <1>3 DEF Entered, Memories
<1>5. Enter(m, t, p, e) \in Memories
  BY <1>2, <1>3 DEF Memories
<1>6. SameCounts(m, Enter(m, t, p, e)) /\ SameTables(m, Enter(m, t, p, e))
      /\ SameRest(m, Enter(m, t, p, e))
  BY <1>3 DEF Memories, SameCounts, SameTables, SameRest
<1> QED
  BY <1>4, <1>5, <1>6

LEMMA EnterTableIs ==
    ASSUME NEW m \in Memories, NEW t \in Tasks, NEW d \in Dirs, NEW f \in Frames
    PROVE  /\ EnterTable(m, t, d, f) \in Memories /\ Hung(m, EnterTable(m, t, d, f), t, d, f)
           /\ SameCounts(m, EnterTable(m, t, d, f)) /\ SamePages(m, EnterTable(m, t, d, f))
           /\ SameRest(m, EnterTable(m, t, d, f))
<1>1. m.dir \in [Tasks -> [Dirs -> Frames \cup {None}]]
  BY FieldsOf
<1>2. [m.dir EXCEPT ![t][d] = f] \in [Tasks -> [Dirs -> Frames \cup {None}]]
  BY <1>1
<1>3. EnterTable(m, t, d, f) = [m EXCEPT !.dir = [m.dir EXCEPT ![t][d] = f]]
  BY DEF EnterTable
<1>4. Hung(m, EnterTable(m, t, d, f), t, d, f)
  BY <1>1, <1>3 DEF Hung, Memories
<1>5. EnterTable(m, t, d, f) \in Memories
  BY <1>2, <1>3 DEF Memories
<1>6. SameCounts(m, EnterTable(m, t, d, f)) /\ SamePages(m, EnterTable(m, t, d, f))
      /\ SameRest(m, EnterTable(m, t, d, f))
  BY <1>3 DEF Memories, SameCounts, SamePages, SameRest
<1> QED
  BY <1>4, <1>5, <1>6

LEMMA TakenIs ==
    ASSUME NEW m \in Memories, NEW f \in Frames
    PROVE  /\ Taken(m, f) \in Memories /\ Takes(m, Taken(m, f), f)
           /\ SamePages(m, Taken(m, f)) /\ SameTables(m, Taken(m, f)) /\ SameRest(m, Taken(m, f))
<1>1. m.memory_map \in [Frames -> Int] /\ m.free_pages \in Int
  BY FieldsOf
<1>2. Taken(m, f) = [m EXCEPT !.memory_map = [m.memory_map EXCEPT ![f] = 1],
                              !.free_pages = m.free_pages - 1]
  BY DEF Taken, Memories
<1>3. Takes(m, Taken(m, f), f)
  BY <1>1, <1>2 DEF Takes, Memories
<1>4. Taken(m, f) \in Memories
  <2>1. [m.memory_map EXCEPT ![f] = 1] \in [Frames -> Int] /\ m.free_pages - 1 \in Int
    BY <1>1
  <2>. QED
    BY <1>2, <2>1 DEF Memories
<1>5. SamePages(m, Taken(m, f)) /\ SameTables(m, Taken(m, f)) /\ SameRest(m, Taken(m, f))
  BY <1>2 DEF Memories, SamePages, SameTables, SameRest
<1> QED
  BY <1>3, <1>4, <1>5

\* The frame that get_page finds, if there is one.
LEMMA GetPageFinds ==
    ASSUME NEW m, FreeFrames(m) # {}
    PROVE  Min(FreeFrames(m)) \in FreeFrames(m)
<1>1. FreeFrames(m) \in SUBSET Nat
  BY MemoryAssumption DEF FreeFrames
<1>2. IsWellFoundedOn({ss \in Nat \X Nat : ss[1] < ss[2]}, Nat)
  BY NatLessThanWellFounded DEF OpToRel
<1>3. PICK x \in FreeFrames(m) :
          \A y \in FreeFrames(m) : <<y, x>> \notin {ss \in Nat \X Nat : ss[1] < ss[2]}
  BY <1>1, <1>2, WFMin
<1>4. \A y \in FreeFrames(m) : y \in Nat /\ x \in Nat /\ ~(y < x)
  BY <1>1, <1>3
<1>5. \A y \in FreeFrames(m) : x =< y
  BY <1>4
<1> QED
  BY <1>5 DEF Min

LinkedTable(m, t, d, f) == EnterTable(Taken(m, f), t, d, f)
LinkedPage(m, t, p, f) == Enter(Taken(m, f), t, p, entry_init(f))

LEMMA GetPte ==
    ASSUME NEW m \in Memories, NEW t \in Tasks, NEW d \in Dirs
    PROVE  \/ m.dir[t][d] # None /\ get_pte(m, t, d) = m
           \/ get_pte(m, t, d) = Fails(m, 180)
           \/ m.dir[t][d] = None /\ \E f \in FreeFrames(m) : get_pte(m, t, d) = LinkedTable(m, t, d, f)
BY GetPageFinds DEF get_pte, get_page, LinkedTable

LEMMA LinkPage ==
    ASSUME NEW m \in Memories, NEW t \in Tasks, NEW p \in Pages, ~Present(m, t, p)
    PROVE  \/ link_page(m, t, p) = Fails(m, 180)
           \/ get_pte(m, t, Dir(p)).failed # 0 /\ link_page(m, t, p) = get_pte(m, t, Dir(p))
           \/ /\ get_pte(m, t, Dir(p)).failed = 0
              /\ \/ link_page(m, t, p) = Fails(get_pte(m, t, Dir(p)), 180)
                 \/ \E f \in FreeFrames(get_pte(m, t, Dir(p))) :
                      link_page(m, t, p) = LinkedPage(get_pte(m, t, Dir(p)), t, p, f)
BY GetPageFinds DEF link_page, get_page, LinkedPage

-----------------------------------------------------------------------------
(* The counts are kept by each piece.                                      *)

Accounted(m) == m \in Memories /\ Counts(m, Nothing) /\ Frees(m)
Owing(m, owed) == m \in Memories /\ Counts(m, owed) /\ Frees(m)

\* A step that only sets bits of an entry.
LEMMA BitsAccounted ==
    ASSUME NEW m, Accounted(m), NEW t \in Tasks, NEW p \in Pages, Present(m, t, p),
           NEW e \in Entries, e.frame = m.pte[t][p].frame
    PROVE  Accounted(Enter(m, t, p, e)) /\ Others(m, Enter(m, t, p, e), {t})
           /\ Entered(m, Enter(m, t, p, e), t, p, e) /\ SameRest(m, Enter(m, t, p, e))
<1>. DEFINE n == Enter(m, t, p, e)
<1>1. m \in Memories
  BY DEF Accounted
<1>2. /\ n \in Memories /\ Entered(m, n, t, p, e) /\ SameCounts(m, n) /\ SameTables(m, n)
      /\ SameRest(m, n)
  BY <1>1, EnterIs
<1>. HIDE DEF n
<1>3. ASSUME NEW f \in Frames
      PROVE  Cardinality(Uses(n, f)) = Cardinality(Uses(m, f)) /\ Holds(n, f) = Holds(m, f)
  <2>1. Cardinality(Uses(n, f)) = Cardinality(Uses(m, f)) - At(m.pte[t][p], f) + At(e, f)
    BY <1>1, <1>2, UsesEntered
  <2>2. At(m.pte[t][p], f) = At(e, f) /\ At(e, f) \in Int
    BY EntryBits DEF At, Present
  <2>. QED
    BY <1>2, <2>1, <2>2, FiniteUses, HoldsSame
<1>4. Counts(n, Nothing)
  BY <1>2, <1>3 DEF Accounted, Counts, SameCounts
<1>5. Frees(n)
  BY <1>2 DEF Accounted, Frees, FreeFrames, SameCounts
<1>6. Others(m, n, {t})
  BY <1>2, OthersEntered
<1> QED
  BY <1>2, <1>4, <1>5, <1>6 DEF Accounted, n

LEMMA InitEntry ==
    ASSUME NEW f \in Frames
    PROVE  entry_init(f) \in Entries /\ entry_init(f).frame = f
           /\ entry_init(f).write /\ ~entry_init(f).shared
BY DEF entry_init, Entries

\* A table is hung up, whatever is owed: its frame is free, so nothing is owed for it.
LEMMA TableOwing ==
    ASSUME NEW m, NEW owed \in [Frames -> Nat], Owing(m, owed), NEW t \in Tasks, NEW d \in Dirs,
           m.dir[t][d] = None, NEW f \in FreeFrames(m)
    PROVE  /\ Owing(LinkedTable(m, t, d, f), owed) /\ SamePages(m, LinkedTable(m, t, d, f))
           /\ SameRest(m, LinkedTable(m, t, d, f)) /\ Hung(m, LinkedTable(m, t, d, f), t, d, f)
<1>. DEFINE k == Taken(m, f)
            n == EnterTable(k, t, d, f)
<1>1. m \in Memories /\ f \in Frames /\ m.memory_map[f] = 0
  BY DEF Owing, FreeFrames
<1>2. k \in Memories /\ Takes(m, k, f) /\ SamePages(m, k) /\ SameTables(m, k) /\ SameRest(m, k)
  BY <1>1, TakenIs
<1>. HIDE DEF k
<1>3. n \in Memories /\ Hung(k, n, t, d, f) /\ SameCounts(k, n) /\ SamePages(k, n) /\ SameRest(k, n)
  BY <1>1, <1>2, EnterTableIs
<1>. HIDE DEF n
<1>4. Takes(m, n, f) /\ Hung(m, n, t, d, f) /\ SamePages(m, n) /\ SameRest(m, n)
  BY <1>2, <1>3 DEF Takes, Hung, SameCounts, SameTables, SamePages, SameRest
<1>5. ASSUME NEW g \in Frames
      PROVE  /\ Uses(n, g) = Uses(m, g)
             /\ Cardinality(Holds(n, g)) = Cardinality(Holds(m, g)) + Is(f, g)
  BY <1>1, <1>4, UsesSame, HoldsHung
<1>6. Counts(n, owed)
  <2>. SUFFICES ASSUME NEW g \in Frames
                PROVE  n.memory_map[g]
                       = Cardinality(Uses(n, g)) + Cardinality(Holds(n, g)) + owed[g]
    BY DEF Counts
  <2>1. m.memory_map[g] = Cardinality(Uses(m, g)) + Cardinality(Holds(m, g)) + owed[g]
    BY DEF Owing, Counts
  <2>2. n.memory_map[g] = m.memory_map[g] + Is(f, g)
    BY <1>1, <1>4, <2>1, FiniteUses, CountsSay DEF Takes, Is
  <2>3. owed[g] \in Nat /\ Is(f, g) \in Int
    BY DEF Is
  <2>. QED
    BY <1>5, <2>1, <2>2, <2>3, FiniteUses
<1>7. Frees(n)
  BY <1>1, <1>4, FreesTakes DEF Owing
<1>8. n = LinkedTable(m, t, d, f)
  BY DEF n, k, LinkedTable
<1> QED
  BY <1>3, <1>4, <1>6, <1>7, <1>8 DEF Owing

LEMMA NothingOwed == Nothing \in [Frames -> Nat] /\ \A m : Accounted(m) <=> Owing(m, Nothing)
BY DEF Nothing, Accounted, Owing

\* A page is linked in a frame that was free.
LEMMA PageAccounted ==
    ASSUME NEW m, Accounted(m), NEW t \in Tasks, NEW p \in Pages,
           ~Present(m, t, p), NEW f \in FreeFrames(m)
    PROVE  /\ Accounted(LinkedPage(m, t, p, f)) /\ SameTables(m, LinkedPage(m, t, p, f))
           /\ SameRest(m, LinkedPage(m, t, p, f))
           /\ Entered(m, LinkedPage(m, t, p, f), t, p, entry_init(f))
<1>. DEFINE k == Taken(m, f)
            n == Enter(k, t, p, entry_init(f))
<1>1. m \in Memories /\ f \in Frames /\ m.memory_map[f] = 0
  BY DEF Accounted, FreeFrames
<1>2. k \in Memories /\ Takes(m, k, f) /\ SamePages(m, k) /\ SameTables(m, k) /\ SameRest(m, k)
  BY <1>1, TakenIs
<1>. HIDE DEF k
<1>3. /\ n \in Memories /\ Entered(k, n, t, p, entry_init(f)) /\ SameCounts(k, n)
      /\ SameTables(k, n) /\ SameRest(k, n)
  BY <1>1, <1>2, EnterIs, InitEntry
<1>. HIDE DEF n
<1>4. Takes(m, n, f) /\ Entered(m, n, t, p, entry_init(f)) /\ SameTables(m, n) /\ SameRest(m, n)
  BY <1>2, <1>3 DEF Takes, Entered, SameCounts, SameTables, SamePages, SameRest
<1>5. ASSUME NEW g \in Frames
      PROVE  /\ Cardinality(Uses(n, g)) = Cardinality(Uses(m, g)) + Is(f, g)
             /\ Holds(n, g) = Holds(m, g)
  <2>1. Cardinality(Uses(n, g))
        = Cardinality(Uses(m, g)) - At(m.pte[t][p], g) + At(entry_init(f), g)
    BY <1>1, <1>4, UsesEntered, InitEntry
  <2>2. At(m.pte[t][p], g) = 0
    BY DEF At, Present
  <2>3. At(entry_init(f), g) = Is(f, g) /\ Is(f, g) \in Int
    BY <1>1, InitEntry, EntryBits DEF At, Is
  <2>. QED
    BY <1>4, <2>1, <2>2, <2>3, FiniteUses, HoldsSame
<1>6. Counts(n, Nothing)
  <2>. SUFFICES ASSUME NEW g \in Frames
                PROVE  n.memory_map[g] = Cardinality(Uses(n, g)) + Cardinality(Holds(n, g))
                                         + Nothing[g]
    BY DEF Counts
  <2>1. m.memory_map[g] = Cardinality(Uses(m, g)) + Cardinality(Holds(m, g)) + Nothing[g]
    BY DEF Accounted, Counts
  <2>2. Nothing[g] = 0
    BY DEF Nothing
  <2>3. n.memory_map[g] = m.memory_map[g] + Is(f, g)
    BY <1>1, <1>4, <2>1, <2>2, FiniteUses DEF Takes, Is
  <2>. QED
    BY <1>5, <2>1, <2>2, <2>3, FiniteUses DEF Is
<1>7. Frees(n)
  BY <1>1, <1>4, FreesTakes DEF Accounted
<1>8. n = LinkedPage(m, t, p, f)
  BY DEF n, k, LinkedPage
<1> QED
  BY <1>3, <1>4, <1>6, <1>7, <1>8 DEF Accounted

-----------------------------------------------------------------------------
(* link_page and copy_page: the page is in a frame nobody used.            *)

Fresh(m, n, t, p, f) == Uses(m, f) = {} /\ Entered(m, n, t, p, entry_init(f))

Linked(m, n, t, p) ==
    n.failed = 0 /\ n.data = m.data /\ \E f \in Frames : Fresh(m, n, t, p, f)

Copied(m, n, t, p) ==
    /\ n.failed = 0
    /\ \E f \in Frames :
        /\ Fresh(m, n, t, p, f)
        /\ \A g \in Frames :
            n.data[g] = IF g = f THEN m.data[m.pte[t][p].frame] ELSE m.data[g]

Stopped(n) == n \in Memories /\ n.failed # 0

LEMMA DirOf == \A p \in Pages : Dir(p) \in Dirs
BY DEF Dir, Dirs

LEMMA FreeIsUnused ==
    ASSUME NEW m, Accounted(m), NEW f \in FreeFrames(m)
    PROVE  Uses(m, f) = {} /\ f \in Frames
BY CountsSay, NothingOwed DEF Accounted, FreeFrames

LEMMA FailsStops == \A m \in Memories : Stopped(Fails(m, 180))
BY FailsIs DEF Stopped

LEMMA GetPteResult ==
    ASSUME NEW m, Accounted(m), m.failed = 0, NEW t \in Tasks, NEW d \in Dirs
    PROVE  \/ Stopped(get_pte(m, t, d))
           \/ /\ Accounted(get_pte(m, t, d)) /\ SamePages(m, get_pte(m, t, d))
              /\ SameRest(m, get_pte(m, t, d)) /\ Others(m, get_pte(m, t, d), {t})
<1>. DEFINE n == get_pte(m, t, d)
<1>1. m \in Memories
  BY DEF Accounted
<1>2. CASE m.dir[t][d] # None /\ n = m
  BY <1>2 DEF SamePages, SameRest, Others
<1>3. CASE n = Fails(m, 180)
  BY <1>1, <1>3, FailsStops
<1>4. CASE m.dir[t][d] = None /\ \E f \in FreeFrames(m) : n = LinkedTable(m, t, d, f)
  <2>1. PICK f \in FreeFrames(m) : n = LinkedTable(m, t, d, f)
    BY <1>4
  <2>. HIDE DEF n
  <2>2. Owing(n, Nothing) /\ SamePages(m, n) /\ SameRest(m, n) /\ Hung(m, n, t, d, f)
    BY <1>4, <2>1, TableOwing, NothingOwed
  <2>3. Accounted(n) /\ Others(m, n, {t})
    BY <2>2, NothingOwed, OthersHung
  <2>. QED
    BY <2>2, <2>3 DEF n
<1> QED
  BY <1>1, <1>2, <1>3, <1>4, GetPte

LEMMA LinkPageResult ==
    ASSUME NEW m, Accounted(m), m.failed = 0, NEW t \in Tasks, NEW p \in Pages, ~Present(m, t, p)
    PROVE  \/ Stopped(link_page(m, t, p))
           \/ /\ Accounted(link_page(m, t, p)) /\ Linked(m, link_page(m, t, p), t, p)
              /\ Others(m, link_page(m, t, p), {t})
<1>. DEFINE k == get_pte(m, t, Dir(p))
            n == link_page(m, t, p)
<1>1. m \in Memories
  BY DEF Accounted
<1>2. Stopped(k) \/ (Accounted(k) /\ SamePages(m, k) /\ SameRest(m, k) /\ Others(m, k, {t}))
  <2>1. Dir(p) \in Dirs
    BY DirOf
  <2>. HIDE DEF k
  <2>2. PICK d \in Dirs : d = Dir(p)
    BY <2>1
  <2>3. \/ Stopped(get_pte(m, t, d))
        \/ /\ Accounted(get_pte(m, t, d)) /\ SamePages(m, get_pte(m, t, d))
           /\ SameRest(m, get_pte(m, t, d)) /\ Others(m, get_pte(m, t, d), {t})
    BY GetPteResult
  <2>. QED
    BY <2>2, <2>3 DEF k
<1>3. \/ n = Fails(m, 180)
      \/ k.failed # 0 /\ n = k
      \/ /\ k.failed = 0
         /\ \/ n = Fails(k, 180)
            \/ \E f \in FreeFrames(k) : n = LinkedPage(k, t, p, f)
  BY <1>1, LinkPage
<1>. HIDE DEF k, n
<1>4. CASE n = Fails(m, 180)
  BY <1>1, <1>4, FailsStops DEF n
<1>5. CASE k.failed # 0 /\ n = k
  <2>1. Stopped(k)
    BY <1>2, <1>5 DEF SameRest
  <2>. QED
    BY <1>5, <2>1 DEF n
<1>6. ASSUME k.failed = 0
      PROVE  Accounted(k) /\ k \in Memories /\ SamePages(m, k) /\ SameRest(m, k)
             /\ Others(m, k, {t})
  BY <1>2, <1>6 DEF Stopped, Accounted
<1>7. CASE k.failed = 0 /\ n = Fails(k, 180)
  BY <1>6, <1>7, FailsStops DEF n
<1>8. CASE k.failed = 0 /\ \E f \in FreeFrames(k) : n = LinkedPage(k, t, p, f)
  <2>1. PICK f \in FreeFrames(k) : n = LinkedPage(k, t, p, f)
    BY <1>8
  <2>2. ~Present(k, t, p)
    BY <1>6, <1>8 DEF SamePages, Present
  <2>3. Accounted(n) /\ SameRest(k, n) /\ Entered(k, n, t, p, entry_init(f)) /\ SameTables(k, n)
    BY <1>6, <1>8, <2>1, <2>2, PageAccounted
  <2>4. Uses(k, f) = {} /\ f \in Frames
    BY <1>6, <1>8, FreeIsUnused
  <2>5. Uses(m, f) = {}
    BY <1>6, <1>8, <2>4, UsesSame
  <2>6. Entered(m, n, t, p, entry_init(f))
    BY <1>6, <1>8, <2>3 DEF Entered, SamePages
  <2>7. n.failed = 0 /\ n.data = m.data
    BY <1>6, <1>8, <2>3 DEF SameRest
  <2>8. Linked(m, n, t, p)
    BY <2>4, <2>5, <2>6, <2>7 DEF Linked, Fresh
  <2>9. Others(m, n, {t})
    <3>1. Others(k, n, {t}) /\ Others(m, k, {t})
      BY <1>6, <1>8, <2>3, OthersEntered
    <3>2. Others(m, n, {t} \cup {t}) /\ {t} \cup {t} = {t}
      BY <3>1, OthersStep
    <3>. QED
      BY <3>2
  <2>. QED
    BY <2>3, <2>8, <2>9 DEF n
<1> QED
  BY <1>3, <1>4, <1>5, <1>7, <1>8

CopiedPage(m, t, p, f) ==
    Enter([Taken(m, f) EXCEPT !.data[f] = m.data[m.pte[t][p].frame],
                              !.memory_map[m.pte[t][p].frame] = @ - 1], t, p, entry_init(f))

LEMMA CopyPage ==
    ASSUME NEW m, NEW t, NEW p
    PROVE  \/ copy_page(m, t, p) = Fails(m, 180)
           \/ \E f \in FreeFrames(m) : copy_page(m, t, p) = CopiedPage(m, t, p, f)
BY GetPageFinds DEF copy_page, get_page, CopiedPage

\* A page in a frame that others use too gets one of its own.
LEMMA CopiedAccounted ==
    ASSUME NEW m, Accounted(m), m.failed = 0, NEW t \in Tasks, NEW p \in Pages,
           Present(m, t, p), m.memory_map[m.pte[t][p].frame] # 1, NEW f \in FreeFrames(m)
    PROVE  Accounted(CopiedPage(m, t, p, f)) /\ Copied(m, CopiedPage(m, t, p, f), t, p)
           /\ Others(m, CopiedPage(m, t, p, f), {t})
<1>. DEFINE old == m.pte[t][p].frame
            k == Taken(m, f)
            l == [k EXCEPT !.data[f] = m.data[old], !.memory_map[old] = @ - 1]
            n == Enter(l, t, p, entry_init(f))
<1>1. m \in Memories /\ f \in Frames /\ m.memory_map[f] = 0
  BY DEF Accounted, FreeFrames
<1>2. k \in Memories /\ Takes(m, k, f) /\ SamePages(m, k) /\ SameTables(m, k) /\ SameRest(m, k)
  BY <1>1, TakenIs
<1>3. old \in Frames
  BY <1>1, EntryOf
<1>4. Uses(m, f) = {}
  BY FreeIsUnused
<1>5. Uses(m, old) # {}
  <2>1. <<t, p>> \in Tasks \X Pages /\ <<t, p>>[1] = t /\ <<t, p>>[2] = p
    OBVIOUS
  <2>2. <<t, p>> \in Uses(m, old)
    BY <2>1 DEF Uses
  <2>. QED
    BY <2>2
<1>6. old # f
  BY <1>4, <1>5
<1>7. m.memory_map[old] > 1 /\ m.memory_map[old] \in Nat
  BY <1>3, <1>5, CountsSay, NothingOwed DEF Accounted
<1>. HIDE DEF k, old
<1>8. l = [k EXCEPT !.data = [k.data EXCEPT ![f] = m.data[old]],
                    !.memory_map = [k.memory_map EXCEPT ![old] = k.memory_map[old] - 1]]
  BY <1>2 DEF Memories
<1>9. /\ [k.data EXCEPT ![f] = m.data[old]] \in [Frames -> Values]
      /\ [k.memory_map EXCEPT ![old] = k.memory_map[old] - 1] \in [Frames -> Int]
  <2>1. k.data \in [Frames -> Values] /\ m.data[old] \in Values
    BY <1>1, <1>2, <1>3, FieldsOf
  <2>2. k.memory_map \in [Frames -> Int] /\ k.memory_map[old] - 1 \in Int
    BY <1>2, <1>3, FieldsOf
  <2>. QED
    BY <1>1, <1>3, <2>1, <2>2
<1>10. l \in Memories
  BY <1>2, <1>8, <1>9 DEF Memories
<1>11. /\ SamePages(k, l) /\ SameTables(k, l) /\ l.failed = k.failed /\ l.free_pages = k.free_pages
       /\ \A g \in Frames :
            /\ l.data[g] = IF g = f THEN m.data[old] ELSE k.data[g]
            /\ l.memory_map[g] = k.memory_map[g] - Is(old, g)
  <2>1. SamePages(k, l) /\ SameTables(k, l) /\ l.failed = k.failed /\ l.free_pages = k.free_pages
    BY <1>2, <1>8 DEF Memories, SamePages, SameTables
  <2>2. l.data = [k.data EXCEPT ![f] = m.data[old]]
        /\ l.memory_map = [k.memory_map EXCEPT ![old] = k.memory_map[old] - 1]
    BY <1>2, <1>8 DEF Memories
  <2>3. k.data \in [Frames -> Values] /\ k.memory_map \in [Frames -> Int]
    BY <1>2, FieldsOf
  <2>. QED
    BY <2>1, <2>2, <2>3 DEF Is
<1>. HIDE DEF l
<1>12. /\ n \in Memories /\ Entered(l, n, t, p, entry_init(f)) /\ SameCounts(l, n)
       /\ SameTables(l, n) /\ SameRest(l, n)
  BY <1>1, <1>10, EnterIs, InitEntry
<1>. HIDE DEF n
<1>13. Entered(m, n, t, p, entry_init(f)) /\ SameTables(m, n)
  BY <1>2, <1>11, <1>12 DEF Entered, SameTables, SamePages
<1>14. \A g \in Frames : n.memory_map[g] = m.memory_map[g] + Is(f, g) - Is(old, g)
  <2>. SUFFICES ASSUME NEW g \in Frames
                PROVE  n.memory_map[g] = m.memory_map[g] + Is(f, g) - Is(old, g)
    OBVIOUS
  <2>1. n.memory_map[g] = k.memory_map[g] - Is(old, g)
    BY <1>11, <1>12 DEF SameCounts
  <2>2. k.memory_map[g] = m.memory_map[g] + Is(f, g) /\ m.memory_map[g] \in Int
    BY <1>1, <1>2, FieldsOf DEF Takes, Is
  <2>3. Is(f, g) \in Int /\ Is(old, g) \in Int
    BY DEF Is
  <2>. QED
    BY <2>1, <2>2, <2>3
<1>15. n.free_pages = m.free_pages - 1
  BY <1>2, <1>11, <1>12 DEF Takes, SameCounts
<1>16. Counts(n, Nothing)
  <2>. SUFFICES ASSUME NEW g \in Frames
                PROVE  n.memory_map[g] = Cardinality(Uses(n, g)) + Cardinality(Holds(n, g))
                                         + Nothing[g]
    BY DEF Counts
  <2>1. m.memory_map[g] = Cardinality(Uses(m, g)) + Cardinality(Holds(m, g)) + Nothing[g]
    BY DEF Accounted, Counts
  <2>2. Nothing[g] = 0
    BY DEF Nothing
  <2>3. Cardinality(Uses(n, g))
        = Cardinality(Uses(m, g)) - At(m.pte[t][p], g) + At(entry_init(f), g)
    BY <1>1, <1>13, UsesEntered, InitEntry
  <2>4. At(entry_init(f), g) = Is(f, g) /\ Is(f, g) \in Int
    BY <1>1, InitEntry, EntryBits DEF At, Is
  <2>5. At(m.pte[t][p], g) = Is(old, g) /\ Is(old, g) \in Int
    BY DEF At, Is, Present, old
  <2>6. Holds(n, g) = Holds(m, g)
    BY <1>13, HoldsSame
  <2>. QED
    BY <1>14, <2>1, <2>2, <2>3, <2>4, <2>5, <2>6, FiniteUses
<1>17. Frees(n)
  <2>1. FreeFrames(n) = FreeFrames(k)
    <3>1. \A g \in Frames : n.memory_map[g] = k.memory_map[g] - Is(old, g)
      BY <1>11, <1>12 DEF SameCounts
    <3>2. k.memory_map[old] = m.memory_map[old] /\ \A g \in Frames : k.memory_map[g] \in Int
      BY <1>2, <1>3, <1>6, FieldsOf DEF Takes
    <3>. QED
      BY <1>3, <1>7, <3>1, <3>2 DEF FreeFrames, Is
  <2>2. Frees(k)
    BY <1>1, <1>2, FreesTakes DEF Accounted
  <2>3. n.free_pages = k.free_pages
    BY <1>11, <1>12 DEF SameCounts
  <2>. QED
    BY <2>1, <2>2, <2>3 DEF Frees
<1>18. Copied(m, n, t, p)
  <2>1. n.failed = 0
    BY <1>2, <1>11, <1>12 DEF SameRest
  <2>2. \A g \in Frames : n.data[g] = IF g = f THEN m.data[old] ELSE m.data[g]
    BY <1>2, <1>11, <1>12 DEF SameRest
  <2>. QED
    BY <1>1, <1>4, <1>13, <2>1, <2>2 DEF Copied, Fresh, old
<1>19. n = CopiedPage(m, t, p, f)
  BY DEF n, l, k, old, CopiedPage
<1>20. Others(m, n, {t})
  BY <1>13, OthersEntered
<1> QED
  BY <1>12, <1>16, <1>17, <1>18, <1>19, <1>20 DEF Accounted

-----------------------------------------------------------------------------
(* put_pages gives back a frame for each page and table that named it, and *)
(* the entries go with them: unlink_page and free_pde.                     *)

AtPages(m, t, pages, f) == {p \in pages : Present(m, t, p) /\ m.pte[t][p].frame = f}
AtTables(m, t, tables, f) == {d \in tables : m.dir[t][d] = f}

LEMMA NamedIs ==
    ASSUME NEW m, NEW t, NEW pages \in SUBSET Pages, NEW tables \in SUBSET Dirs, NEW f
    PROVE  /\ IsFiniteSet(AtPages(m, t, pages, f)) /\ Cardinality(AtPages(m, t, pages, f)) \in Nat
           /\ IsFiniteSet(AtTables(m, t, tables, f)) /\ Cardinality(AtTables(m, t, tables, f)) \in Nat
           /\ Named(m, t, pages, tables, f)
              = Cardinality(AtPages(m, t, pages, f)) + Cardinality(AtTables(m, t, tables, f))
           /\ Named(m, t, pages, tables, f) \in Nat
<1>1. AtPages(m, t, pages, f) \in SUBSET Pages /\ AtTables(m, t, tables, f) \in SUBSET Dirs
  BY DEF AtPages, AtTables
<1>2. IsFiniteSet(AtPages(m, t, pages, f)) /\ IsFiniteSet(AtTables(m, t, tables, f))
  BY <1>1, FinitePages, FS_Subset
<1>3. Cardinality(AtPages(m, t, pages, f)) \in Nat /\ Cardinality(AtTables(m, t, tables, f)) \in Nat
  BY <1>2, FS_CardinalityType
<1>4. Named(m, t, pages, tables, f)
      = Cardinality(AtPages(m, t, pages, f)) + Cardinality(AtTables(m, t, tables, f))
  BY DEF Named, AtPages, AtTables
<1> QED
  BY <1>2, <1>3, <1>4

Dropped(m, n, t, pages) ==
    \A u \in Tasks, q \in Pages :
        n.pte[u][q] = IF u = t /\ q \in pages THEN None ELSE m.pte[u][q]

TablesDropped(m, n, t, tables) ==
    \A u \in Tasks, d \in Dirs :
        n.dir[u][d] = IF u = t /\ d \in tables THEN None ELSE m.dir[u][d]

LEMMA UsesDropped ==
    ASSUME NEW m, NEW n, NEW t \in Tasks, NEW pages \in SUBSET Pages,
           Dropped(m, n, t, pages), NEW f \in Frames
    PROVE  Cardinality(Uses(m, f))
           = Cardinality(Uses(n, f)) + Cardinality(AtPages(m, t, pages, f))
<1>. DEFINE C == {t} \X AtPages(m, t, pages, f)
<1>1. IsFiniteSet(C) /\ Cardinality(C) = Cardinality(AtPages(m, t, pages, f))
  <2>1. {} \in SUBSET Dirs /\ IsFiniteSet(AtPages(m, t, pages, f))
    BY NamedIs
  <2>. QED
    BY <2>1, Column
<1>2. ASSUME NEW y \in Tasks \X Pages
      PROVE  /\ y \in C <=> y[1] = t /\ y[2] \in pages /\ y \in Uses(m, f)
             /\ y \in Uses(n, f) <=> ~(y[1] = t /\ y[2] \in pages) /\ y \in Uses(m, f)
  <2>1. y[1] \in Tasks /\ y[2] \in Pages /\ y = <<y[1], y[2]>>
    OBVIOUS
  <2>2. y \in C <=> y[1] = t /\ y[2] \in AtPages(m, t, pages, f)
    BY <2>1
  <2>3. n.pte[y[1]][y[2]] = IF y[1] = t /\ y[2] \in pages THEN None ELSE m.pte[y[1]][y[2]]
    BY <2>1 DEF Dropped
  <2>4. y \in C <=> y[1] = t /\ y[2] \in pages /\ y \in Uses(m, f)
    BY <2>1, <2>2 DEF AtPages, Uses
  <2>5. y \in Uses(n, f) <=> ~(y[1] = t /\ y[2] \in pages) /\ y \in Uses(m, f)
    BY <2>1, <2>3 DEF Uses, Present
  <2>. QED
    BY <2>4, <2>5
<1>3. C \subseteq Tasks \X Pages
  BY DEF AtPages
<1>4. Uses(m, f) \subseteq Tasks \X Pages /\ Uses(n, f) \subseteq Tasks \X Pages
  BY DEF Uses
<1>. HIDE DEF C
<1>5. Uses(m, f) = Uses(n, f) \cup C /\ Uses(n, f) \cap C = {}
  BY <1>2, <1>3, <1>4
<1>6. Cardinality(Uses(n, f) \cup C) = Cardinality(Uses(n, f)) + Cardinality(C)
  BY <1>1, <1>5, FiniteUses, Disjoint
<1> QED
  BY <1>1, <1>5, <1>6

LEMMA HoldsDropped ==
    ASSUME NEW m, NEW n, NEW t \in Tasks, NEW tables \in SUBSET Dirs,
           TablesDropped(m, n, t, tables), NEW f \in Frames
    PROVE  Cardinality(Holds(m, f))
           = Cardinality(Holds(n, f)) + Cardinality(AtTables(m, t, tables, f))
<1>. DEFINE C == {t} \X AtTables(m, t, tables, f)
<1>1. IsFiniteSet(C) /\ Cardinality(C) = Cardinality(AtTables(m, t, tables, f))
  <2>1. {} \in SUBSET Pages
    OBVIOUS
  <2>2. IsFiniteSet(AtTables(m, t, tables, f))
    BY <2>1, NamedIs
  <2>. QED
    BY <2>2, Column
<1>2. ASSUME NEW y \in Tasks \X Dirs
      PROVE  /\ y \in C <=> y[1] = t /\ y[2] \in tables /\ y \in Holds(m, f)
             /\ y \in Holds(n, f) <=> ~(y[1] = t /\ y[2] \in tables) /\ y \in Holds(m, f)
  <2>1. y[1] \in Tasks /\ y[2] \in Dirs /\ y = <<y[1], y[2]>>
    OBVIOUS
  <2>2. y \in C <=> y[1] = t /\ y[2] \in AtTables(m, t, tables, f)
    BY <2>1
  <2>3. n.dir[y[1]][y[2]] = IF y[1] = t /\ y[2] \in tables THEN None ELSE m.dir[y[1]][y[2]]
    BY <2>1 DEF TablesDropped
  <2>4. y \in C <=> y[1] = t /\ y[2] \in tables /\ y \in Holds(m, f)
    BY <2>1, <2>2 DEF AtTables, Holds
  <2>5. f # None
    BY MemoryAssumption
  <2>6. y \in Holds(n, f) <=> ~(y[1] = t /\ y[2] \in tables) /\ y \in Holds(m, f)
    BY <2>1, <2>3, <2>5 DEF Holds
  <2>. QED
    BY <2>4, <2>6
<1>3. C \subseteq Tasks \X Dirs
  BY DEF AtTables
<1>4. Holds(m, f) \subseteq Tasks \X Dirs /\ Holds(n, f) \subseteq Tasks \X Dirs
  BY DEF Holds
<1>. HIDE DEF C
<1>5. Holds(m, f) = Holds(n, f) \cup C /\ Holds(n, f) \cap C = {}
  BY <1>2, <1>3, <1>4
<1>6. Cardinality(Holds(n, f) \cup C) = Cardinality(Holds(n, f)) + Cardinality(C)
  BY <1>1, <1>5, FiniteUses, Disjoint
<1> QED
  BY <1>1, <1>5, <1>6

\* What put_pages does to the counts.
Freed(m, t, pages, tables) ==
    {f \in Frames : Named(m, t, pages, tables, f) > 0
                    /\ Named(m, t, pages, tables, f) = m.memory_map[f]}

Puts(m, n, t, pages, tables) ==
    /\ \A f \in Frames : n.memory_map[f] = m.memory_map[f] - Named(m, t, pages, tables, f)
    /\ n.free_pages = m.free_pages + Cardinality(Freed(m, t, pages, tables))

LEMMA PutsAccounted ==
    ASSUME NEW m, Accounted(m), NEW n \in Memories, NEW t \in Tasks,
           NEW pages \in SUBSET Pages, NEW tables \in SUBSET Dirs,
           Dropped(m, n, t, pages), TablesDropped(m, n, t, tables), Puts(m, n, t, pages, tables)
    PROVE  Accounted(n)
<1>1. Counts(n, Nothing)
  <2>. SUFFICES ASSUME NEW f \in Frames
                PROVE  n.memory_map[f] = Cardinality(Uses(n, f)) + Cardinality(Holds(n, f))
                                         + Nothing[f]
    BY DEF Counts
  <2>1. m.memory_map[f] = Cardinality(Uses(m, f)) + Cardinality(Holds(m, f)) + Nothing[f]
    BY DEF Accounted, Counts
  <2>2. Nothing[f] = 0
    BY DEF Nothing
  <2>3. Cardinality(Uses(m, f)) = Cardinality(Uses(n, f)) + Cardinality(AtPages(m, t, pages, f))
    BY UsesDropped
  <2>4. Cardinality(Holds(m, f)) = Cardinality(Holds(n, f)) + Cardinality(AtTables(m, t, tables, f))
    BY HoldsDropped
  <2>5. n.memory_map[f] = m.memory_map[f] - (Cardinality(AtPages(m, t, pages, f))
                                             + Cardinality(AtTables(m, t, tables, f)))
    BY NamedIs DEF Puts
  <2>6. /\ Cardinality(AtPages(m, t, pages, f)) \in Nat
        /\ Cardinality(AtTables(m, t, tables, f)) \in Nat
    BY NamedIs
  <2>. QED
    BY <2>1, <2>2, <2>3, <2>4, <2>5, <2>6, FiniteUses
<1>2. FreeFrames(n) = FreeFrames(m) \cup Freed(m, t, pages, tables)
      /\ FreeFrames(m) \cap Freed(m, t, pages, tables) = {}
  <2>1. ASSUME NEW f \in Frames
        PROVE  /\ f \in FreeFrames(n) <=> (f \in FreeFrames(m) \/ f \in Freed(m, t, pages, tables))
               /\ ~(f \in FreeFrames(m) /\ f \in Freed(m, t, pages, tables))
    <3>. DEFINE a == m.memory_map[f]
                b == n.memory_map[f]
                k == Named(m, t, pages, tables, f)
    <3>1. a \in Nat /\ k \in Nat /\ b = a - k
      BY NamedIs, CountsSay, NothingOwed DEF Accounted, Puts
    <3>2. b \in Nat
      BY <1>1, CountsSay, NothingOwed
    <3>3. /\ f \in FreeFrames(n) <=> b = 0
          /\ f \in FreeFrames(m) <=> a = 0
          /\ f \in Freed(m, t, pages, tables) <=> k > 0 /\ k = a
      BY DEF FreeFrames, Freed
    <3>. HIDE DEF a, b, k
    <3>. QED
      BY <3>1, <3>2, <3>3
  <2>2. FreeFrames(n) \subseteq Frames /\ FreeFrames(m) \subseteq Frames
        /\ Freed(m, t, pages, tables) \subseteq Frames
    BY DEF FreeFrames, Freed
  <2>. QED
    BY <2>1, <2>2
<1>3. IsFiniteSet(Freed(m, t, pages, tables))
  BY FS_Subset, MemoryAssumption DEF Freed
<1>4. Cardinality(FreeFrames(n))
      = Cardinality(FreeFrames(m)) + Cardinality(Freed(m, t, pages, tables))
  BY <1>2, <1>3, FiniteFree, Disjoint
<1>5. Cardinality(FreeFrames(m)) \in Nat /\ Cardinality(Freed(m, t, pages, tables)) \in Nat
      /\ Kernel \in Nat
  BY <1>3, FiniteFree, FS_CardinalityType, MemoryAssumption
<1>6. Frees(n)
  BY <1>4, <1>5 DEF Accounted, Frees, Puts
<1> QED
  BY <1>1, <1>6 DEF Accounted

LEMMA PutPagesIs ==
    ASSUME NEW m \in Memories, NEW t \in Tasks, NEW pages \in SUBSET Pages,
           NEW tables \in SUBSET Dirs
    PROVE  /\ put_pages(m, t, pages, tables) \in Memories
           /\ Puts(m, put_pages(m, t, pages, tables), t, pages, tables)
           /\ SamePages(m, put_pages(m, t, pages, tables))
           /\ SameTables(m, put_pages(m, t, pages, tables))
           /\ SameRest(m, put_pages(m, t, pages, tables))
<1>. DEFINE n == put_pages(m, t, pages, tables)
            map == [f \in Frames |-> m.memory_map[f] - Named(m, t, pages, tables, f)]
            sum == m.free_pages + Cardinality(Freed(m, t, pages, tables))
<1>1. n = [m EXCEPT !.memory_map = map, !.free_pages = sum]
  BY DEF put_pages, Freed, Memories
<1>2. map \in [Frames -> Int]
  <2>1. \A f \in Frames : m.memory_map[f] \in Int /\ Named(m, t, pages, tables, f) \in Int
    BY FieldsOf, NamedIs
  <2>. QED
    BY <2>1
<1>3. sum \in Int
  <2>1. IsFiniteSet(Freed(m, t, pages, tables))
    BY FS_Subset, MemoryAssumption DEF Freed
  <2>2. Cardinality(Freed(m, t, pages, tables)) \in Nat /\ m.free_pages \in Int
    BY <2>1, FS_CardinalityType, FieldsOf
  <2>. QED
    BY <2>2
<1>4. \A f \in Frames : map[f] = m.memory_map[f] - Named(m, t, pages, tables, f)
  OBVIOUS
<1>5. sum = m.free_pages + Cardinality(Freed(m, t, pages, tables))
  OBVIOUS
<1>. HIDE DEF map, sum, n
<1>6. n \in Memories
  BY <1>1, <1>2, <1>3 DEF Memories
<1>7. n.memory_map = map /\ n.free_pages = sum
  BY <1>1 DEF Memories
<1>8. SamePages(m, n) /\ SameTables(m, n) /\ SameRest(m, n)
  BY <1>1 DEF Memories, SamePages, SameTables, SameRest
<1>9. Puts(m, n, t, pages, tables)
  BY <1>4, <1>5, <1>7 DEF Puts
<1> QED
  BY <1>6, <1>8, <1>9 DEF n

LEMMA PutsSame ==
    ASSUME NEW m, NEW k, NEW n, NEW t, NEW pages, NEW tables,
           Puts(m, k, t, pages, tables), SameCounts(k, n)
    PROVE  Puts(m, n, t, pages, tables)
BY DEF Puts, SameCounts

LEMMA UnlinkPages ==
    ASSUME NEW m, Accounted(m), NEW t \in Tasks, NEW pages \in SUBSET Pages
    PROVE  /\ Accounted(unlink_pages(m, t, pages))
           /\ Dropped(m, unlink_pages(m, t, pages), t, pages)
           /\ SameRest(m, unlink_pages(m, t, pages))
           /\ Others(m, unlink_pages(m, t, pages), {t})
<1>. DEFINE k == put_pages(m, t, pages, {})
            row == [p \in Pages |-> IF p \in pages THEN None ELSE k.pte[t][p]]
            n == unlink_pages(m, t, pages)
<1>1. m \in Memories /\ {} \in SUBSET Dirs
  BY DEF Accounted
<1>2. k \in Memories /\ Puts(m, k, t, pages, {}) /\ SamePages(m, k) /\ SameTables(m, k)
      /\ SameRest(m, k)
  BY <1>1, PutPagesIs
<1>3. n = [k EXCEPT !.pte = [k.pte EXCEPT ![t] = [p \in Pages |-> IF p \in pages THEN None ELSE k.pte[t][p]]]]
  <2>1. k.pte \in [Tasks -> [Pages -> Entries \cup {None}]]
    BY <1>2, FieldsOf
  <2>. HIDE DEF k
  <2>. QED
    BY <1>2, <2>1 DEF unlink_pages, k, Memories
<1>. HIDE DEF k
<1>4. row \in [Pages -> Entries \cup {None}]
  BY <1>2, EntryOf
<1>5. \A p \in Pages : row[p] = IF p \in pages THEN None ELSE k.pte[t][p]
  OBVIOUS
<1>6. n = [k EXCEPT !.pte = [k.pte EXCEPT ![t] = row]]
  BY <1>3
<1>. HIDE DEF row, n
<1>7. n \in Memories
  <2>1. [k.pte EXCEPT ![t] = row] \in [Tasks -> [Pages -> Entries \cup {None}]]
    BY <1>2, <1>4, FieldsOf
  <2>. QED
    BY <1>2, <1>6, <2>1 DEF Memories
<1>8. n.pte = [k.pte EXCEPT ![t] = row] /\ SameCounts(k, n) /\ SameTables(k, n) /\ SameRest(k, n)
  BY <1>2, <1>6 DEF Memories, SameCounts, SameTables, SameRest
<1>9. Dropped(m, n, t, pages)
  <2>1. k.pte \in [Tasks -> [Pages -> Entries \cup {None}]]
    BY <1>2, FieldsOf
  <2>. QED
    BY <1>2, <1>5, <1>8, <2>1 DEF Dropped, SamePages
<1>10. SameTables(m, n) /\ SameRest(m, n) /\ Puts(m, n, t, pages, {})
  BY <1>2, <1>8, PutsSame DEF SameTables, SameRest
<1>11. TablesDropped(m, n, t, {})
  BY <1>10 DEF TablesDropped, SameTables
<1>12. Accounted(n)
  BY <1>1, <1>7, <1>9, <1>10, <1>11, PutsAccounted
<1>13. Others(m, n, {t})
  BY <1>9, <1>10 DEF Dropped, SameTables, Others
<1> QED
  BY <1>9, <1>10, <1>12, <1>13 DEF n

LEMMA FreePde ==
    ASSUME NEW m, Accounted(m), NEW t \in Tasks
    PROVE  /\ Accounted(free_pde(m, t)) /\ Dropped(m, free_pde(m, t), t, Pages)
           /\ TablesDropped(m, free_pde(m, t), t, Dirs) /\ SameRest(m, free_pde(m, t))
<1>. DEFINE k == put_pages(m, t, Pages, Dirs)
            row == [p \in Pages |-> None]
            col == [d \in Dirs |-> None]
            n == free_pde(m, t)
<1>1. m \in Memories
  BY DEF Accounted
<1>2. k \in Memories /\ Puts(m, k, t, Pages, Dirs) /\ SamePages(m, k) /\ SameTables(m, k)
      /\ SameRest(m, k)
  BY <1>1, PutPagesIs
<1>3. n = [k EXCEPT !.pte = [k.pte EXCEPT ![t] = row], !.dir = [k.dir EXCEPT ![t] = col]]
  <2>. HIDE DEF k
  <2>. QED
    BY <1>2 DEF free_pde, k, Memories
<1>. HIDE DEF k
<1>4. row \in [Pages -> Entries \cup {None}] /\ col \in [Dirs -> Frames \cup {None}]
  OBVIOUS
<1>5. (\A p \in Pages : row[p] = None) /\ (\A d \in Dirs : col[d] = None)
  OBVIOUS
<1>. HIDE DEF row, col, n
<1>6. /\ k.pte \in [Tasks -> [Pages -> Entries \cup {None}]]
      /\ k.dir \in [Tasks -> [Dirs -> Frames \cup {None}]]
  BY <1>2, FieldsOf
<1>7. n \in Memories
  <2>1. [k.pte EXCEPT ![t] = row] \in [Tasks -> [Pages -> Entries \cup {None}]]
    BY <1>4, <1>6
  <2>2. [k.dir EXCEPT ![t] = col] \in [Tasks -> [Dirs -> Frames \cup {None}]]
    BY <1>4, <1>6
  <2>. QED
    BY <1>2, <1>3, <2>1, <2>2 DEF Memories
<1>8. /\ n.pte = [k.pte EXCEPT ![t] = row] /\ n.dir = [k.dir EXCEPT ![t] = col]
      /\ SameCounts(k, n) /\ SameRest(k, n)
  BY <1>2, <1>3 DEF Memories, SameCounts, SameRest
<1>9. Dropped(m, n, t, Pages)
  BY <1>2, <1>5, <1>6, <1>8 DEF Dropped, SamePages
<1>10. TablesDropped(m, n, t, Dirs)
  BY <1>2, <1>5, <1>6, <1>8 DEF TablesDropped, SameTables
<1>11. SameRest(m, n) /\ Puts(m, n, t, Pages, Dirs)
  BY <1>2, <1>8, PutsSame DEF SameRest
<1>12. Accounted(n)
  BY <1>1, <1>7, <1>9, <1>10, <1>11, PutsAccounted
<1> QED
  BY <1>9, <1>10, <1>11, <1>12 DEF n

-----------------------------------------------------------------------------
(* copy_pde counts every page once more, copies the tables, and then gives *)
(* the child the entries: until then the pages of the child are owed.      *)

Owed(m, t) == [f \in Frames |-> Cardinality(AtPages(m, t, Pages, f))]

Weakens(m, n, t) ==
    \A u \in Tasks, q \in Pages :
        n.pte[u][q] = IF u = t THEN Protected(m.pte[u][q]) ELSE m.pte[u][q]

LEMMA ProtectedIs ==
    ASSUME NEW e \in Entries \cup {None}
    PROVE  /\ Protected(e) \in Entries \cup {None} /\ (Protected(e) = None <=> e = None)
           /\ e # None => /\ Protected(e).frame = e.frame /\ Protected(e).shared = e.shared
                          /\ Protected(e).write => e.write /\ e.shared
<1>1. CASE e = None
  BY <1>1 DEF Protected
<1>2. CASE e # None
  <2>1. e \in Entries
    BY <1>2
  <2>2. Protected(e) = [e EXCEPT !.write = e.write /\ e.shared]
    BY <1>2, <2>1 DEF Protected, Entries
  <2>3. (e.write /\ e.shared) \in BOOLEAN
    BY <2>1, EntryBits
  <2>4. PICK b \in BOOLEAN : b = (e.write /\ e.shared)
    BY <2>3
  <2>5. Protected(e) = [e EXCEPT !.write = b]
    BY <2>2, <2>4
  <2>6. /\ Protected(e) \in Entries /\ Protected(e).frame = e.frame /\ Protected(e).shared = e.shared
        /\ Protected(e).write = b
    BY <2>1, <2>5 DEF Entries
  <2>7. Protected(e) # None
    BY <2>6, MemoryAssumption
  <2>. QED
    BY <1>2, <2>4, <2>6, <2>7
<1> QED
  BY <1>1, <1>2

LEMMA OwedIs ==
    ASSUME NEW m, NEW t
    PROVE  /\ Owed(m, t) \in [Frames -> Nat]
           /\ \A f \in Frames : /\ Owed(m, t)[f] = Cardinality(AtPages(m, t, Pages, f))
                                /\ Named(m, t, Pages, {}, f) = Owed(m, t)[f]
<1>1. ASSUME NEW f \in Frames
      PROVE  /\ Cardinality(AtPages(m, t, Pages, f)) \in Nat
             /\ Named(m, t, Pages, {}, f) = Cardinality(AtPages(m, t, Pages, f))
  <2>1. {} \in SUBSET Dirs /\ Pages \in SUBSET Pages
    OBVIOUS
  <2>2. /\ Cardinality(AtPages(m, t, Pages, f)) \in Nat
        /\ Named(m, t, Pages, {}, f)
           = Cardinality(AtPages(m, t, Pages, f)) + Cardinality(AtTables(m, t, {}, f))
    BY <2>1, NamedIs
  <2>3. AtTables(m, t, {}, f) = {}
    BY DEF AtTables
  <2>4. Cardinality(AtTables(m, t, {}, f)) = 0
    BY <2>3, FS_EmptySet
  <2>. QED
    BY <2>2, <2>4
<1> QED
  BY <1>1 DEF Owed

\* Where the frames are read from the entries: equal frames, equal uses.
SameFrames(m, n) ==
    \A u \in Tasks, q \in Pages :
        /\ n.pte[u][q] = None <=> m.pte[u][q] = None
        /\ m.pte[u][q] # None => n.pte[u][q].frame = m.pte[u][q].frame

LEMMA SameFramesUses ==
    ASSUME NEW m, NEW n, SameFrames(m, n), NEW f
    PROVE  Uses(n, f) = Uses(m, f)
<1>1. ASSUME NEW y \in Tasks \X Pages
      PROVE  y \in Uses(n, f) <=> y \in Uses(m, f)
  <2>1. y[1] \in Tasks /\ y[2] \in Pages
    OBVIOUS
  <2>2. /\ n.pte[y[1]][y[2]] = None <=> m.pte[y[1]][y[2]] = None
        /\ m.pte[y[1]][y[2]] # None => n.pte[y[1]][y[2]].frame = m.pte[y[1]][y[2]].frame
    BY <2>1 DEF SameFrames
  <2>. QED
    BY <2>2 DEF Uses, Present
<1>2. Uses(n, f) \subseteq Tasks \X Pages /\ Uses(m, f) \subseteq Tasks \X Pages
  BY DEF Uses
<1> QED
  BY <1>1, <1>2

LEMMA WeakensFrames ==
    ASSUME NEW m \in Memories, NEW n, NEW t \in Tasks, Weakens(m, n, t)
    PROVE  SameFrames(m, n)
<1>. SUFFICES ASSUME NEW u \in Tasks, NEW q \in Pages
              PROVE  /\ n.pte[u][q] = None <=> m.pte[u][q] = None
                     /\ m.pte[u][q] # None => n.pte[u][q].frame = m.pte[u][q].frame
  BY DEF SameFrames
<1>1. m.pte[u][q] \in Entries \cup {None}
  BY EntryOf
<1>2. n.pte[u][q] = IF u = t THEN Protected(m.pte[u][q]) ELSE m.pte[u][q]
  BY DEF Weakens
<1> QED
  BY <1>1, <1>2, ProtectedIs

LEMMA ShareIs ==
    ASSUME NEW m, Accounted(m), NEW t \in Tasks
    PROVE  /\ Share(m, t) \in Memories /\ Weakens(m, Share(m, t), t)
           /\ SameTables(m, Share(m, t)) /\ SameRest(m, Share(m, t))
           /\ Share(m, t).free_pages = m.free_pages
           /\ \A f \in Frames : Share(m, t).memory_map[f] = m.memory_map[f] + Owed(m, t)[f]
<1>. DEFINE map == [f \in Frames |-> m.memory_map[f] + Named(m, t, Pages, {}, f)]
            row == [p \in Pages |-> Protected(m.pte[t][p])]
            n == Share(m, t)
<1>1. m \in Memories
  BY DEF Accounted
<1>2. Counted(m, t) = [m EXCEPT !.memory_map = map]
  BY <1>1 DEF Counted, Memories
<1>3. n = [m EXCEPT !.memory_map = map, !.pte = [m.pte EXCEPT ![t] = row]]
  <2>1. m.pte \in [Tasks -> [Pages -> Entries \cup {None}]]
    BY <1>1, FieldsOf
  <2>2. Share(m, t) = [Counted(m, t) EXCEPT !.pte = [Counted(m, t).pte EXCEPT ![t] =
            [p \in Pages |-> Protected(Counted(m, t).pte[t][p])]]]
    BY DEF Share
  <2>3. Counted(m, t).pte = m.pte
    BY <1>1, <1>2 DEF Memories
  <2>. HIDE DEF map
  <2>4. n = [Counted(m, t) EXCEPT !.pte = [m.pte EXCEPT ![t] = row]]
    BY <2>2, <2>3
  <2>. QED
    BY <1>1, <1>2, <2>4 DEF Memories
<1>4. map \in [Frames -> Int]
  <2>1. ASSUME NEW f \in Frames
        PROVE  m.memory_map[f] \in Int /\ Named(m, t, Pages, {}, f) \in Int
    <3>1. Owed(m, t)[f] \in Nat /\ Named(m, t, Pages, {}, f) = Owed(m, t)[f]
      BY OwedIs
    <3>. QED
      BY <1>1, <3>1, FieldsOf
  <2>. QED
    BY <2>1
<1>5. row \in [Pages -> Entries \cup {None}]
  <2>1. \A p \in Pages : Protected(m.pte[t][p]) \in Entries \cup {None}
    BY <1>1, EntryOf, ProtectedIs
  <2>. QED
    BY <2>1
<1>6. (\A f \in Frames : map[f] = m.memory_map[f] + Owed(m, t)[f])
      /\ (\A p \in Pages : row[p] = Protected(m.pte[t][p]))
  BY OwedIs
<1>. HIDE DEF map, row, n
<1>7. m.pte \in [Tasks -> [Pages -> Entries \cup {None}]]
  BY <1>1, FieldsOf
<1>8. [m.pte EXCEPT ![t] = row] \in [Tasks -> [Pages -> Entries \cup {None}]]
  BY <1>5, <1>7
<1>9. n \in Memories
  BY <1>1, <1>3, <1>4, <1>8 DEF Memories
<1>10. /\ n.pte = [m.pte EXCEPT ![t] = row] /\ n.memory_map = map
       /\ n.free_pages = m.free_pages /\ SameTables(m, n) /\ SameRest(m, n)
  BY <1>1, <1>3 DEF Memories, SameTables, SameRest
<1>11. Weakens(m, n, t)
  BY <1>6, <1>7, <1>10 DEF Weakens
<1> QED
  BY <1>6, <1>9, <1>10, <1>11 DEF n

LEMMA ShareOwing ==
    ASSUME NEW m, Accounted(m), NEW t \in Tasks
    PROVE  Owing(Share(m, t), Owed(m, t))
<1>. DEFINE n == Share(m, t)
<1>1. m \in Memories
  BY DEF Accounted
<1>2. /\ n \in Memories /\ Weakens(m, n, t) /\ SameTables(m, n) /\ n.free_pages = m.free_pages
      /\ \A f \in Frames : n.memory_map[f] = m.memory_map[f] + Owed(m, t)[f]
  BY ShareIs
<1>. HIDE DEF n
<1>3. ASSUME NEW f \in Frames
      PROVE  Uses(n, f) = Uses(m, f) /\ Holds(n, f) = Holds(m, f)
  BY <1>1, <1>2, WeakensFrames, SameFramesUses, HoldsSame
<1>4. ASSUME NEW f \in Frames
      PROVE  /\ n.memory_map[f] = Cardinality(Uses(n, f)) + Cardinality(Holds(n, f)) + Owed(m, t)[f]
             /\ f \in FreeFrames(n) <=> f \in FreeFrames(m)
  <2>1. m.memory_map[f] = Cardinality(Uses(m, f)) + Cardinality(Holds(m, f)) + Nothing[f]
    BY DEF Accounted, Counts
  <2>2. Nothing[f] = 0
    BY DEF Nothing
  <2>3. Owed(m, t)[f] \in Nat /\ m.memory_map[f] \in Nat
    BY OwedIs, CountsSay, NothingOwed DEF Accounted
  <2>4. m.memory_map[f] = 0 => Owed(m, t)[f] = 0
    <3>1. ASSUME m.memory_map[f] = 0
          PROVE  AtPages(m, t, Pages, f) = {}
      <4>1. Uses(m, f) = {}
        BY <3>1, CountsSay, NothingOwed DEF Accounted
      <4>2. \A p \in Pages : <<t, p>> \in Tasks \X Pages /\ <<t, p>>[1] = t /\ <<t, p>>[2] = p
        OBVIOUS
      <4>3. \A p \in AtPages(m, t, Pages, f) : <<t, p>> \in Uses(m, f)
        BY <4>2 DEF AtPages, Uses
      <4>. QED
        BY <4>1, <4>3
    <3>. QED
      BY <3>1, OwedIs, FS_EmptySet
  <2>5. n.memory_map[f] = 0 <=> m.memory_map[f] = 0
    BY <1>2, <2>3, <2>4
  <2>. QED
    BY <1>2, <1>3, <2>1, <2>2, <2>3, <2>5, FiniteUses DEF FreeFrames
<1>5. FreeFrames(n) = FreeFrames(m)
  BY <1>4 DEF FreeFrames
<1>6. Counts(n, Owed(m, t))
  BY <1>4 DEF Counts
<1>7. Frees(n)
  BY <1>2, <1>5 DEF Accounted, Frees
<1> QED
  BY <1>2, <1>6, <1>7 DEF Owing, n

CopiedTable(m, n, t, c, d) ==
    \/ n = m /\ m.dir[t][d] = None
    \/ m.dir[t][d] # None /\ \E f \in FreeFrames(m) : n = LinkedTable(m, c, d, f)

LEMMA CopyTableIs ==
    ASSUME NEW m \in Memories, m.failed = 0, NEW t, NEW c, NEW d
    PROVE  \/ CopyTable(m, t, c, d) = Fails(m, 180)
           \/ CopiedTable(m, CopyTable(m, t, c, d), t, c, d)
BY GetPageFinds DEF CopyTable, CopiedTable, get_page, LinkedTable

\* The tables of c before and after some of those of the parent were copied.
NoTables(m, c, tables) == \A d \in tables : m.dir[c][d] = None

TablesStep(m, n, c, tables) ==
    \/ Stopped(n)
    \/ /\ n.failed = 0 /\ SamePages(m, n) /\ n.data = m.data /\ NoTables(n, c, tables)
       /\ Others(m, n, {c})

LEMMA CopyTableOwing ==
    ASSUME NEW m, NEW owed \in [Frames -> Nat], Owing(m, owed), m.failed = 0,
           NEW t \in Tasks, NEW c \in Tasks, NEW d \in Dirs, NEW tables \in SUBSET Dirs,
           NoTables(m, c, tables), d \in tables
    PROVE  /\ TablesStep(m, CopyTable(m, t, c, d), c, tables \ {d})
           /\ CopyTable(m, t, c, d).failed = 0 => Owing(CopyTable(m, t, c, d), owed)
<1>. DEFINE n == CopyTable(m, t, c, d)
<1>1. m \in Memories /\ m.dir[c][d] = None
  BY DEF Owing, NoTables
<1>2. n = Fails(m, 180) \/ CopiedTable(m, n, t, c, d)
  BY <1>1, CopyTableIs
<1>. HIDE DEF n
<1>3. CASE n = Fails(m, 180)
  BY <1>1, <1>3, FailsStops DEF n, TablesStep, Stopped
<1>4. CASE n = m
  BY <1>4 DEF n, TablesStep, NoTables, SamePages, Others
<1>5. CASE \E f \in FreeFrames(m) : n = LinkedTable(m, c, d, f)
  <2>1. PICK f \in FreeFrames(m) : n = LinkedTable(m, c, d, f)
    BY <1>5
  <2>2. Owing(n, owed) /\ SamePages(m, n) /\ SameRest(m, n) /\ Hung(m, n, c, d, f)
    BY <1>1, <2>1, TableOwing
  <2>3. NoTables(n, c, tables \ {d})
    BY <2>2 DEF NoTables, Hung
  <2>4. Others(m, n, {c})
    BY <2>2, OthersHung
  <2>. QED
    BY <2>2, <2>3, <2>4 DEF n, TablesStep, SameRest
<1> QED
  BY <1>2, <1>3, <1>4, <1>5 DEF CopiedTable

LEMMA CopyTableStops ==
    ASSUME NEW m, Stopped(m), NEW t, NEW c, NEW d
    PROVE  CopyTable(m, t, c, d) = m
BY DEF Stopped, CopyTable

Three(m, t, c) ==
    CopyTable(CopyTable(CopyTable(m, t, c, "heap"), t, c, "mmap"), t, c, "stack")

LEMMA ThreeOwing ==
    ASSUME NEW m, NEW owed \in [Frames -> Nat], Owing(m, owed), m.failed = 0,
           NEW t \in Tasks, NEW c \in Tasks, NoTables(m, c, Dirs)
    PROVE  \/ Stopped(Three(m, t, c))
           \/ /\ Three(m, t, c).failed = 0 /\ SamePages(m, Three(m, t, c))
              /\ Three(m, t, c).data = m.data /\ Owing(Three(m, t, c), owed)
              /\ Others(m, Three(m, t, c), {c})
<1>. DEFINE a == CopyTable(m, t, c, "heap")
            b == CopyTable(a, t, c, "mmap")
            n == CopyTable(b, t, c, "stack")
            D1 == Dirs \ {"heap"}
            D2 == D1 \ {"mmap"}
<1>1. /\ D1 \in SUBSET Dirs /\ D2 \in SUBSET Dirs /\ "heap" \in Dirs /\ "mmap" \in D1
      /\ "stack" \in D2 /\ Dirs \in SUBSET Dirs /\ "mmap" \in Dirs /\ "stack" \in Dirs
  BY DEF Dirs
<1>2. D2 = D1 \ {"mmap"} /\ D1 = Dirs \ {"heap"}
  OBVIOUS
<1>. HIDE DEF D1, D2
<1>3. TablesStep(m, a, c, D1) /\ (a.failed = 0 => Owing(a, owed))
  <2>1. /\ TablesStep(m, CopyTable(m, t, c, "heap"), c, Dirs \ {"heap"})
        /\ CopyTable(m, t, c, "heap").failed = 0 => Owing(CopyTable(m, t, c, "heap"), owed)
    BY <1>1, CopyTableOwing
  <2>. QED
    BY <1>2, <2>1
<1>. HIDE DEF a
<1>4. CASE ~Stopped(a)
  <2>1. /\ a.failed = 0 /\ SamePages(m, a) /\ a.data = m.data /\ NoTables(a, c, D1)
        /\ Owing(a, owed) /\ Others(m, a, {c})
    BY <1>3, <1>4 DEF TablesStep
  <2>2. TablesStep(a, b, c, D2) /\ (b.failed = 0 => Owing(b, owed))
    <3>1. /\ TablesStep(a, CopyTable(a, t, c, "mmap"), c, D1 \ {"mmap"})
          /\ CopyTable(a, t, c, "mmap").failed = 0 => Owing(CopyTable(a, t, c, "mmap"), owed)
      BY <1>1, <2>1, CopyTableOwing
    <3>. QED
      BY <1>2, <3>1
  <2>. HIDE DEF b
  <2>3. CASE ~Stopped(b)
    <3>1. /\ b.failed = 0 /\ SamePages(a, b) /\ b.data = a.data /\ NoTables(b, c, D2)
          /\ Owing(b, owed) /\ Others(a, b, {c})
      BY <2>2, <2>3 DEF TablesStep
    <3>2. /\ TablesStep(b, CopyTable(b, t, c, "stack"), c, D2 \ {"stack"})
          /\ CopyTable(b, t, c, "stack").failed = 0 => Owing(CopyTable(b, t, c, "stack"), owed)
      BY <1>1, <3>1, CopyTableOwing
    <3>. HIDE DEF n
    <3>3. \/ Stopped(n)
          \/ n.failed = 0 /\ SamePages(b, n) /\ n.data = b.data /\ Owing(n, owed) /\ Others(b, n, {c})
      BY <3>2 DEF TablesStep, n
    <3>4. SamePages(b, n) => SamePages(m, n)
      BY <2>1, <3>1 DEF SamePages
    <3>5. Others(b, n, {c}) => Others(m, n, {c})
      BY <2>1, <3>1 DEF Others
    <3>. QED
      BY <2>1, <3>1, <3>3, <3>4, <3>5 DEF n, b, a, Three
  <2>4. CASE Stopped(b)
    <3>1. n = b
      BY <2>4, CopyTableStops
    <3>. QED
      BY <2>4, <3>1 DEF b, a, Three
  <2>. QED
    BY <2>3, <2>4
<1>5. CASE Stopped(a)
  <2>1. b = a
    BY <1>5, CopyTableStops
  <2>2. n = b
    BY <1>5, <2>1, CopyTableStops
  <2>. QED
    BY <1>5, <2>1, <2>2 DEF a, Three
<1> QED
  BY <1>4, <1>5

Forked(m, n, t, c) ==
    \A u \in Tasks, q \in Pages :
        n.pte[u][q] = IF u = t \/ u = c THEN Protected(m.pte[t][q]) ELSE m.pte[u][q]

NoPages(m, c) == \A q \in Pages : m.pte[c][q] = None

\* The child is given the row of the parent.
GivenRow(m, t, c) == [m EXCEPT !.pte[c] = m.pte[t]]

LEMMA GivenRowIs ==
    ASSUME NEW m \in Memories, NEW t \in Tasks, NEW c \in Tasks
    PROVE  /\ GivenRow(m, t, c) \in Memories /\ SameCounts(m, GivenRow(m, t, c))
           /\ SameTables(m, GivenRow(m, t, c)) /\ SameRest(m, GivenRow(m, t, c))
           /\ \A u \in Tasks : GivenRow(m, t, c).pte[u] = IF u = c THEN m.pte[t] ELSE m.pte[u]
<1>. DEFINE n == GivenRow(m, t, c)
<1>1. n = [m EXCEPT !.pte = [m.pte EXCEPT ![c] = m.pte[t]]]
  BY DEF GivenRow
<1>2. m.pte \in [Tasks -> [Pages -> Entries \cup {None}]]
  BY FieldsOf
<1>3. [m.pte EXCEPT ![c] = m.pte[t]] \in [Tasks -> [Pages -> Entries \cup {None}]]
  BY <1>2
<1>. HIDE DEF n
<1>4. n \in Memories
  BY <1>1, <1>3 DEF Memories
<1>5. /\ n.pte = [m.pte EXCEPT ![c] = m.pte[t]] /\ SameCounts(m, n) /\ SameTables(m, n)
      /\ SameRest(m, n)
  BY <1>1 DEF Memories, SameCounts, SameTables, SameRest
<1>6. \A u \in Tasks : n.pte[u] = IF u = c THEN m.pte[t] ELSE m.pte[u]
  BY <1>2, <1>5
<1> QED
  BY <1>4, <1>5, <1>6 DEF n

LEMMA CopyPdeResult ==
    ASSUME NEW m, Accounted(m), m.failed = 0, NEW t \in Tasks, NEW c \in Tasks, c # t,
           NoPages(m, c), NoTables(m, c, Dirs)
    PROVE  \/ Stopped(copy_pde(m, t, c))
           \/ /\ Accounted(copy_pde(m, t, c)) /\ Forked(m, copy_pde(m, t, c), t, c)
              /\ copy_pde(m, t, c).failed = 0 /\ copy_pde(m, t, c).data = m.data
              /\ Others(m, copy_pde(m, t, c), {t, c})
<1>. DEFINE s == Share(m, t)
            k == Three(s, t, c)
            n == GivenRow(k, t, c)
<1>1. copy_pde(m, t, c) = n
  BY DEF copy_pde, GivenRow, Three
<1>2. /\ s \in Memories /\ Weakens(m, s, t) /\ SameTables(m, s) /\ SameRest(m, s)
      /\ Owing(s, Owed(m, t)) /\ m \in Memories
  BY ShareIs, ShareOwing DEF Accounted
<1>3. s.failed = 0 /\ NoTables(s, c, Dirs)
  BY <1>2 DEF SameRest, SameTables, NoTables
<1>. HIDE DEF s
<1>4. \/ Stopped(k)
      \/ /\ k.failed = 0 /\ SamePages(s, k) /\ k.data = s.data /\ Owing(k, Owed(m, t))
         /\ Others(s, k, {c})
  BY <1>2, <1>3, OwedIs, ThreeOwing
<1>. HIDE DEF k
<1>5. k \in Memories
  BY <1>4 DEF Stopped, Owing
<1>6. /\ n \in Memories /\ SameCounts(k, n) /\ SameTables(k, n) /\ SameRest(k, n)
      /\ \A u \in Tasks : n.pte[u] = IF u = c THEN k.pte[t] ELSE k.pte[u]
  BY <1>5, GivenRowIs
<1>. HIDE DEF n
<1>7. CASE Stopped(k)
  BY <1>1, <1>6, <1>7 DEF Stopped, SameRest
<1>8. CASE ~Stopped(k)
  <2>1. /\ k.failed = 0 /\ SamePages(s, k) /\ k.data = s.data /\ Owing(k, Owed(m, t))
        /\ Others(s, k, {c})
    BY <1>4, <1>8
  <2>2. Forked(m, n, t, c)
    BY <1>2, <1>6, <2>1 DEF Forked, Weakens, SamePages
  <2>3. n.failed = 0 /\ n.data = m.data
    BY <1>2, <1>6, <2>1 DEF SameRest
  <2>4. Dropped(n, k, c, Pages)
    <3>1. \A q \in Pages : k.pte[c][q] = None
      BY <1>2, <2>1 DEF Weakens, SamePages, NoPages
    <3>. QED
      BY <1>6, <3>1 DEF Dropped
  <2>5. ASSUME NEW f \in Frames
        PROVE  AtPages(n, c, Pages, f) = AtPages(m, t, Pages, f)
    <3>1. \A q \in Pages : n.pte[c][q] = Protected(m.pte[t][q])
      BY <2>2 DEF Forked
    <3>2. \A q \in Pages : m.pte[t][q] \in Entries \cup {None}
      BY <1>2, EntryOf
    <3>3. \A q \in Pages : /\ n.pte[c][q] = None <=> m.pte[t][q] = None
                           /\ m.pte[t][q] # None => n.pte[c][q].frame = m.pte[t][q].frame
      BY <3>1, <3>2, ProtectedIs
    <3>. QED
      BY <3>3 DEF AtPages, Present
  <2>6. Counts(n, Nothing)
    <3>. SUFFICES ASSUME NEW f \in Frames
                  PROVE  n.memory_map[f] = Cardinality(Uses(n, f)) + Cardinality(Holds(n, f))
                                           + Nothing[f]
      BY DEF Counts
    <3>1. k.memory_map[f] = Cardinality(Uses(k, f)) + Cardinality(Holds(k, f)) + Owed(m, t)[f]
      BY <2>1 DEF Owing, Counts
    <3>2. Cardinality(Uses(n, f)) = Cardinality(Uses(k, f)) + Cardinality(AtPages(n, c, Pages, f))
      BY <2>4, UsesDropped
    <3>3. Owed(m, t)[f] = Cardinality(AtPages(n, c, Pages, f)) /\ Owed(m, t)[f] \in Nat
      BY <2>5, OwedIs
    <3>4. Holds(n, f) = Holds(k, f) /\ n.memory_map[f] = k.memory_map[f] /\ Nothing[f] = 0
      BY <1>6, HoldsSame DEF SameCounts, Nothing
    <3>. QED
      BY <3>1, <3>2, <3>3, <3>4, FiniteUses
  <2>7. Frees(n)
    BY <1>6, <2>1 DEF Owing, Frees, FreeFrames, SameCounts
  <2>8. Accounted(n)
    BY <1>6, <2>6, <2>7 DEF Accounted
  <2>9. Others(m, n, {t, c})
    <3>1. ASSUME NEW u \in Tasks, u # t, u # c
          PROVE  /\ \A q \in Pages : n.pte[u][q] = m.pte[u][q]
                 /\ \A d \in Dirs : n.dir[u][d] = m.dir[u][d]
      <4>1. \A q \in Pages : n.pte[u][q] = m.pte[u][q]
        BY <2>2, <3>1 DEF Forked
      <4>2. \A d \in Dirs : n.dir[u][d] = m.dir[u][d]
        BY <1>2, <1>6, <2>1, <3>1 DEF Others, SameTables
      <4>. QED
        BY <4>1, <4>2
    <3>. QED
      BY <3>1 DEF Others
  <2>. QED
    BY <1>1, <2>2, <2>3, <2>8, <2>9
<1> QED
  BY <1>7, <1>8

-----------------------------------------------------------------------------
(* Stores, and the pages loaded by exec.                                   *)

Stored(m, t, p, v) == [m EXCEPT !.data[m.pte[t][p].frame] = v]

LEMMA StoredIs ==
    ASSUME NEW m, Accounted(m), NEW t \in Tasks, NEW p \in Pages, Present(m, t, p),
           NEW v \in Values
    PROVE  /\ Accounted(Stored(m, t, p, v)) /\ SamePages(m, Stored(m, t, p, v))
           /\ SameTables(m, Stored(m, t, p, v))
           /\ Stored(m, t, p, v).failed = m.failed
           /\ \A f \in Frames : Stored(m, t, p, v).data[f]
                                = IF f = m.pte[t][p].frame THEN v ELSE m.data[f]
<1>. DEFINE old == m.pte[t][p].frame
            n == Stored(m, t, p, v)
<1>1. m \in Memories /\ old \in Frames
  BY EntryOf DEF Accounted
<1>2. n = [m EXCEPT !.data = [m.data EXCEPT ![old] = v]]
  BY DEF Stored
<1>3. m.data \in [Frames -> Values]
  BY <1>1, FieldsOf
<1>. HIDE DEF old, n
<1>4. [m.data EXCEPT ![old] = v] \in [Frames -> Values]
  BY <1>1, <1>3
<1>5. n \in Memories
  BY <1>1, <1>2, <1>4 DEF Memories
<1>6. /\ n.data = [m.data EXCEPT ![old] = v] /\ SamePages(m, n) /\ SameTables(m, n)
      /\ SameCounts(m, n) /\ n.failed = m.failed
  BY <1>1, <1>2 DEF Memories, SamePages, SameTables, SameCounts
<1>7. \A f \in Frames : n.data[f] = IF f = old THEN v ELSE m.data[f]
  BY <1>3, <1>6
<1>8. Counts(n, Nothing)
  BY <1>6, UsesSame, HoldsSame DEF Accounted, Counts, SameCounts
<1>9. Frees(n)
  BY <1>6 DEF Accounted, Frees, FreeFrames, SameCounts
<1> QED
  BY <1>5, <1>6, <1>7, <1>8, <1>9 DEF Accounted, n, old

LEMMA StoreIs ==
    ASSUME NEW m, NEW t, NEW p, NEW v
    PROVE  /\ m.failed = 0 => Store(m, t, p, v) = Stored(m, t, p, v)
           /\ m.failed # 0 => Store(m, t, p, v) = m
BY DEF Store, Stored

-----------------------------------------------------------------------------
(* A page fault                                                            *)

Writable(e) == [e EXCEPT !.write = TRUE]

\* The page was linked; or copied; or it was the last in its frame.
Faulted(m, n, t, p, b) ==
    \/ ~Present(m, t, p) /\ (p < b \/ p = Stack) /\ Linked(m, n, t, p)
    \/ /\ Present(m, t, p) /\ ~m.pte[t][p].shared
       /\ \/ Copied(m, n, t, p)
          \/ /\ m.memory_map[m.pte[t][p].frame] = 1 /\ SameRest(m, n)
             /\ Entered(m, n, t, p, Writable(m.pte[t][p]))

LEMMA WritableIs ==
    ASSUME NEW e \in Entries
    PROVE  /\ Writable(e) \in Entries /\ Writable(e).frame = e.frame
           /\ Writable(e).shared = e.shared /\ Writable(e).write
BY DEF Writable, Entries

\* A step of t leaves the counts in order, or the kernel stops.
Goes(m, n, S) == Accounted(n) /\ n.failed = 0 /\ Others(m, n, S)

LEMMA PageFaultResult ==
    ASSUME NEW m, Accounted(m), m.failed = 0, NEW t \in Tasks, NEW p \in Pages
    PROVE  \/ Stopped(page_fault(m, t, p))
           \/ /\ Goes(m, page_fault(m, t, p), {t})
              /\ Faulted(m, page_fault(m, t, p), t, p, task[t].brk)
<1>. DEFINE n == page_fault(m, t, p)
<1>1. m \in Memories
  BY DEF Accounted
<1>2. \A line \in Int : line # 0 => Stopped(Fails(m, line))
  BY <1>1, FailsIs DEF Stopped
<1>3. CASE ~Present(m, t, p)
  <2>1. CASE p < task[t].brk \/ p = Stack
    <3>1. n = link_page(m, t, p)
      BY <1>3, <2>1 DEF page_fault, AbsentFault
    <3>. HIDE DEF n
    <3>2. \/ Stopped(n)
          \/ Accounted(n) /\ Linked(m, n, t, p) /\ Others(m, n, {t})
      BY <1>3, <3>1, LinkPageResult
    <3>. QED
      BY <1>3, <2>1, <3>2 DEF n, Goes, Faulted, Linked
  <2>2. CASE ~(p < task[t].brk \/ p = Stack)
    <3>1. n = Fails(m, 712)
      BY <1>3, <2>2 DEF page_fault, AbsentFault
    <3>. QED
      BY <1>2, <3>1
  <2>. QED
    BY <2>1, <2>2
<1>4. CASE Present(m, t, p)
  <2>. DEFINE e == m.pte[t][p]
  <2>1. e \in Entries
    BY <1>1, <1>4, EntryOf
  <2>2. n = WriteFault(m, t, p)
    BY <1>4 DEF page_fault
  <2>3. CASE e.shared
    <3>1. n = Fails(m, 682)
      BY <2>2, <2>3 DEF WriteFault
    <3>. QED
      BY <1>2, <3>1
  <2>4. CASE ~e.shared /\ e.readonly
    <3>1. n = Fails(m, 683)
      BY <2>2, <2>4 DEF WriteFault
    <3>. QED
      BY <1>2, <3>1
  <2>5. CASE ~e.shared /\ ~e.readonly /\ m.memory_map[e.frame] = 1
    <3>1. n = Enter(m, t, p, Writable(e))
      BY <2>2, <2>5 DEF WriteFault, Writable
    <3>. HIDE DEF n, e
    <3>2. Accounted(n) /\ Others(m, n, {t}) /\ Entered(m, n, t, p, Writable(e)) /\ SameRest(m, n)
      BY <1>4, <2>1, <3>1, BitsAccounted, WritableIs DEF e
    <3>. QED
      BY <1>4, <2>5, <3>2 DEF n, e, Goes, Faulted, SameRest
  <2>6. CASE ~e.shared /\ ~e.readonly /\ m.memory_map[e.frame] # 1
    <3>1. n = copy_page(m, t, p)
      BY <2>2, <2>6 DEF WriteFault
    <3>2. n = Fails(m, 180) \/ \E f \in FreeFrames(m) : n = CopiedPage(m, t, p, f)
      BY <3>1, CopyPage
    <3>. HIDE DEF n
    <3>3. CASE n = Fails(m, 180)
      BY <1>2, <3>3 DEF n
    <3>4. CASE \E f \in FreeFrames(m) : n = CopiedPage(m, t, p, f)
      <4>1. PICK f \in FreeFrames(m) : n = CopiedPage(m, t, p, f)
        BY <3>4
      <4>2. Accounted(n) /\ Copied(m, n, t, p) /\ Others(m, n, {t})
        BY <1>4, <2>6, <4>1, CopiedAccounted
      <4>. QED
        BY <1>4, <2>6, <4>2 DEF n, Goes, Faulted, Copied
    <3>. QED
      BY <3>2, <3>3, <3>4
  <2>. QED
    BY <2>1, <2>3, <2>4, <2>5, <2>6, EntryBits
<1> QED
  BY <1>3, <1>4

LEMMA OthersSelf == \A m, S : Others(m, m, S)
BY DEF Others

LEMMA GoesStep ==
    ASSUME NEW m, NEW k, NEW n, NEW S, Goes(m, k, S), Goes(k, n, S)
    PROVE  Goes(m, n, S)
<1>1. Others(m, n, S \cup S) /\ S \cup S = S
  BY OthersStep DEF Goes
<1> QED
  BY <1>1 DEF Goes

LEMMA EnteredPresent ==
    ASSUME NEW m, NEW n, NEW t \in Tasks, NEW p \in Pages, NEW e \in Entries,
           Entered(m, n, t, p, e)
    PROVE  Present(n, t, p) /\ n.pte[t][p] = e
<1>1. n.pte[t][p] = e
  BY DEF Entered
<1> QED
  BY <1>1, EntryBits DEF Present

LEMMA FreshPresent ==
    ASSUME NEW m, NEW n, NEW t \in Tasks, NEW p \in Pages, NEW f \in Frames, Fresh(m, n, t, p, f)
    PROVE  /\ Present(n, t, p) /\ n.pte[t][p].write /\ ~n.pte[t][p].shared
           /\ n.pte[t][p].frame = f
BY InitEntry, EnteredPresent DEF Fresh

LEMMA FaultedPresent ==
    ASSUME NEW m, Accounted(m), NEW n, NEW t \in Tasks, NEW p \in Pages, NEW b,
           Faulted(m, n, t, p, b)
    PROVE  Present(n, t, p) /\ n.pte[t][p].write /\ ~n.pte[t][p].shared
<1>1. CASE Linked(m, n, t, p)
  BY <1>1, FreshPresent DEF Linked
<1>2. CASE Copied(m, n, t, p)
  BY <1>2, FreshPresent DEF Copied
<1>3. CASE /\ Present(m, t, p) /\ ~m.pte[t][p].shared
           /\ Entered(m, n, t, p, Writable(m.pte[t][p]))
  <2>1. m.pte[t][p] \in Entries
    BY <1>3, EntryOf DEF Accounted
  <2>. QED
    BY <1>3, <2>1, WritableIs, EnteredPresent
<1> QED
  BY <1>1, <1>2, <1>3 DEF Faulted

LEMMA StoredGoes ==
    ASSUME NEW m, Accounted(m), m.failed = 0, NEW t \in Tasks, NEW p \in Pages,
           Present(m, t, p), NEW v \in Values
    PROVE  Store(m, t, p, v) = Stored(m, t, p, v) /\ Goes(m, Store(m, t, p, v), {t})
<1>1. Store(m, t, p, v) = Stored(m, t, p, v)
  BY StoreIs
<1>2. /\ Accounted(Stored(m, t, p, v)) /\ SamePages(m, Stored(m, t, p, v))
      /\ SameTables(m, Stored(m, t, p, v)) /\ Stored(m, t, p, v).failed = m.failed
  BY StoredIs
<1> QED
  BY <1>1, <1>2, OthersSame DEF Goes

\* A store, after a fault where faults says so.
FaultStore(m, t, p, v, faults) == Store(IF faults THEN page_fault(m, t, p) ELSE m, t, p, v)

\* k after the fault, if there was one.
StoredBy(m, n, t, p, v, faults, b) ==
    \E k : /\ Goes(m, k, {t}) /\ Present(k, t, p) /\ n = Stored(k, t, p, v)
           /\ ~faults => k = m
           /\ faults => Faulted(m, k, t, p, b)

LEMMA FaultStoreResult ==
    ASSUME NEW m, Accounted(m), m.failed = 0, NEW t \in Tasks, NEW p \in Pages, NEW v \in Values,
           NEW faults \in BOOLEAN, ~faults => Present(m, t, p)
    PROVE  \/ Stopped(FaultStore(m, t, p, v, faults))
           \/ /\ Goes(m, FaultStore(m, t, p, v, faults), {t})
              /\ StoredBy(m, FaultStore(m, t, p, v, faults), t, p, v, faults, task[t].brk)
<1>. DEFINE k == IF faults THEN page_fault(m, t, p) ELSE m
            n == Store(k, t, p, v)
<1>1. n = FaultStore(m, t, p, v, faults)
  BY DEF FaultStore
<1>2. \/ faults /\ Stopped(k)
      \/ /\ Goes(m, k, {t}) /\ Present(k, t, p)
         /\ ~faults => k = m
         /\ faults => Faulted(m, k, t, p, task[t].brk)
  <2>1. CASE faults
    <3>1. k = page_fault(m, t, p)
      BY <2>1
    <3>. HIDE DEF k
    <3>2. Stopped(k) \/ (Goes(m, k, {t}) /\ Faulted(m, k, t, p, task[t].brk))
      BY <3>1, PageFaultResult
    <3>. QED
      BY <2>1, <3>2, FaultedPresent
  <2>2. CASE ~faults
    BY <2>2, OthersSelf DEF Goes
  <2>. QED
    BY <2>1, <2>2
<1>. HIDE DEF k
<1>3. CASE Stopped(k)
  <2>1. n = k
    BY <1>3, StoreIs DEF Stopped
  <2>. QED
    BY <1>1, <1>3, <2>1
<1>4. CASE /\ Goes(m, k, {t}) /\ Present(k, t, p)
           /\ ~faults => k = m
           /\ faults => Faulted(m, k, t, p, task[t].brk)
  <2>1. n = Stored(k, t, p, v) /\ Goes(k, n, {t})
    BY <1>4, StoredGoes DEF Goes
  <2>. HIDE DEF n
  <2>2. Goes(m, n, {t})
    BY <1>4, <2>1, GoesStep
  <2>3. StoredBy(m, n, t, p, v, faults, task[t].brk)
    BY <1>4, <2>1 DEF StoredBy
  <2>. QED
    BY <1>1, <2>2, <2>3
<1> QED
  BY <1>2, <1>3, <1>4

LEMMA LinkOrNot ==
    ASSUME NEW m, Accounted(m), m.failed = 0, NEW t \in Tasks, NEW p \in Pages
    PROVE  \/ Stopped(link_page(m, t, p))
           \/ /\ Goes(m, link_page(m, t, p), {t}) /\ Present(link_page(m, t, p), t, p)
              /\ ~Present(m, t, p) => Linked(m, link_page(m, t, p), t, p)
<1>1. CASE Present(m, t, p)
  <2>1. link_page(m, t, p) = m
    BY <1>1 DEF link_page
  <2>. QED
    BY <1>1, <2>1, OthersSelf DEF Goes
<1>2. CASE ~Present(m, t, p)
  <2>1. \/ Stopped(link_page(m, t, p))
        \/ /\ Accounted(link_page(m, t, p)) /\ Linked(m, link_page(m, t, p), t, p)
           /\ Others(m, link_page(m, t, p), {t})
    BY <1>2, LinkPageResult
  <2>2. Linked(m, link_page(m, t, p), t, p)
        => Present(link_page(m, t, p), t, p) /\ link_page(m, t, p).failed = 0
    BY FreshPresent DEF Linked
  <2>. QED
    BY <2>1, <2>2 DEF Goes
<1> QED
  BY <1>1, <1>2

\* n has other bits in the entry p of t; shared is never taken back.
Rebit(m, n, t, p, shared) ==
    \E e \in Entries :
        /\ e.frame = m.pte[t][p].frame
        /\ e.shared <=> m.pte[t][p].shared \/ shared
        /\ n = Enter(m, t, p, e)

LEMMA RebitGoes ==
    ASSUME NEW m, Accounted(m), m.failed = 0, NEW t \in Tasks, NEW p \in Pages,
           Present(m, t, p), NEW shared \in BOOLEAN, NEW n, Rebit(m, n, t, p, shared)
    PROVE  /\ Goes(m, n, {t}) /\ Present(n, t, p) /\ n.data = m.data
           /\ \E e \in Entries : /\ e.frame = m.pte[t][p].frame
                                 /\ e.shared <=> m.pte[t][p].shared \/ shared
                                 /\ Entered(m, n, t, p, e)
<1>1. PICK e \in Entries : /\ e.frame = m.pte[t][p].frame
                           /\ e.shared <=> m.pte[t][p].shared \/ shared
                           /\ n = Enter(m, t, p, e)
  BY DEF Rebit
<1>2. Accounted(n) /\ Others(m, n, {t}) /\ Entered(m, n, t, p, e) /\ SameRest(m, n)
  BY <1>1, BitsAccounted
<1>3. Present(n, t, p)
  BY <1>2, EnteredPresent
<1> QED
  BY <1>1, <1>2, <1>3 DEF Goes, SameRest

LEMMA AllowRebits ==
    ASSUME NEW m \in Memories, NEW t \in Tasks, NEW p \in Pages, Present(m, t, p),
           NEW write \in BOOLEAN, NEW shared \in BOOLEAN
    PROVE  /\ Rebit(m, Allow(m, t, p, write, shared), t, p, shared)
           /\ Allow(m, t, p, write, shared).pte[t][p].write <=> write
<1>. DEFINE old == m.pte[t][p]
            e == [old EXCEPT !.write = write, !.readonly = ~write, !.shared = old.shared \/ shared]
<1>1. old \in Entries
  BY EntryOf
<1>2. Allow(m, t, p, write, shared) = Enter(m, t, p, e)
  BY DEF Allow
<1>. HIDE DEF old
<1>3. (old.shared \/ shared) \in BOOLEAN /\ (~write) \in BOOLEAN
  BY <1>1, EntryBits
<1>4. PICK a, b \in BOOLEAN : a = (old.shared \/ shared) /\ b = ~write
  BY <1>3
<1>5. e = [old EXCEPT !.write = write, !.readonly = b, !.shared = a]
  BY <1>4
<1>6. e \in Entries /\ e.frame = old.frame /\ e.shared = a /\ e.write = write
  BY <1>1, <1>5 DEF Entries
<1>. HIDE DEF e
<1>7. Enter(m, t, p, e).pte[t][p] = e
  BY <1>6, EnterIs DEF Entered
<1>8. Rebit(m, Allow(m, t, p, write, shared), t, p, shared)
  BY <1>2, <1>4, <1>6 DEF Rebit, old
<1> QED
  BY <1>2, <1>6, <1>7, <1>8

LoadBits(e, write) == [e EXCEPT !.write = @ /\ write, !.readonly = @ \/ ~write]

LEMMA LoadRebits ==
    ASSUME NEW m \in Memories, NEW t \in Tasks, NEW p \in Pages, Present(m, t, p),
           NEW write \in BOOLEAN
    PROVE  Rebit(m, Enter(m, t, p, LoadBits(m.pte[t][p], write)), t, p, FALSE)
<1>. DEFINE old == m.pte[t][p]
            e == LoadBits(old, write)
<1>1. old \in Entries
  BY EntryOf
<1>. HIDE DEF old
<1>3. (old.write /\ write) \in BOOLEAN /\ (old.readonly \/ ~write) \in BOOLEAN
  BY <1>1, EntryBits
<1>4. PICK a, b \in BOOLEAN : a = (old.write /\ write) /\ b = (old.readonly \/ ~write)
  BY <1>3
<1>5. e = [old EXCEPT !.write = a, !.readonly = b]
  BY <1>4 DEF LoadBits
<1>6. e \in Entries /\ e.frame = old.frame /\ e.shared = old.shared
  BY <1>1, <1>5 DEF Entries
<1>. HIDE DEF e
<1>7. old.shared \in BOOLEAN
  BY <1>1, EntryBits
<1>8. e.shared <=> old.shared \/ FALSE
  BY <1>6, <1>7
<1> QED
  BY <1>6, <1>8 DEF Rebit, old, e

-----------------------------------------------------------------------------
(* mmap and the loading of a program                                       *)

Mapped(m, t, p, write, shared, file) ==
    LET linked == link_page(m, t, p)
        mapped == Allow(linked, t, p, write, shared)
    IN  IF linked.failed # 0 THEN linked
        ELSE IF file THEN Store(mapped, t, p, Program) ELSE mapped

\* k after the page was linked, a with its bits set.
MappedBy(m, n, t, p, write, shared, file, k, a) ==
    /\ Goes(m, k, {t}) /\ Present(k, t, p)
    /\ ~Present(m, t, p) => Linked(m, k, t, p)
    /\ Present(m, t, p) => k = m
    /\ Rebit(k, a, t, p, shared) /\ Goes(k, a, {t}) /\ (a.pte[t][p].write <=> write)
    /\ n = IF file THEN Stored(a, t, p, Program) ELSE a

MappedSo(m, n, t, p, write, shared, file) ==
    \E k, a : MappedBy(m, n, t, p, write, shared, file, k, a)

LEMMA ProgramIs == Program \in Values
BY MemoryAssumption

LEMMA MappedResult ==
    ASSUME NEW m, Accounted(m), m.failed = 0, NEW t \in Tasks, NEW p \in Pages,
           NEW write \in BOOLEAN, NEW shared \in BOOLEAN, NEW file \in BOOLEAN
    PROVE  \/ Stopped(Mapped(m, t, p, write, shared, file))
           \/ /\ Goes(m, Mapped(m, t, p, write, shared, file), {t})
              /\ MappedSo(m, Mapped(m, t, p, write, shared, file), t, p, write, shared, file)
<1>. DEFINE k == link_page(m, t, p)
            a == Allow(k, t, p, write, shared)
            n == Mapped(m, t, p, write, shared, file)
<1>1. n = IF k.failed # 0 THEN k ELSE IF file THEN Store(a, t, p, Program) ELSE a
  BY DEF Mapped
<1>2. \/ Stopped(k)
      \/ /\ Goes(m, k, {t}) /\ Present(k, t, p)
         /\ ~Present(m, t, p) => Linked(m, k, t, p)
  BY LinkOrNot
<1>5. Present(m, t, p) => k = m
  BY DEF link_page
<1>. HIDE DEF k, n
<1>3. CASE Stopped(k)
  BY <1>1, <1>3 DEF Stopped, n
<1>4. CASE /\ Goes(m, k, {t}) /\ Present(k, t, p)
           /\ ~Present(m, t, p) => Linked(m, k, t, p)
  <2>1. k.failed = 0 /\ Accounted(k) /\ k \in Memories
    BY <1>4 DEF Goes, Accounted
  <2>2. Rebit(k, a, t, p, shared) /\ (a.pte[t][p].write <=> write)
    BY <1>4, <2>1, AllowRebits
  <2>. HIDE DEF a
  <2>3. Goes(k, a, {t}) /\ Present(a, t, p)
    BY <1>4, <2>1, <2>2, RebitGoes
  <2>4. Store(a, t, p, Program) = Stored(a, t, p, Program) /\ Goes(a, Store(a, t, p, Program), {t})
    BY <2>3, StoredGoes, ProgramIs DEF Goes
  <2>5. n = IF file THEN Stored(a, t, p, Program) ELSE a
    BY <1>1, <2>1, <2>4
  <2>6. Goes(k, n, {t})
    BY <2>3, <2>4, <2>5, GoesStep
  <2>7. Goes(m, n, {t})
    BY <1>4, <2>6, GoesStep
  <2>8. MappedBy(m, n, t, p, write, shared, file, k, a)
    BY <1>4, <1>5, <2>2, <2>3, <2>5 DEF MappedBy
  <2>. QED
    BY <2>7, <2>8 DEF n, MappedSo
<1> QED
  BY <1>2, <1>3, <1>4

\* k after the page was linked, b with the page read.
LoadedBy(m, n, t, p, k, b) ==
    /\ Goes(m, k, {t}) /\ Present(k, t, p)
    /\ ~Present(m, t, p) => Linked(m, k, t, p)
    /\ b = Stored(k, t, p, Program) /\ Goes(k, b, {t})
    /\ Rebit(b, n, t, p, FALSE)

LoadedSo(m, n, t, p) == \E k, b : LoadedBy(m, n, t, p, k, b)

LEMMA LoadResult ==
    ASSUME NEW m, Accounted(m), m.failed = 0, NEW t \in Tasks, NEW p \in Pages,
           NEW write \in BOOLEAN
    PROVE  \/ Stopped(Load(m, t, p, write))
           \/ /\ Goes(m, Load(m, t, p, write), {t})
              /\ LoadedSo(m, Load(m, t, p, write), t, p)
<1>. DEFINE k == link_page(m, t, p)
            b == Store(k, t, p, Program)
            n == Load(m, t, p, write)
<1>1. n = IF k.failed # 0 THEN k ELSE Enter(b, t, p, LoadBits(b.pte[t][p], write))
  BY DEF Load, LoadBits
<1>2. \/ Stopped(k)
      \/ /\ Goes(m, k, {t}) /\ Present(k, t, p)
         /\ ~Present(m, t, p) => Linked(m, k, t, p)
  BY LinkOrNot
<1>. HIDE DEF k, n
<1>3. CASE Stopped(k)
  BY <1>1, <1>3 DEF Stopped, n
<1>4. CASE /\ Goes(m, k, {t}) /\ Present(k, t, p)
           /\ ~Present(m, t, p) => Linked(m, k, t, p)
  <2>1. k.failed = 0 /\ Accounted(k)
    BY <1>4 DEF Goes
  <2>2. b = Stored(k, t, p, Program) /\ Goes(k, b, {t})
    BY <1>4, <2>1, StoredGoes, ProgramIs
  <2>3. SamePages(k, Stored(k, t, p, Program))
    BY <1>4, <2>1, StoredIs, ProgramIs
  <2>. HIDE DEF b
  <2>4. Present(b, t, p)
    BY <1>4, <2>2, <2>3 DEF Present, SamePages
  <2>5. b \in Memories /\ Accounted(b) /\ b.failed = 0
    BY <2>2 DEF Goes, Accounted
  <2>6. n = Enter(b, t, p, LoadBits(b.pte[t][p], write))
    BY <1>1, <2>1
  <2>7. Rebit(b, n, t, p, FALSE)
    BY <2>4, <2>5, <2>6, LoadRebits
  <2>8. Goes(b, n, {t})
    <3>1. FALSE \in BOOLEAN
      OBVIOUS
    <3>. QED
      BY <2>4, <2>5, <2>7, <3>1, RebitGoes
  <2>9. Goes(k, n, {t})
    BY <2>2, <2>8, GoesStep
  <2>10. Goes(m, n, {t})
    BY <1>4, <2>9, GoesStep
  <2>11. LoadedBy(m, n, t, p, k, b)
    BY <1>4, <2>2, <2>7 DEF LoadedBy
  <2>. QED
    BY <2>10, <2>11 DEF n, LoadedSo
<1> QED
  BY <1>2, <1>3, <1>4

\* Every nonempty set of naturals has a least element: a statement about every
\* n is proved from a least n for which it fails.
LEMMA LeastNumber ==
    ASSUME NEW T \in SUBSET Nat, T # {}
    PROVE  \E x \in T : \A y \in T : x <= y
<1>1. IsWellFoundedOn({ss \in Nat \X Nat : ss[1] < ss[2]}, Nat)
  BY NatLessThanWellFounded DEF OpToRel
<1>2. PICK x \in T : \A y \in T : <<y, x>> \notin {ss \in Nat \X Nat : ss[1] < ss[2]}
  BY <1>1, WFMin
<1>3. \A y \in T : y \in Nat /\ x \in Nat /\ ~(y < x)
  BY <1>2
<1> QED
  BY <1>3

LoadStep(m, t, data, g, p) ==
    IF p = 0 THEN m
    ELSE IF g[p - 1].failed # 0 THEN g[p - 1]
    ELSE Load(g[p - 1], t, p, p >= data)

LoadSeq(m, t, n, data) == CHOOSE g : g = [p \in 0 .. n |-> LoadStep(m, t, data, g, p)]

\* The loop over the pages of a program is well defined.
LEMMA LoadUnrolls ==
    ASSUME NEW m, NEW t, NEW n \in Nat, NEW data
    PROVE  LoadSeq(m, t, n, data)
           = [p \in 0 .. n |-> LoadStep(m, t, data, LoadSeq(m, t, n, data), p)]
<1>. DEFINE Unrolled(k, g) == g = [p \in 0 .. k |-> LoadStep(m, t, data, g, p)]
            Stuck == {k \in Nat : ~ \E g : Unrolled(k, g)}
<1>1. Stuck \in SUBSET Nat
  OBVIOUS
<1>. HIDE DEF Stuck
<1>2. ASSUME Stuck # {}
      PROVE  FALSE
  <2>1. PICK x \in Stuck : \A y \in Stuck : x <= y
    BY <1>1, <1>2, LeastNumber
  <2>2. x \in Nat /\ ~ \E g : Unrolled(x, g)
    BY <2>1 DEF Stuck
  <2>3. x # 0
    <3>1. ASSUME x = 0
          PROVE  Unrolled(0, [p \in 0 .. 0 |-> m])
      <4>1. \A p \in 0 .. 0 : LoadStep(m, t, data, [q \in 0 .. 0 |-> m], p) = m
        BY DEF LoadStep
      <4>. QED
        BY <4>1
    <3>. QED
      BY <2>2, <3>1
  <2>4. x - 1 \in Nat /\ x - 1 \notin Stuck
    BY <2>1, <2>2, <2>3
  <2>5. PICK g : Unrolled(x - 1, g)
    BY <2>4 DEF Stuck
  <2>. DEFINE h == [p \in 0 .. x |-> IF p < x THEN g[p] ELSE LoadStep(m, t, data, g, x)]
  <2>6. Unrolled(x, h)
    <3>1. ASSUME NEW p \in 0 .. x
          PROVE  h[p] = LoadStep(m, t, data, h, p)
      <4>1. p # 0 => h[p - 1] = g[p - 1]
        BY <2>2
      <4>2. LoadStep(m, t, data, h, p) = LoadStep(m, t, data, g, p)
        <5>. HIDE DEF h
        <5>. QED
          BY <4>1 DEF LoadStep
      <4>3. CASE p < x
        <5>1. p \in 0 .. x - 1
          BY <2>2, <4>3
        <5>2. g[p] = LoadStep(m, t, data, g, p)
          BY <2>5, <5>1
        <5>. QED
          BY <4>2, <4>3, <5>2
      <4>4. CASE p = x
        BY <2>2, <4>2, <4>4
      <4>. QED
        BY <2>2, <4>3, <4>4
    <3>. QED
      BY <3>1
  <2>. QED
    BY <2>2, <2>6
<1>3. \E g : Unrolled(n, g)
  BY <1>2 DEF Stuck
<1> QED
  BY <1>3 DEF LoadSeq

LEMMA LoadElf ==
    ASSUME NEW m, NEW t, NEW n \in Nat, NEW data
    PROVE  /\ load_elf(m, t, n, data) = LoadSeq(m, t, n, data)[n]
           /\ LoadSeq(m, t, n, data)[0] = m
           /\ \A p \in 1 .. n :
                LoadSeq(m, t, n, data)[p]
                = IF LoadSeq(m, t, n, data)[p - 1].failed # 0 THEN LoadSeq(m, t, n, data)[p - 1]
                  ELSE Load(LoadSeq(m, t, n, data)[p - 1], t, p, p >= data)
<1>1. load_elf(m, t, n, data) = LoadSeq(m, t, n, data)[n]
  BY DEF load_elf, LoadSeq, LoadStep
<1>. DEFINE g == LoadSeq(m, t, n, data)
<1>2. g = [p \in 0 .. n |-> LoadStep(m, t, data, g, p)]
  BY LoadUnrolls
<1>. HIDE DEF g
<1>3. \A p \in 0 .. n : g[p] = LoadStep(m, t, data, g, p)
  BY <1>2
<1>4. g[0] = m
  BY <1>3 DEF LoadStep
<1>5. \A p \in 1 .. n : p \in 0 .. n /\ p # 0
  OBVIOUS
<1>6. \A p \in 1 .. n : g[p] = IF g[p - 1].failed # 0 THEN g[p - 1]
                              ELSE Load(g[p - 1], t, p, p >= data)
  BY <1>3, <1>5 DEF LoadStep
<1> QED
  BY <1>1, <1>4, <1>6 DEF g

LEMMA LoadElfGoes ==
    ASSUME NEW m, Accounted(m), m.failed = 0, NEW t \in Tasks, NEW n \in Nat, n <= Heap,
           NEW data \in Int
    PROVE  \A p \in 0 .. n : \/ Stopped(LoadSeq(m, t, n, data)[p])
                             \/ Goes(m, LoadSeq(m, t, n, data)[p], {t})
<1>. DEFINE g == LoadSeq(m, t, n, data)
            Bad == {p \in 0 .. n : ~(Stopped(g[p]) \/ Goes(m, g[p], {t}))}
<1>1. Bad \in SUBSET Nat
  OBVIOUS
<1>2. g[0] = m /\ \A p \in 1 .. n : g[p] = IF g[p - 1].failed # 0 THEN g[p - 1]
                                          ELSE Load(g[p - 1], t, p, p >= data)
  BY LoadElf
<1>. HIDE DEF g
<1>3. ASSUME Bad # {}
      PROVE  FALSE
  <2>. HIDE DEF Bad
  <2>1. PICK x \in Bad : \A y \in Bad : x <= y
    BY <1>1, <1>3, LeastNumber
  <2>2. x \in 0 .. n /\ ~(Stopped(g[x]) \/ Goes(m, g[x], {t}))
    BY <2>1 DEF Bad
  <2>3. x # 0
    BY <1>2, <2>2, OthersSelf DEF Goes
  <2>4. x \in 1 .. n /\ x - 1 \in 0 .. n /\ x - 1 \notin Bad
    BY <2>1, <2>2, <2>3
  <2>5. Stopped(g[x - 1]) \/ Goes(m, g[x - 1], {t})
    BY <2>4 DEF Bad
  <2>6. g[x] = IF g[x - 1].failed # 0 THEN g[x - 1] ELSE Load(g[x - 1], t, x, x >= data)
    BY <1>2, <2>4
  <2>7. CASE Stopped(g[x - 1])
    BY <2>2, <2>6, <2>7 DEF Stopped
  <2>8. CASE Goes(m, g[x - 1], {t})
    <3>1. x \in Pages
      BY <2>4, MemoryAssumption DEF Pages, Stack
    <3>2. PICK w \in BOOLEAN : w = (x >= data)
      <4>1. (x >= data) \in BOOLEAN
        BY <2>4
      <4>. QED
        BY <4>1
    <3>3. g[x] = Load(g[x - 1], t, x, w)
      BY <2>6, <2>8, <3>2 DEF Goes
    <3>4. Stopped(g[x]) \/ Goes(g[x - 1], g[x], {t})
      BY <2>8, <3>1, <3>3, LoadResult DEF Goes
    <3>. QED
      BY <2>2, <2>8, <3>4, GoesStep
  <2>. QED
    BY <2>5, <2>7, <2>8
<1> QED
  BY <1>3 DEF g

\* What execve does to the memory.
Args(m, t, v) == KernelStore(m, t, Stack, v)
Emptied(m, t, v) == unlink_pages(Args(m, t, v), t, {p \in 1 .. Heap : p < task[t].brk})
Execed(m, t, n, data, v, elf) ==
    IF Args(m, t, v).failed # 0 THEN Args(m, t, v)
    ELSE IF ~elf THEN Fails(Emptied(m, t, v), 712)
    ELSE load_elf(Emptied(m, t, v), t, n, data)

LEMMA KernelStoreIs ==
    ASSUME NEW m, NEW t, NEW p, NEW v
    PROVE  KernelStore(m, t, p, v) = FaultStore(m, t, p, v, ~Present(m, t, p))
BY DEF KernelStore, FaultStore

LEMMA StackIs ==
    /\ Stack \in Pages /\ Heap < Stack /\ Stack \in Int /\ 1 .. Heap \subseteq Pages
    /\ MapPages \subseteq Pages /\ Stack \notin MapPages
    /\ \A p \in Pages : p \in MapPages <=> Heap < p /\ p < Stack
    /\ \A p \in Pages : Dir(p) = "mmap" <=> p \in MapPages
<1>1. Stack \in Int /\ Heap < Stack /\ Heap \in Nat /\ Heap > 0
  BY MemoryAssumption DEF Stack
<1>2. \A p \in Pages : Dir(p) = "mmap" <=> Heap < p /\ p < Stack
  BY <1>1 DEF Dir, Pages
<1> QED
  BY <1>1, <1>2 DEF MapPages, Pages

LEMMA KernelStoreResult ==
    ASSUME NEW m, Accounted(m), m.failed = 0, NEW t \in Tasks, NEW p \in Pages, NEW v \in Values
    PROVE  \/ Stopped(KernelStore(m, t, p, v))
           \/ /\ Goes(m, KernelStore(m, t, p, v), {t})
              /\ StoredBy(m, KernelStore(m, t, p, v), t, p, v, ~Present(m, t, p), task[t].brk)
<1>1. PICK faults \in BOOLEAN : faults = ~Present(m, t, p)
  OBVIOUS
<1>2. KernelStore(m, t, p, v) = FaultStore(m, t, p, v, faults)
  BY <1>1, KernelStoreIs
<1>3. ~faults => Present(m, t, p)
  BY <1>1
<1>4. \/ Stopped(FaultStore(m, t, p, v, faults))
      \/ /\ Goes(m, FaultStore(m, t, p, v, faults), {t})
         /\ StoredBy(m, FaultStore(m, t, p, v, faults), t, p, v, faults, task[t].brk)
  BY <1>3, FaultStoreResult
<1> QED
  BY <1>1, <1>2, <1>4

LEMMA EmptiedGoes ==
    ASSUME NEW m, Accounted(m), m.failed = 0, NEW t \in Tasks, NEW v \in Values,
           Args(m, t, v).failed = 0
    PROVE  /\ Goes(m, Args(m, t, v), {t}) /\ Goes(m, Emptied(m, t, v), {t})
           /\ SameRest(Args(m, t, v), Emptied(m, t, v))
           /\ Dropped(Args(m, t, v), Emptied(m, t, v), t, {p \in 1 .. Heap : p < task[t].brk})
<1>. DEFINE a == Args(m, t, v)
            gone == {p \in 1 .. Heap : p < task[t].brk}
<1>1. Goes(m, a, {t})
  BY StackIs, KernelStoreResult DEF Args, Stopped
<1>. HIDE DEF a
<1>2. gone \in SUBSET Pages
  BY StackIs
<1>. HIDE DEF gone
<1>3. /\ Accounted(unlink_pages(a, t, gone)) /\ Dropped(a, unlink_pages(a, t, gone), t, gone)
      /\ SameRest(a, unlink_pages(a, t, gone)) /\ Others(a, unlink_pages(a, t, gone), {t})
  BY <1>1, <1>2, UnlinkPages DEF Goes
<1>4. Emptied(m, t, v) = unlink_pages(a, t, gone)
  BY DEF Emptied, a, gone
<1>5. Goes(a, Emptied(m, t, v), {t})
  BY <1>1, <1>3, <1>4 DEF Goes, SameRest
<1>6. Goes(m, Emptied(m, t, v), {t})
  BY <1>1, <1>5, GoesStep
<1> QED
  BY <1>1, <1>3, <1>4, <1>6 DEF a, gone

LEMMA ExecedResult ==
    ASSUME NEW m, Accounted(m), m.failed = 0, NEW t \in Tasks, NEW v \in Values,
           NEW n \in 1 .. MaxProgram, NEW data \in Int, NEW elf \in BOOLEAN
    PROVE  Stopped(Execed(m, t, n, data, v, elf)) \/ Goes(m, Execed(m, t, n, data, v, elf), {t})
<1>1. n \in Nat /\ n <= Heap
  BY MemoryAssumption
<1>2. CASE Args(m, t, v).failed # 0
  BY <1>2, StackIs, KernelStoreResult DEF Execed, Args, Goes
<1>3. CASE Args(m, t, v).failed = 0
  <2>. DEFINE e == Emptied(m, t, v)
  <2>1. Goes(m, e, {t})
    BY <1>3, EmptiedGoes
  <2>2. Execed(m, t, n, data, v, elf) = IF ~elf THEN Fails(e, 712) ELSE load_elf(e, t, n, data)
    BY <1>3 DEF Execed
  <2>. HIDE DEF e
  <2>3. CASE ~elf
    <3>1. e \in Memories /\ 712 \in Int
      BY <2>1 DEF Goes, Accounted
    <3>2. Fails(e, 712) \in Memories /\ Fails(e, 712).failed = 712
      BY <3>1, FailsIs
    <3>. QED
      BY <2>2, <2>3, <3>2 DEF Stopped
  <2>4. CASE elf
    <3>1. Execed(m, t, n, data, v, elf) = LoadSeq(e, t, n, data)[n] /\ n \in 0 .. n
      BY <1>1, <2>2, <2>4, LoadElf
    <3>2. Stopped(LoadSeq(e, t, n, data)[n]) \/ Goes(e, LoadSeq(e, t, n, data)[n], {t})
      BY <1>1, <2>1, <3>1, LoadElfGoes DEF Goes
    <3>. QED
      BY <2>1, <3>1, <3>2, GoesStep
  <2>. QED
    BY <2>3, <2>4
<1> QED
  BY <1>2, <1>3

-----------------------------------------------------------------------------
(* The counts in every behaviour.                                          *)

TaskStates ==
    [Tasks -> [alive : BOOLEAN, brk : 1 .. Heap + 1, end : 1 .. Heap + 1, vmap : SUBSET MapPages]]

\* A task that is not alive has no page and no table.
Dead(m, tk) == \A u \in Tasks : ~tk[u].alive => NoPages(m, u) /\ NoTables(m, u, Dirs)

MemoryInv == Accounted(mem) /\ task \in TaskStates /\ Dead(mem, task)

LEMMA DeadKept ==
    ASSUME NEW m, NEW n, NEW S, NEW tk, NEW tk2, Dead(m, tk), Others(m, n, S),
           \A u \in Tasks : ~tk2[u].alive => u \notin S /\ ~tk[u].alive
    PROVE  Dead(n, tk2)
BY DEF Dead, Others, NoPages, NoTables

LEMMA FailsAccounted ==
    ASSUME NEW m, Accounted(m), NEW line \in Int, NEW S
    PROVE  Accounted(Fails(m, line)) /\ Others(m, Fails(m, line), S)
<1>. DEFINE n == Fails(m, line)
<1>1. n \in Memories /\ SameCounts(m, n) /\ SamePages(m, n) /\ SameTables(m, n)
  BY FailsIs DEF Accounted
<1>. HIDE DEF n
<1>2. Counts(n, Nothing)
  BY <1>1, UsesSame, HoldsSame DEF Accounted, Counts, SameCounts
<1>3. Frees(n)
  BY <1>1 DEF Accounted, Frees, FreeFrames, SameCounts
<1>4. Others(m, n, S)
  BY <1>1, OthersSame
<1> QED
  BY <1>1, <1>2, <1>3, <1>4 DEF Accounted, n

\* What becomes of a step whose memory would be n.
LEMMA BecomesIs ==
    ASSUME NEW m, Accounted(m), NEW S, NEW n, Stopped(n) \/ Goes(m, n, S),
           NEW next, next = IF n.failed = 0 THEN n ELSE Fails(m, n.failed)
    PROVE  /\ Accounted(next) /\ Others(m, next, S)
           /\ next.failed = 0 => next = n /\ Goes(m, n, S)
<1>1. CASE Stopped(n)
  <2>1. n.failed \in Int /\ n.failed # 0 /\ next = Fails(m, n.failed)
    BY <1>1, FieldsOf DEF Stopped
  <2>2. next.failed = n.failed
    BY <2>1, FailsIs DEF Accounted
  <2>. QED
    BY <2>1, <2>2, FailsAccounted
<1>2. CASE Goes(m, n, S)
  BY <1>2 DEF Goes
<1> QED
  BY <1>1, <1>2

TaskFields(x) ==
    /\ x.alive \in BOOLEAN /\ x.brk \in 1 .. Heap + 1 /\ x.end \in 1 .. Heap + 1
    /\ x.vmap \in SUBSET MapPages

LEMMA TaskIs ==
    ASSUME NEW tk \in TaskStates, NEW t \in Tasks
    PROVE  /\ TaskFields(tk[t])
           /\ tk[t] \in [alive : BOOLEAN, brk : 1 .. Heap + 1, end : 1 .. Heap + 1,
                         vmap : SUBSET MapPages]
BY DEF TaskStates, TaskFields

\* t is a task that runs, and n the memory its call leaves.
CallKeeps(t, n) ==
    /\ t \in Tasks /\ task[t].alive /\ mem.failed = 0
    /\ Becomes(n) /\ (Stopped(n) \/ Goes(mem, n, {t}))

LEMMA CallAccounted ==
    ASSUME NEW t, NEW n, CallKeeps(t, n), MemoryInv, task' \in TaskStates,
           \A u \in Tasks : task'[u].alive = task[u].alive
    PROVE  MemoryInv'
<1>1. /\ Accounted(mem) /\ (Stopped(n) \/ Goes(mem, n, {t})) /\ Dead(mem, task)
      /\ mem' = IF n.failed = 0 THEN n ELSE Fails(mem, n.failed)
  BY DEF CallKeeps, MemoryInv, Becomes
<1>2. Accounted(mem') /\ Others(mem, mem', {t})
  BY <1>1, BecomesIs
<1>3. \A u \in Tasks : ~task'[u].alive => u \notin {t} /\ ~task[u].alive
  BY DEF CallKeeps
<1>4. Dead(mem', task')
  BY <1>1, <1>2, <1>3, DeadKept
<1> QED
  BY <1>2, <1>4 DEF MemoryInv

LEMMA InitInv == Init => MemoryInv
<1>. SUFFICES ASSUME Init
              PROVE  MemoryInv
  OBVIOUS
<1>1. Heap + 1 \in Nat /\ 1 \in 1 .. Heap + 1 /\ {} \in SUBSET MapPages
  BY MemoryAssumption
<1>2. task \in TaskStates
  BY <1>1 DEF Init, TaskStates
<1>3. /\ mem.memory_map = [f \in Frames |-> 0] /\ mem.free_pages = Cardinality(Frames) + Kernel
      /\ mem.dir = [t \in Tasks |-> [d \in Dirs |-> None]]
      /\ mem.pte = [t \in Tasks |-> [p \in Pages |-> None]]
  BY DEF Init
<1>4. mem \in Memories
  <2>1. Cardinality(Frames) \in Nat /\ Kernel \in Nat
    BY FS_CardinalityType, MemoryAssumption
  <2>2. Cardinality(Frames) + Kernel \in Int
    BY <2>1
  <2>3. [t \in Tasks |-> [p \in Pages |-> None]] \in [Tasks -> [Pages -> Entries \cup {None}]]
    OBVIOUS
  <2>4. [t \in Tasks |-> [d \in Dirs |-> None]] \in [Tasks -> [Dirs -> Frames \cup {None}]]
    OBVIOUS
  <2>5. [f \in Frames |-> 0] \in [Frames -> Int] /\ [f \in Frames |-> Program] \in [Frames -> Values]
    BY ProgramIs
  <2>. QED
    BY <2>2, <2>3, <2>4, <2>5 DEF Init, Memories
<1>5. ASSUME NEW f \in Frames
      PROVE  Cardinality(Uses(mem, f)) = 0 /\ Cardinality(Holds(mem, f)) = 0
  <2>1. Uses(mem, f) = {}
    BY <1>3 DEF Uses, Present
  <2>2. Holds(mem, f) = {}
    BY <1>3, MemoryAssumption DEF Holds
  <2>. QED
    BY <2>1, <2>2, FS_EmptySet
<1>6. Counts(mem, Nothing)
  BY <1>3, <1>5 DEF Counts, Nothing
<1>7. FreeFrames(mem) = Frames
  BY <1>3 DEF FreeFrames
<1>8. Frees(mem)
  BY <1>3, <1>7 DEF Frees
<1>9. Dead(mem, task)
  BY <1>3 DEF Dead, NoPages, NoTables
<1> QED
  BY <1>2, <1>4, <1>6, <1>8, <1>9 DEF MemoryInv, Accounted

LEMMA CallIs ==
    ASSUME NEW t \in Tasks, Call(t)
    PROVE  mem.failed = 0 /\ task[t].alive
BY DEF Call, Alive

LEMMA WriteCalls ==
    ASSUME MemoryInv, NEW t \in Tasks, NEW p \in Pages, NEW v \in Values, Write(t, p, v)
    PROVE  \E faults \in BOOLEAN :
             /\ CallKeeps(t, FaultStore(mem, t, p, v, faults))
             /\ faults = (~Present(mem, t, p) \/ ~mem.pte[t][p].write)
             /\ ~Stopped(FaultStore(mem, t, p, v, faults))
                => StoredBy(mem, FaultStore(mem, t, p, v, faults), t, p, v, faults, task[t].brk)
<1>1. mem.failed = 0 /\ task[t].alive /\ Accounted(mem)
  BY CallIs DEF Write, MemoryInv
<1>2. PICK faults \in BOOLEAN : faults = (~Present(mem, t, p) \/ ~mem.pte[t][p].write)
  OBVIOUS
<1>. DEFINE n == FaultStore(mem, t, p, v, faults)
<1>3. Becomes(n)
  BY <1>2 DEF Write, FaultStore
<1>4. ~faults => Present(mem, t, p)
  BY <1>2
<1>5. Stopped(n) \/ (Goes(mem, n, {t}) /\ StoredBy(mem, n, t, p, v, faults, task[t].brk))
  BY <1>1, <1>4, FaultStoreResult
<1>. HIDE DEF n
<1>6. CallKeeps(t, n)
  BY <1>1, <1>3, <1>5 DEF CallKeeps
<1> QED
  BY <1>2, <1>5, <1>6 DEF n

LEMMA SameTask ==
    ASSUME MemoryInv, task' = task
    PROVE  task' \in TaskStates /\ \A u \in Tasks : task'[u].alive = task[u].alive
BY DEF MemoryInv

LEMMA WriteInv ==
    ASSUME MemoryInv, NEW t \in Tasks, NEW p \in Pages, NEW v \in Values, Write(t, p, v)
    PROVE  MemoryInv'
<1>1. task' = task
  BY DEF Write
<1>2. PICK faults \in BOOLEAN : CallKeeps(t, FaultStore(mem, t, p, v, faults))
  BY WriteCalls
<1> QED
  BY <1>1, <1>2, SameTask, CallAccounted

LEMMA ReadCalls ==
    ASSUME MemoryInv, NEW t \in Tasks, NEW p \in Pages, Read(t, p)
    PROVE  /\ CallKeeps(t, page_fault(mem, t, p)) /\ ~Present(mem, t, p)
           /\ ~Stopped(page_fault(mem, t, p))
              => Faulted(mem, page_fault(mem, t, p), t, p, task[t].brk)
<1>1. mem.failed = 0 /\ task[t].alive /\ Accounted(mem)
  BY CallIs DEF Read, MemoryInv
<1>2. \/ Stopped(page_fault(mem, t, p))
      \/ /\ Goes(mem, page_fault(mem, t, p), {t})
         /\ Faulted(mem, page_fault(mem, t, p), t, p, task[t].brk)
  BY <1>1, PageFaultResult
<1> QED
  BY <1>1, <1>2 DEF CallKeeps, Read

LEMMA ReadInv ==
    ASSUME MemoryInv, NEW t \in Tasks, NEW p \in Pages, Read(t, p)
    PROVE  MemoryInv'
<1>1. task' = task
  BY DEF Read
<1> QED
  BY <1>1, ReadCalls, SameTask, CallAccounted

LEMMA KernelWriteCalls ==
    ASSUME MemoryInv, NEW t \in Tasks, NEW p \in Pages, NEW v \in Values, KernelWrite(t, p, v)
    PROVE  /\ CallKeeps(t, KernelStore(mem, t, p, v))
           /\ ~Stopped(KernelStore(mem, t, p, v))
              => StoredBy(mem, KernelStore(mem, t, p, v), t, p, v, ~Present(mem, t, p), task[t].brk)
<1>1. mem.failed = 0 /\ task[t].alive /\ Accounted(mem)
  BY CallIs DEF KernelWrite, MemoryInv
<1>2. \/ Stopped(KernelStore(mem, t, p, v))
      \/ /\ Goes(mem, KernelStore(mem, t, p, v), {t})
         /\ StoredBy(mem, KernelStore(mem, t, p, v), t, p, v, ~Present(mem, t, p), task[t].brk)
  BY <1>1, KernelStoreResult
<1> QED
  BY <1>1, <1>2 DEF CallKeeps, KernelWrite

LEMMA KernelWriteInv ==
    ASSUME MemoryInv, NEW t \in Tasks, NEW p \in Pages, NEW v \in Values, KernelWrite(t, p, v)
    PROVE  MemoryInv'
<1>1. task' = task
  BY DEF KernelWrite
<1> QED
  BY <1>1, KernelWriteCalls, SameTask, CallAccounted

LEMMA UnlinkCalls ==
    ASSUME MemoryInv, NEW t \in Tasks, Call(t), NEW pages \in SUBSET Pages,
           Becomes(unlink_pages(mem, t, pages))
    PROVE  /\ CallKeeps(t, unlink_pages(mem, t, pages))
           /\ Dropped(mem, unlink_pages(mem, t, pages), t, pages)
           /\ SameRest(mem, unlink_pages(mem, t, pages))
<1>1. mem.failed = 0 /\ task[t].alive /\ Accounted(mem)
  BY CallIs DEF MemoryInv
<1>2. /\ Accounted(unlink_pages(mem, t, pages)) /\ Dropped(mem, unlink_pages(mem, t, pages), t, pages)
      /\ SameRest(mem, unlink_pages(mem, t, pages)) /\ Others(mem, unlink_pages(mem, t, pages), {t})
  BY <1>1, UnlinkPages
<1> QED
  BY <1>1, <1>2 DEF CallKeeps, Goes, SameRest

\* The state of t changes.
TaskTo(tk, tk2, t, x) == tk2 = [tk EXCEPT ![t] = x]
BrkTo(tk, tk2, t, b) == TaskTo(tk, tk2, t, [tk[t] EXCEPT !.brk = b])
VmapTo(tk, tk2, t, S) == TaskTo(tk, tk2, t, [tk[t] EXCEPT !.vmap = S])

LEMMA TaskSet ==
    ASSUME NEW tk \in TaskStates, NEW t \in Tasks, NEW x,
           x \in [alive : BOOLEAN, brk : 1 .. Heap + 1, end : 1 .. Heap + 1, vmap : SUBSET MapPages],
           NEW tk2, TaskTo(tk, tk2, t, x)
    PROVE  /\ tk2 \in TaskStates
           /\ \A u \in Tasks : tk2[u] = IF u = t THEN x ELSE tk[u]
BY DEF TaskStates, TaskTo

\* The pages that brk gives back.
Above(t, b) == {p \in 1 .. Heap : b <= p /\ p < task[t].brk}

LEMMA BrkCalls ==
    ASSUME MemoryInv, NEW t \in Tasks, NEW b \in 1 .. Heap + 1, sys_brk(t, b)
    PROVE  \/ UNCHANGED vars
           \/ /\ CallKeeps(t, unlink_pages(mem, t, Above(t, b)))
              /\ Above(t, b) \in SUBSET Pages
              /\ Dropped(mem, unlink_pages(mem, t, Above(t, b)), t, Above(t, b))
              /\ SameRest(mem, unlink_pages(mem, t, Above(t, b)))
              /\ BrkTo(task, task', t, b)
              /\ Forgotten(t, Above(t, b))
<1>. DEFINE gone == Above(t, b)
<1>1. gone \in SUBSET Pages
  BY StackIs DEF Above
<1>2. \/ UNCHANGED vars
      \/ /\ Call(t) /\ Becomes(unlink_pages(mem, t, gone))
         /\ task' = [task EXCEPT ![t].brk = b] /\ Forgotten(t, gone)
  BY DEF sys_brk, Above
<1>3. task' = [task EXCEPT ![t].brk = b] => BrkTo(task, task', t, b)
  BY DEF BrkTo, TaskTo
<1>. HIDE DEF gone
<1>4. ASSUME Call(t), Becomes(unlink_pages(mem, t, gone))
      PROVE  /\ CallKeeps(t, unlink_pages(mem, t, gone))
             /\ Dropped(mem, unlink_pages(mem, t, gone), t, gone)
             /\ SameRest(mem, unlink_pages(mem, t, gone))
  BY <1>1, <1>4, UnlinkCalls
<1> QED
  BY <1>1, <1>2, <1>3, <1>4 DEF gone

LEMMA BrkTask ==
    ASSUME NEW tk \in TaskStates, NEW t \in Tasks, NEW b \in 1 .. Heap + 1,
           NEW tk2, BrkTo(tk, tk2, t, b)
    PROVE  /\ tk2 \in TaskStates
           /\ \A u \in Tasks : /\ tk2[u].alive = tk[u].alive /\ tk2[u].vmap = tk[u].vmap
                               /\ tk2[u].brk = IF u = t THEN b ELSE tk[u].brk
<1>. DEFINE x == [tk[t] EXCEPT !.brk = b]
<1>1. /\ x \in [alive : BOOLEAN, brk : 1 .. Heap + 1, end : 1 .. Heap + 1, vmap : SUBSET MapPages]
      /\ x.alive = tk[t].alive /\ x.vmap = tk[t].vmap /\ x.brk = b
  BY TaskIs
<1>3. TaskTo(tk, tk2, t, x)
  BY DEF BrkTo, VmapTo
<1>. HIDE DEF x
<1>2. tk2 \in TaskStates /\ \A u \in Tasks : tk2[u] = IF u = t THEN x ELSE tk[u]
  BY <1>1, <1>3, TaskSet
<1> QED
  BY <1>1, <1>2

Vmapped(tk, tk2, t, S) ==
    \A u \in Tasks : /\ tk2[u].alive = tk[u].alive /\ tk2[u].brk = tk[u].brk
                     /\ tk2[u].vmap = IF u = t THEN S ELSE tk[u].vmap

LEMMA VmapTask ==
    ASSUME NEW tk \in TaskStates, NEW t \in Tasks, NEW S \in SUBSET MapPages,
           NEW tk2, VmapTo(tk, tk2, t, S)
    PROVE  tk2 \in TaskStates /\ Vmapped(tk, tk2, t, S)
<1>. DEFINE x == [tk[t] EXCEPT !.vmap = S]
<1>1. /\ x \in [alive : BOOLEAN, brk : 1 .. Heap + 1, end : 1 .. Heap + 1, vmap : SUBSET MapPages]
      /\ x.alive = tk[t].alive /\ x.vmap = S /\ x.brk = tk[t].brk
  BY TaskIs
<1>3. TaskTo(tk, tk2, t, x)
  BY DEF BrkTo, VmapTo
<1>. HIDE DEF x
<1>2. tk2 \in TaskStates /\ \A u \in Tasks : tk2[u] = IF u = t THEN x ELSE tk[u]
  BY <1>1, <1>3, TaskSet
<1> QED
  BY <1>1, <1>2 DEF Vmapped

LEMMA BrkInv ==
    ASSUME MemoryInv, NEW t \in Tasks, NEW b \in 1 .. Heap + 1, sys_brk(t, b)
    PROVE  MemoryInv'
<1>1. CASE UNCHANGED vars
  <2>1. mem' = mem /\ task' = task
    BY <1>1 DEF vars
  <2>. QED
    BY <2>1 DEF MemoryInv
<1>2. CASE /\ CallKeeps(t, unlink_pages(mem, t, Above(t, b)))
           /\ BrkTo(task, task', t, b)
  <2>1. task' \in TaskStates /\ \A u \in Tasks : task'[u].alive = task[u].alive
    BY <1>2, BrkTask DEF MemoryInv
  <2>. QED
    BY <1>2, <2>1, CallAccounted
<1> QED
  BY <1>1, <1>2, BrkCalls

LEMMA MmapCalls ==
    ASSUME MemoryInv, NEW t \in Tasks, NEW p \in MapPages, NEW write \in BOOLEAN,
           NEW shared \in BOOLEAN, NEW file \in BOOLEAN, sys_mmap(t, p, write, shared, file)
    PROVE  /\ CallKeeps(t, Mapped(mem, t, p, write, shared, file)) /\ p \in Pages
           /\ ~Stopped(Mapped(mem, t, p, write, shared, file))
              => MappedSo(mem, Mapped(mem, t, p, write, shared, file), t, p, write, shared, file)
           /\ VmapTo(task, task', t, task[t].vmap \cup {p})
<1>. DEFINE n == Mapped(mem, t, p, write, shared, file)
<1>1. mem.failed = 0 /\ task[t].alive /\ Accounted(mem)
  BY CallIs DEF sys_mmap, MemoryInv
<1>2. p \in Pages
  BY StackIs
<1>3. \/ Stopped(n)
      \/ /\ Goes(mem, n, {t})
         /\ MappedSo(mem, n, t, p, write, shared, file)
  BY <1>1, <1>2, MappedResult
<1>4. Becomes(n)
  BY DEF sys_mmap, Mapped
<1>5. VmapTo(task, task', t, task[t].vmap \cup {p})
  BY DEF sys_mmap, VmapTo, TaskTo
<1>. HIDE DEF n
<1>6. CallKeeps(t, n)
  BY <1>1, <1>3, <1>4 DEF CallKeeps
<1> QED
  BY <1>2, <1>3, <1>5, <1>6 DEF n

LEMMA MmapInv ==
    ASSUME MemoryInv, NEW t \in Tasks, NEW p \in MapPages, NEW write \in BOOLEAN,
           NEW shared \in BOOLEAN, NEW file \in BOOLEAN, sys_mmap(t, p, write, shared, file)
    PROVE  MemoryInv'
<1>. DEFINE n == Mapped(mem, t, p, write, shared, file)
<1>1. CallKeeps(t, n) /\ VmapTo(task, task', t, task[t].vmap \cup {p})
  BY MmapCalls
<1>. HIDE DEF n
<1>2. task[t].vmap \cup {p} \in SUBSET MapPages
  BY TaskIs DEF MemoryInv, TaskFields
<1>4. PICK S \in SUBSET MapPages : S = task[t].vmap \cup {p}
  BY <1>2
<1>5. VmapTo(task, task', t, S) /\ task \in TaskStates
  BY <1>1, <1>4 DEF MemoryInv
<1>3. task' \in TaskStates /\ \A u \in Tasks : task'[u].alive = task[u].alive
  BY <1>5, VmapTask DEF Vmapped
<1> QED
  BY <1>1, <1>3, CallAccounted

LEMMA MunmapCalls ==
    ASSUME MemoryInv, NEW t \in Tasks, NEW p \in MapPages, sys_munmap(t, p)
    PROVE  /\ CallKeeps(t, unlink_pages(mem, t, {p})) /\ {p} \in SUBSET Pages
           /\ Dropped(mem, unlink_pages(mem, t, {p}), t, {p})
           /\ SameRest(mem, unlink_pages(mem, t, {p}))
           /\ VmapTo(task, task', t, task[t].vmap \ {p})
<1>1. {p} \in SUBSET Pages
  BY StackIs
<1>2. Call(t) /\ Becomes(unlink_pages(mem, t, {p}))
      /\ VmapTo(task, task', t, task[t].vmap \ {p})
  BY DEF sys_munmap, VmapTo, TaskTo
<1> QED
  BY <1>1, <1>2, UnlinkCalls

LEMMA MunmapInv ==
    ASSUME MemoryInv, NEW t \in Tasks, NEW p \in MapPages, sys_munmap(t, p)
    PROVE  MemoryInv'
<1>1. /\ CallKeeps(t, unlink_pages(mem, t, {p}))
      /\ VmapTo(task, task', t, task[t].vmap \ {p})
  BY MunmapCalls
<1>2. task[t].vmap \ {p} \in SUBSET MapPages
  BY TaskIs DEF MemoryInv, TaskFields
<1>4. PICK S \in SUBSET MapPages : S = task[t].vmap \ {p}
  BY <1>2
<1>5. VmapTo(task, task', t, S) /\ task \in TaskStates
  BY <1>1, <1>4 DEF MemoryInv
<1>3. task' \in TaskStates /\ \A u \in Tasks : task'[u].alive = task[u].alive
  BY <1>5, VmapTask DEF Vmapped
<1> QED
  BY <1>1, <1>3, CallAccounted

LEMMA ForkCalls ==
    ASSUME MemoryInv, NEW t \in Tasks, NEW c \in Tasks, task_fork(t, c)
    PROVE  /\ mem.failed = 0 /\ task[t].alive /\ ~task[c].alive /\ c # t
           /\ Becomes(copy_pde(mem, t, c)) /\ TaskTo(task, task', c, task[t])
           /\ \/ Stopped(copy_pde(mem, t, c))
              \/ /\ Goes(mem, copy_pde(mem, t, c), {t, c})
                 /\ Forked(mem, copy_pde(mem, t, c), t, c)
                 /\ copy_pde(mem, t, c).data = mem.data
<1>1. mem.failed = 0 /\ task[t].alive /\ Accounted(mem)
  BY CallIs DEF task_fork, MemoryInv
<1>2. ~task[c].alive /\ c # t
  BY <1>1 DEF task_fork, Alive
<1>3. NoPages(mem, c) /\ NoTables(mem, c, Dirs)
  BY <1>2 DEF MemoryInv, Dead
<1>4. \/ Stopped(copy_pde(mem, t, c))
      \/ /\ Accounted(copy_pde(mem, t, c)) /\ Forked(mem, copy_pde(mem, t, c), t, c)
         /\ copy_pde(mem, t, c).failed = 0 /\ copy_pde(mem, t, c).data = mem.data
         /\ Others(mem, copy_pde(mem, t, c), {t, c})
  BY <1>1, <1>2, <1>3, CopyPdeResult
<1> QED
  BY <1>1, <1>2, <1>4 DEF task_fork, Goes, TaskTo

LEMMA ForkInv ==
    ASSUME MemoryInv, NEW t \in Tasks, NEW c \in Tasks, task_fork(t, c)
    PROVE  MemoryInv'
<1>. DEFINE n == copy_pde(mem, t, c)
<1>1. /\ task[t].alive /\ TaskTo(task, task', c, task[t])
      /\ Stopped(n) \/ Goes(mem, n, {t, c})
      /\ Accounted(mem) /\ Dead(mem, task) /\ task \in TaskStates
  BY ForkCalls DEF MemoryInv
<1>2. mem' = IF n.failed = 0 THEN n ELSE Fails(mem, n.failed)
  BY ForkCalls DEF Becomes
<1>. HIDE DEF n
<1>3. Accounted(mem') /\ Others(mem, mem', {t, c})
  BY <1>1, <1>2, BecomesIs
<1>4. /\ task' \in TaskStates
      /\ \A u \in Tasks : task'[u] = IF u = c THEN task[t] ELSE task[u]
  BY <1>1, TaskIs, TaskSet
<1>5. \A u \in Tasks : ~task'[u].alive => u \notin {t, c} /\ ~task[u].alive
  BY <1>1, <1>4
<1>6. Dead(mem', task')
  BY <1>1, <1>3, <1>5, DeadKept
<1> QED
  BY <1>3, <1>4, <1>6 DEF MemoryInv

EmptyTask == [alive |-> FALSE, brk |-> 1, end |-> 1, vmap |-> {}]

LEMMA EmptyTaskIs ==
    /\ EmptyTask \in [alive : BOOLEAN, brk : 1 .. Heap + 1, end : 1 .. Heap + 1,
                      vmap : SUBSET MapPages]
    /\ EmptyTask.alive = FALSE
<1>1. 1 \in 1 .. Heap + 1
  BY MemoryAssumption
<1> QED
  BY <1>1 DEF EmptyTask

LEMMA ExitCalls ==
    ASSUME MemoryInv, NEW t \in Tasks, task_exit(t)
    PROVE  /\ mem.failed = 0 /\ mem' = free_pde(mem, t) /\ TaskTo(task, task', t, EmptyTask)
           /\ Goes(mem, free_pde(mem, t), Tasks) /\ SameRest(mem, free_pde(mem, t))
           /\ Dropped(mem, free_pde(mem, t), t, Pages)
           /\ TablesDropped(mem, free_pde(mem, t), t, Dirs)
<1>1. mem.failed = 0 /\ Accounted(mem)
  BY CallIs DEF task_exit, MemoryInv
<1>2. /\ Accounted(free_pde(mem, t)) /\ Dropped(mem, free_pde(mem, t), t, Pages)
      /\ TablesDropped(mem, free_pde(mem, t), t, Dirs) /\ SameRest(mem, free_pde(mem, t))
  BY <1>1, FreePde
<1>3. Goes(mem, free_pde(mem, t), Tasks)
  BY <1>1, <1>2 DEF Goes, SameRest, Others
<1>4. TaskTo(task, task', t, EmptyTask)
  BY DEF task_exit, TaskTo, EmptyTask
<1>5. mem' = free_pde(mem, t)
  BY <1>3 DEF task_exit, Becomes, Goes
<1> QED
  BY <1>1, <1>2, <1>3, <1>4, <1>5

LEMMA ExitInv ==
    ASSUME MemoryInv, NEW t \in Tasks, task_exit(t)
    PROVE  MemoryInv'
<1>1. /\ Accounted(mem') /\ Dropped(mem, mem', t, Pages) /\ TablesDropped(mem, mem', t, Dirs)
      /\ TaskTo(task, task', t, EmptyTask) /\ task \in TaskStates /\ Dead(mem, task)
  BY ExitCalls DEF Goes, MemoryInv
<1>2. /\ task' \in TaskStates
      /\ \A u \in Tasks : task'[u] = IF u = t THEN EmptyTask ELSE task[u]
  BY <1>1, EmptyTaskIs, TaskSet
<1>3. Dead(mem', task')
  <2>. SUFFICES ASSUME NEW u \in Tasks, ~task'[u].alive
                PROVE  NoPages(mem', u) /\ NoTables(mem', u, Dirs)
    BY DEF Dead
  <2>1. CASE u = t
    BY <1>1, <2>1 DEF NoPages, NoTables, Dropped, TablesDropped
  <2>2. CASE u # t
    <3>1. NoPages(mem, u) /\ NoTables(mem, u, Dirs)
      BY <1>1, <1>2, <2>2 DEF Dead
    <3>. QED
      BY <1>1, <2>2, <3>1 DEF NoPages, NoTables, Dropped, TablesDropped
  <2>. QED
    BY <2>1, <2>2
<1> QED
  BY <1>1, <1>2, <1>3 DEF MemoryInv

\* The task after exec of n pages with free left.
ExecTo(tk, tk2, t, n, free) ==
    TaskTo(tk, tk2, t, [tk[t] EXCEPT !.end = n + 1, !.brk = IF n > free THEN 1 ELSE n + 1])

LEMMA ExecTask ==
    ASSUME NEW tk \in TaskStates, NEW t \in Tasks, NEW n \in 1 .. MaxProgram, NEW free \in Int,
           NEW tk2, ExecTo(tk, tk2, t, n, free)
    PROVE  /\ tk2 \in TaskStates
           /\ \A u \in Tasks : /\ tk2[u].alive = tk[u].alive /\ tk2[u].vmap = tk[u].vmap
                               /\ u # t => tk2[u].brk = tk[u].brk
                               /\ u = t /\ n <= free => tk2[u].brk = n + 1
<1>. DEFINE x == [tk[t] EXCEPT !.end = n + 1, !.brk = IF n > free THEN 1 ELSE n + 1]
<1>1. n + 1 \in 1 .. Heap + 1 /\ 1 \in 1 .. Heap + 1
  BY MemoryAssumption
<1>2. PICK b \in 1 .. Heap + 1 : b = IF n > free THEN 1 ELSE n + 1
  BY <1>1
<1>3. x = [tk[t] EXCEPT !.end = n + 1, !.brk = b]
  BY <1>2
<1>4. /\ x \in [alive : BOOLEAN, brk : 1 .. Heap + 1, end : 1 .. Heap + 1, vmap : SUBSET MapPages]
      /\ x.alive = tk[t].alive /\ x.vmap = tk[t].vmap /\ x.brk = b
  BY <1>1, <1>3, TaskIs
<1>5. TaskTo(tk, tk2, t, x)
  BY DEF ExecTo
<1>. HIDE DEF x
<1>6. tk2 \in TaskStates /\ \A u \in Tasks : tk2[u] = IF u = t THEN x ELSE tk[u]
  BY <1>4, <1>5, TaskSet
<1>7. n <= free => b = n + 1
  BY <1>2
<1> QED
  BY <1>4, <1>6, <1>7

LEMMA ExecCalls ==
    ASSUME MemoryInv, NEW t \in Tasks, NEW n \in 1 .. MaxProgram, NEW data \in 1 .. Heap + 1,
           NEW v \in Values, NEW elf \in BOOLEAN, sys_execve(t, n, data, v, elf)
    PROVE  /\ CallKeeps(t, Execed(mem, t, n, data, v, elf))
           /\ Execed(mem, t, n, data, v, elf) \in Memories
           /\ ExecTo(task, task', t, n, Execed(mem, t, n, data, v, elf).free_pages)
<1>. DEFINE x == Execed(mem, t, n, data, v, elf)
<1>1. mem.failed = 0 /\ task[t].alive /\ Accounted(mem)
  BY CallIs DEF sys_execve, MemoryInv
<1>2. Stopped(x) \/ Goes(mem, x, {t})
  <2>1. data \in Int
    OBVIOUS
  <2>. QED
    BY <1>1, <2>1, ExecedResult
<1>3. /\ Becomes(x)
      /\ task' = [task EXCEPT ![t].end = n + 1, ![t].brk = IF n > x.free_pages THEN 1 ELSE n + 1]
  BY DEF sys_execve, Execed, Emptied, Args
<1>. HIDE DEF x
<1>4. ExecTo(task, task', t, n, x.free_pages)
  <2>1. task \in TaskStates
    BY DEF MemoryInv
  <2>. QED
    BY <1>3, <2>1 DEF ExecTo, TaskTo, TaskStates
<1>5. CallKeeps(t, x)
  BY <1>1, <1>2, <1>3 DEF CallKeeps
<1>6. x \in Memories
  BY <1>2 DEF Stopped, Goes, Accounted
<1> QED
  BY <1>4, <1>5, <1>6 DEF x

LEMMA ExecInv ==
    ASSUME MemoryInv, NEW t \in Tasks, NEW n \in 1 .. MaxProgram, NEW data \in 1 .. Heap + 1,
           NEW v \in Values, NEW elf \in BOOLEAN, sys_execve(t, n, data, v, elf)
    PROVE  MemoryInv'
<1>. DEFINE x == Execed(mem, t, n, data, v, elf)
<1>1. CallKeeps(t, x) /\ x \in Memories /\ ExecTo(task, task', t, n, x.free_pages)
  BY ExecCalls
<1>. HIDE DEF x
<1>2. x.free_pages \in Int
  BY <1>1, FieldsOf
<1>3. PICK free \in Int : free = x.free_pages
  BY <1>2
<1>4. ExecTo(task, task', t, n, free) /\ task \in TaskStates
  BY <1>1, <1>3 DEF MemoryInv
<1>5. task' \in TaskStates /\ \A u \in Tasks : task'[u].alive = task[u].alive
  BY <1>4, ExecTask
<1> QED
  BY <1>1, <1>5, CallAccounted

\* Any step of the system, one call of one task.
LEMMA NextIs ==
    ASSUME Next
    PROVE  \E t \in Tasks :
             \/ \E p \in Pages :
                 Read(t, p) \/ \E v \in Values : Write(t, p, v) \/ KernelWrite(t, p, v)
             \/ \E b \in 1 .. Heap + 1 : sys_brk(t, b)
             \/ \E p \in MapPages, write, shared, file \in BOOLEAN :
                    sys_mmap(t, p, write, shared, file)
             \/ \E p \in MapPages : sys_munmap(t, p)
             \/ \E c \in Tasks : task_fork(t, c)
             \/ task_exit(t)
             \/ \E n \in 1 .. MaxProgram, data \in 1 .. Heap + 1, v \in Values, elf \in BOOLEAN :
                    sys_execve(t, n, data, v, elf)
BY DEF Next

LEMMA StepInv == MemoryInv /\ [Next]_vars => MemoryInv'
<1>. SUFFICES ASSUME MemoryInv, [Next]_vars
              PROVE  MemoryInv'
  OBVIOUS
<1>1. CASE UNCHANGED vars
  <2>1. mem' = mem /\ task' = task
    BY <1>1 DEF vars
  <2>. QED
    BY <2>1 DEF MemoryInv
<1>2. CASE Next
  BY <1>2, NextIs, ReadInv, WriteInv, KernelWriteInv, BrkInv, MmapInv, MunmapInv, ForkInv,
     ExitInv, ExecInv
<1> QED
  BY <1>1, <1>2

LEMMA InvAlways == Spec => []MemoryInv
<1> QED
  BY InitInv, StepInv, PTL DEF Spec

\* The count of a frame is the number of page table entries and page tables
\* that use it, in every behaviour (memory_map in memory.c, put_page,
\* link_page, copy_page, copy_pde, free_pde).
THEOREM CountsAreMappings == Spec => []CountIsMappings
<1>1. MemoryInv => CountIsMappings
  <2>. DEFINE Tabled(g) == {x \in Tasks \X Dirs : mem.dir[x[1]][x[2]] = g}
  <2>. SUFFICES ASSUME MemoryInv, NEW f \in Frames
                PROVE  mem.memory_map[f] = Cardinality(Mapping(f)) + Cardinality(Tabled(f))
    BY DEF CountIsMappings
  <2>1. mem.memory_map[f] = Cardinality(Uses(mem, f)) + Cardinality(Holds(mem, f)) + Nothing[f]
    BY DEF MemoryInv, Accounted, Counts
  <2>2. Nothing[f] = 0
    BY DEF Nothing
  <2>3. Uses(mem, f) = Mapping(f)
    BY DEF Uses, Mapping
  <2>4. Holds(mem, f) = Tabled(f)
    BY DEF Holds
  <2>. HIDE DEF Tabled
  <2>. QED
    BY <2>1, <2>2, <2>3, <2>4, FiniteUses
<1> QED
  BY <1>1, InvAlways, PTL

\* free_pages changes as the number of free frames does, in every behaviour:
\* get_page and put_page keep their difference.
THEOREM FreePagesCounted == Spec => FreePagesFollow
<1>1. MemoryInv /\ MemoryInv' =>
        mem'.free_pages - mem.free_pages
        = Cardinality(FreeFrames(mem')) - Cardinality(FreeFrames(mem))
  <2>. SUFFICES ASSUME MemoryInv, MemoryInv'
                PROVE  mem'.free_pages - mem.free_pages
                       = Cardinality(FreeFrames(mem')) - Cardinality(FreeFrames(mem))
    OBVIOUS
  <2>1. /\ mem.free_pages = Cardinality(FreeFrames(mem)) + Kernel
        /\ mem'.free_pages = Cardinality(FreeFrames(mem')) + Kernel
    BY DEF MemoryInv, Accounted, Frees
  <2>2. Cardinality(FreeFrames(mem)) \in Nat /\ Cardinality(FreeFrames(mem')) \in Nat
    BY FiniteFree
  <2>3. PICK a, b \in Nat : a = Cardinality(FreeFrames(mem)) /\ b = Cardinality(FreeFrames(mem'))
    BY <2>2
  <2>4. Kernel \in Nat
    BY MemoryAssumption
  <2>. QED
    BY <2>1, <2>3, <2>4
<1> QED
  BY <1>1, InvAlways, PTL DEF FreePagesFollow

-----------------------------------------------------------------------------
(* Private pages.  An entry that may be written is in a frame of which no  *)
(* other page has a view, and a page that has one is not shared.           *)

Apart(t, p, u, q) == t # u \/ p # q

SameFrame(m, t, p, u, q) ==
    Present(m, t, p) /\ Present(m, u, q) /\ m.pte[t][p].frame = m.pte[u][q].frame

Sharing(m, w) ==
    \A t, u \in Tasks, p, q \in Pages :
        Apart(t, p, u, q) /\ SameFrame(m, t, p, u, q) /\ w[u][q] # None => ~m.pte[t][p].write

\* What a task should find in a page is there, in an entry that is not shared.
Shown(m, w) ==
    \A t \in Tasks, p \in Pages :
        w[t][p] # None =>
            /\ Present(m, t, p) /\ ~m.pte[t][p].shared
            /\ m.data[m.pte[t][p].frame] = w[t][p]

\* Pages of the heap are below brk, those of mmap are in vmap.
Inside(m, tk) ==
    \A t \in Tasks, p \in Pages :
        Present(m, t, p) =>
            /\ p <= Heap => p < tk[t].brk
            /\ p \in MapPages => p \in tk[t].vmap

Privacy(m, tk, w) == Sharing(m, w) /\ Shown(m, w) /\ Inside(m, tk)

\* Nobody else is in the frame of page p of t; or nobody else with a view; or
\* nobody else who may write.
Lone(m, t, p) ==
    \A u \in Tasks, q \in Pages : Apart(t, p, u, q) => ~SameFrame(m, t, p, u, q)

Unwatched(m, w, t, p) ==
    \A u \in Tasks, q \in Pages :
        Apart(t, p, u, q) /\ SameFrame(m, t, p, u, q) => w[u][q] = None

Quiet(m, t, p) ==
    \A u \in Tasks, q \in Pages :
        Apart(t, p, u, q) /\ SameFrame(m, t, p, u, q) => ~m.pte[u][q].write

LEMMA LoneIs ==
    ASSUME NEW m, NEW t, NEW p, Lone(m, t, p)
    PROVE  Quiet(m, t, p) /\ \A w : Unwatched(m, w, t, p)
BY DEF Lone, Quiet, Unwatched

MaySit(tk, t, p) == (p <= Heap => p < tk[t].brk) /\ (p \in MapPages => p \in tk[t].vmap)

\* The view w2 is w with x for page p of t.
Seen(w, w2, t, p, x) ==
    \A u \in Tasks, q \in Pages : w2[u][q] = IF u = t /\ q = p THEN x ELSE w[u][q]

\* The view w2 expects no more than w.
Less(w, w2) == \A u \in Tasks, q \in Pages : w2[u][q] = w[u][q] \/ w2[u][q] = None

LEMMA ForgetPrivacy ==
    ASSUME NEW m, NEW tk, NEW w, NEW w2, Privacy(m, tk, w), Less(w, w2)
    PROVE  Privacy(m, tk, w2)
<1>1. Sharing(m, w2)
  <2>. SUFFICES ASSUME NEW t \in Tasks, NEW u \in Tasks, NEW p \in Pages, NEW q \in Pages,
                       Apart(t, p, u, q), SameFrame(m, t, p, u, q), w2[u][q] # None
                PROVE  ~m.pte[t][p].write
    BY DEF Sharing
  <2>1. w[u][q] # None
    BY DEF Less
  <2>. QED
    BY <2>1 DEF Privacy, Sharing
<1>2. Shown(m, w2)
  <2>. SUFFICES ASSUME NEW t \in Tasks, NEW p \in Pages, w2[t][p] # None
                PROVE  /\ Present(m, t, p) /\ ~m.pte[t][p].shared
                       /\ m.data[m.pte[t][p].frame] = w2[t][p]
    BY DEF Shown
  <2>1. w2[t][p] = w[t][p]
    BY DEF Less
  <2>. QED
    BY <2>1 DEF Privacy, Shown
<1> QED
  BY <1>1, <1>2 DEF Privacy

LEMMA UnusedFrame ==
    ASSUME NEW m, NEW f, Uses(m, f) = {}, NEW u \in Tasks, NEW q \in Pages, Present(m, u, q)
    PROVE  m.pte[u][q].frame # f
<1>1. <<u, q>> \in Tasks \X Pages /\ <<u, q>>[1] = u /\ <<u, q>>[2] = q
  OBVIOUS
<1>2. <<u, q>> \notin Uses(m, f)
  OBVIOUS
<1> QED
  BY <1>1, <1>2 DEF Uses

\* After p of t was put in frame f, which nobody used.
Elsewhere(m, n, u, q, f) ==
    /\ n.pte[u][q] = m.pte[u][q] /\ (Present(n, u, q) <=> Present(m, u, q))
    /\ Present(m, u, q) => m.pte[u][q].frame # f

LEMMA FreshPages ==
    ASSUME NEW m, NEW n, NEW t \in Tasks, NEW p \in Pages, NEW f \in Frames, Fresh(m, n, t, p, f),
           NEW u \in Tasks, NEW q \in Pages, Apart(t, p, u, q)
    PROVE  Elsewhere(m, n, u, q, f)
<1>1. Uses(m, f) = {}
  BY DEF Fresh
<1>2. n.pte[u][q] = m.pte[u][q]
  BY DEF Fresh, Entered, Apart
<1> QED
  BY <1>1, <1>2, UnusedFrame DEF Present, Elsewhere

LEMMA FreshLone ==
    ASSUME NEW m, NEW n, NEW t \in Tasks, NEW p \in Pages, NEW f \in Frames, Fresh(m, n, t, p, f)
    PROVE  Lone(n, t, p)
<1>. SUFFICES ASSUME NEW u \in Tasks, NEW q \in Pages, Apart(t, p, u, q), SameFrame(n, t, p, u, q)
              PROVE  FALSE
  BY DEF Lone
<1>1. n.pte[t][p].frame = f
  BY FreshPresent
<1>2. Elsewhere(m, n, u, q, f)
  BY FreshPages
<1> QED
  BY <1>1, <1>2 DEF SameFrame, Elsewhere

LEMMA FreshSharing ==
    ASSUME NEW m, NEW n, NEW t \in Tasks, NEW p \in Pages, NEW f \in Frames, Fresh(m, n, t, p, f),
           NEW w, Sharing(m, w)
    PROVE  Sharing(n, w)
<1>. SUFFICES ASSUME NEW u \in Tasks, NEW x \in Tasks, NEW q \in Pages, NEW r \in Pages,
                     Apart(u, q, x, r), SameFrame(n, u, q, x, r), w[x][r] # None
              PROVE  ~n.pte[u][q].write
  BY DEF Sharing
<1>1. Lone(n, t, p)
  BY FreshLone
<1>2. ~(u = t /\ q = p)
  BY <1>1 DEF Lone
<1>3. ~(x = t /\ r = p)
  BY <1>1 DEF Lone, SameFrame, Apart
<1>4. n.pte[u][q] = m.pte[u][q] /\ n.pte[x][r] = m.pte[x][r]
  <2>1. Apart(t, p, u, q) /\ Apart(t, p, x, r)
    BY <1>2, <1>3 DEF Apart
  <2>2. Elsewhere(m, n, u, q, f)
    BY <2>1, FreshPages
  <2>3. Elsewhere(m, n, x, r, f)
    BY <2>1, FreshPages
  <2>. QED
    BY <2>2, <2>3 DEF Elsewhere
<1>5. SameFrame(m, u, q, x, r)
  BY <1>4 DEF SameFrame, Present
<1> QED
  BY <1>4, <1>5 DEF Sharing

LEMMA FreshInside ==
    ASSUME NEW m, NEW n, NEW t \in Tasks, NEW p \in Pages, NEW f \in Frames, Fresh(m, n, t, p, f),
           NEW tk, Inside(m, tk), MaySit(tk, t, p)
    PROVE  Inside(n, tk)
<1>. SUFFICES ASSUME NEW u \in Tasks, NEW q \in Pages, Present(n, u, q)
              PROVE  (q <= Heap => q < tk[u].brk) /\ (q \in MapPages => q \in tk[u].vmap)
  BY DEF Inside
<1>1. CASE u = t /\ q = p
  BY <1>1 DEF MaySit
<1>2. CASE Apart(t, p, u, q)
  <2>1. Present(m, u, q)
    BY <1>2, FreshPages DEF Elsewhere
  <2>. QED
    BY <2>1 DEF Inside
<1> QED
  BY <1>1, <1>2 DEF Apart

\* A page that was not there is linked.
LEMMA LinkedPrivacy ==
    ASSUME NEW m, NEW n, NEW t \in Tasks, NEW p \in Pages, ~Present(m, t, p), Linked(m, n, t, p),
           NEW tk, NEW w, Privacy(m, tk, w), MaySit(tk, t, p)
    PROVE  Privacy(n, tk, w) /\ Lone(n, t, p)
<1>1. PICK f \in Frames : Fresh(m, n, t, p, f)
  BY DEF Linked
<1>2. Shown(n, w)
  <2>. SUFFICES ASSUME NEW u \in Tasks, NEW q \in Pages, w[u][q] # None
                PROVE  /\ Present(n, u, q) /\ ~n.pte[u][q].shared
                       /\ n.data[n.pte[u][q].frame] = w[u][q]
    BY DEF Shown
  <2>1. /\ Present(m, u, q) /\ ~m.pte[u][q].shared
        /\ m.data[m.pte[u][q].frame] = w[u][q]
    BY DEF Privacy, Shown
  <2>2. Apart(t, p, u, q)
    BY <2>1 DEF Apart
  <2>3. n.pte[u][q] = m.pte[u][q] /\ Present(n, u, q) /\ n.data = m.data
    BY <1>1, <2>1, <2>2, FreshPages DEF Linked, Elsewhere
  <2>. QED
    BY <2>1, <2>3
<1>3. Sharing(n, w) /\ Inside(n, tk) /\ Lone(n, t, p)
  BY <1>1, FreshSharing, FreshInside, FreshLone DEF Privacy
<1> QED
  BY <1>2, <1>3 DEF Privacy

\* A private page is copied.
LEMMA CopiedPrivacy ==
    ASSUME NEW m, Accounted(m), NEW n, NEW t \in Tasks, NEW p \in Pages, Present(m, t, p),
           ~m.pte[t][p].shared, Copied(m, n, t, p), NEW tk, NEW w, Privacy(m, tk, w)
    PROVE  Privacy(n, tk, w) /\ Lone(n, t, p)
<1>1. PICK f \in Frames :
          /\ Fresh(m, n, t, p, f)
          /\ \A g \in Frames : n.data[g] = IF g = f THEN m.data[m.pte[t][p].frame] ELSE m.data[g]
  BY DEF Copied
<1>2. Shown(n, w)
  <2>. SUFFICES ASSUME NEW u \in Tasks, NEW q \in Pages, w[u][q] # None
                PROVE  /\ Present(n, u, q) /\ ~n.pte[u][q].shared
                       /\ n.data[n.pte[u][q].frame] = w[u][q]
    BY DEF Shown
  <2>1. /\ Present(m, u, q) /\ ~m.pte[u][q].shared
        /\ m.data[m.pte[u][q].frame] = w[u][q]
    BY DEF Privacy, Shown
  <2>2. CASE u = t /\ q = p
    <3>1. n.pte[t][p].frame = f /\ Present(n, t, p) /\ ~n.pte[t][p].shared
      BY <1>1, FreshPresent
    <3>. QED
      BY <1>1, <2>1, <2>2, <3>1
  <2>3. CASE Apart(t, p, u, q)
    <3>1. Elsewhere(m, n, u, q, f)
      BY <1>1, <2>3, FreshPages
    <3>2. n.pte[u][q] = m.pte[u][q] /\ Present(n, u, q) /\ m.pte[u][q].frame # f
      BY <2>1, <3>1 DEF Elsewhere
    <3>3. m.pte[u][q].frame \in Frames
      BY <2>1, EntryOf DEF Accounted
    <3>. QED
      BY <1>1, <2>1, <3>2, <3>3
  <2>. QED
    BY <2>2, <2>3 DEF Apart
<1>3. MaySit(tk, t, p)
  BY DEF Privacy, Inside, MaySit
<1>4. Sharing(n, w) /\ Inside(n, tk) /\ Lone(n, t, p)
  BY <1>1, <1>3, FreshSharing, FreshInside, FreshLone DEF Privacy
<1> QED
  BY <1>2, <1>4 DEF Privacy

\* The entry of page p of t has other bits.
LEMMA RebitFrames ==
    ASSUME NEW m, NEW n, NEW t \in Tasks, NEW p \in Pages, Present(m, t, p),
           NEW e \in Entries, e.frame = m.pte[t][p].frame, Entered(m, n, t, p, e),
           NEW u \in Tasks, NEW q \in Pages
    PROVE  /\ Present(n, u, q) <=> Present(m, u, q)
           /\ Apart(t, p, u, q) => n.pte[u][q] = m.pte[u][q]
           /\ n.pte[u][q].frame = m.pte[u][q].frame
<1>1. Present(n, t, p) /\ n.pte[t][p] = e
  BY EnteredPresent
<1>2. Apart(t, p, u, q) => n.pte[u][q] = m.pte[u][q]
  BY DEF Entered, Apart
<1> QED
  BY <1>1, <1>2 DEF Present, Apart

LEMMA RebitPrivacy ==
    ASSUME NEW m, NEW n, NEW t \in Tasks, NEW p \in Pages, Present(m, t, p),
           NEW e \in Entries, e.frame = m.pte[t][p].frame, Entered(m, n, t, p, e),
           n.data = m.data, NEW tk, NEW w, Privacy(m, tk, w),
           e.write => Unwatched(m, w, t, p), e.shared => w[t][p] = None
    PROVE  /\ Privacy(n, tk, w)
           /\ Lone(m, t, p) => Lone(n, t, p)
           /\ Unwatched(m, w, t, p) => Unwatched(n, w, t, p)
           /\ Quiet(m, t, p) => Quiet(n, t, p)
<1>1. \A u \in Tasks, q \in Pages :
        /\ Present(n, u, q) <=> Present(m, u, q)
        /\ Apart(t, p, u, q) => n.pte[u][q] = m.pte[u][q]
        /\ n.pte[u][q].frame = m.pte[u][q].frame
  BY RebitFrames
<1>2. n.pte[t][p] = e
  BY EnteredPresent
<1>3. \A u, x \in Tasks, q, r \in Pages : SameFrame(n, u, q, x, r) <=> SameFrame(m, u, q, x, r)
  BY <1>1 DEF SameFrame
<1>4. Sharing(n, w)
  <2>. SUFFICES ASSUME NEW u \in Tasks, NEW x \in Tasks, NEW q \in Pages, NEW r \in Pages,
                       Apart(u, q, x, r), SameFrame(n, u, q, x, r), w[x][r] # None
                PROVE  ~n.pte[u][q].write
    BY DEF Sharing
  <2>1. SameFrame(m, u, q, x, r)
    BY <1>3
  <2>2. CASE u = t /\ q = p
    <3>1. ~Unwatched(m, w, t, p)
      BY <2>1, <2>2 DEF Unwatched
    <3>. QED
      BY <1>2, <2>2, <3>1
  <2>3. CASE Apart(t, p, u, q)
    <3>1. n.pte[u][q] = m.pte[u][q]
      BY <1>1, <2>3
    <3>. QED
      BY <2>1, <3>1 DEF Privacy, Sharing
  <2>. QED
    BY <2>2, <2>3 DEF Apart
<1>5. Shown(n, w)
  <2>. SUFFICES ASSUME NEW u \in Tasks, NEW q \in Pages, w[u][q] # None
                PROVE  /\ Present(n, u, q) /\ ~n.pte[u][q].shared
                       /\ n.data[n.pte[u][q].frame] = w[u][q]
    BY DEF Shown
  <2>1. /\ Present(m, u, q) /\ ~m.pte[u][q].shared
        /\ m.data[m.pte[u][q].frame] = w[u][q]
    BY DEF Privacy, Shown
  <2>2. ~n.pte[u][q].shared
    <3>1. CASE u = t /\ q = p
      BY <1>2, <3>1
    <3>2. CASE Apart(t, p, u, q)
      BY <1>1, <2>1, <3>2
    <3>. QED
      BY <3>1, <3>2 DEF Apart
  <2>. QED
    BY <1>1, <2>1, <2>2
<1>6. Inside(n, tk)
  BY <1>1 DEF Privacy, Inside
<1>7. Privacy(n, tk, w)
  BY <1>4, <1>5, <1>6 DEF Privacy
<1>8. Lone(m, t, p) => Lone(n, t, p)
  BY <1>3 DEF Lone
<1>9. Unwatched(m, w, t, p) => Unwatched(n, w, t, p)
  BY <1>3 DEF Unwatched
<1>10. Quiet(m, t, p) => Quiet(n, t, p)
  BY <1>1, <1>3 DEF Quiet
<1> QED
  BY <1>7, <1>8, <1>9, <1>10

\* A store into a page in whose frame no other has a view.  What t expects of
\* the page then is v, if the others in the frame may not write, or nothing.
LEMMA StoredPrivacy ==
    ASSUME NEW m, Accounted(m), NEW t \in Tasks, NEW p \in Pages, Present(m, t, p),
           NEW v \in Values, NEW w, NEW w2, NEW x, Seen(w, w2, t, p, x), x = v \/ x = None,
           Unwatched(m, w, t, p), x # None => ~m.pte[t][p].shared /\ Quiet(m, t, p),
           NEW tk, Privacy(m, tk, w)
    PROVE  /\ Privacy(Stored(m, t, p, v), tk, w2)
           /\ Lone(m, t, p) => Lone(Stored(m, t, p, v), t, p)
<1>. DEFINE n == Stored(m, t, p, v)
<1>1. /\ n.pte = m.pte
      /\ \A f \in Frames : n.data[f] = IF f = m.pte[t][p].frame THEN v ELSE m.data[f]
  BY StoredIs DEF SamePages
<1>. HIDE DEF n
<1>2. Sharing(n, w2)
  <2>. SUFFICES ASSUME NEW u \in Tasks, NEW y \in Tasks, NEW q \in Pages, NEW r \in Pages,
                       Apart(u, q, y, r), SameFrame(n, u, q, y, r), w2[y][r] # None
                PROVE  ~n.pte[u][q].write
    BY DEF Sharing
  <2>1. SameFrame(m, u, q, y, r) /\ n.pte[u][q] = m.pte[u][q]
    BY <1>1 DEF SameFrame, Present
  <2>2. CASE y = t /\ r = p
    <3>1. Quiet(m, t, p)
      BY <2>2 DEF Seen
    <3>2. Apart(t, p, u, q) /\ SameFrame(m, t, p, u, q)
      BY <2>1, <2>2 DEF Apart, SameFrame
    <3>. QED
      BY <2>1, <3>1, <3>2 DEF Quiet
  <2>3. CASE Apart(t, p, y, r)
    <3>1. w[y][r] # None
      BY <2>3 DEF Seen, Apart
    <3>. QED
      BY <2>1, <3>1 DEF Privacy, Sharing
  <2>. QED
    BY <2>2, <2>3 DEF Apart
<1>3. Inside(n, tk)
  BY <1>1 DEF Privacy, Inside, Present
<1>4. m.pte[t][p].frame \in Frames
  BY EntryOf DEF Accounted
<1>5. Shown(n, w2)
  <2>. SUFFICES ASSUME NEW u \in Tasks, NEW q \in Pages, w2[u][q] # None
                PROVE  /\ Present(n, u, q) /\ ~n.pte[u][q].shared
                       /\ n.data[n.pte[u][q].frame] = w2[u][q]
    BY DEF Shown
  <2>1. CASE u = t /\ q = p
    <3>1. w2[u][q] = x /\ x # None
      BY <2>1 DEF Seen
    <3>2. w2[u][q] = v /\ ~m.pte[t][p].shared
      BY <3>1
    <3>. QED
      BY <1>1, <1>4, <2>1, <3>2 DEF Present
  <2>2. CASE Apart(t, p, u, q)
    <3>1. w2[u][q] = w[u][q] /\ w[u][q] # None
      BY <2>2 DEF Seen, Apart
    <3>2. /\ Present(m, u, q) /\ ~m.pte[u][q].shared
          /\ m.data[m.pte[u][q].frame] = w[u][q]
      BY <3>1 DEF Privacy, Shown
    <3>3. m.pte[u][q].frame # m.pte[t][p].frame
      BY <2>2, <3>1, <3>2 DEF Unwatched, SameFrame
    <3>4. m.pte[u][q].frame \in Frames
      BY <3>2, EntryOf DEF Accounted
    <3>. QED
      BY <1>1, <3>1, <3>2, <3>3, <3>4 DEF Present
  <2>. QED
    BY <2>1, <2>2 DEF Apart
<1>6. Lone(m, t, p) => Lone(n, t, p)
  BY <1>1 DEF Lone, SameFrame, Present
<1> QED
  BY <1>2, <1>3, <1>5, <1>6 DEF Privacy, n

LEMMA BelowBrk ==
    ASSUME NEW tk \in TaskStates, NEW t \in Tasks, NEW p \in Pages, p < tk[t].brk \/ p = Stack
    PROVE  MaySit(tk, t, p)
<1>1. tk[t].brk \in 1 .. Heap + 1
  BY TaskIs DEF TaskFields
<1>2. Heap \in Nat /\ Stack \in Int /\ p \in Int
  BY StackIs, MemoryAssumption DEF Pages
<1>3. p \in MapPages => Heap < p /\ p < Stack
  BY StackIs
<1> QED
  BY <1>1, <1>2, <1>3, StackIs DEF MaySit

LEMMA LastLone ==
    ASSUME NEW m, Accounted(m), NEW t \in Tasks, NEW p \in Pages, Present(m, t, p),
           m.memory_map[m.pte[t][p].frame] = 1
    PROVE  Lone(m, t, p)
<1>. DEFINE f == m.pte[t][p].frame
<1>1. f \in Frames
  BY EntryOf DEF Accounted
<1>2. \A u \in Tasks, q \in Pages :
        <<u, q>> \in Tasks \X Pages /\ <<u, q>>[1] = u /\ <<u, q>>[2] = q
  OBVIOUS
<1>3. <<t, p>> \in Uses(m, f)
  BY <1>2 DEF Uses
<1>4. Uses(m, f) = {<<t, p>>}
  BY <1>1, <1>3, LastUse, NothingOwed DEF Accounted
<1>5. ASSUME NEW u \in Tasks, NEW q \in Pages, Apart(t, p, u, q), SameFrame(m, t, p, u, q)
      PROVE  FALSE
  <2>1. <<u, q>> \in Uses(m, f)
    BY <1>2, <1>5 DEF Uses, SameFrame
  <2>2. <<u, q>> = <<t, p>>
    BY <1>4, <2>1
  <2>. QED
    BY <1>5, <2>2 DEF Apart
<1> QED
  BY <1>5 DEF Lone

\* The page of t is its own after a fault that did not stop the kernel.
LEMMA FaultedPrivacy ==
    ASSUME NEW m, Accounted(m), NEW n, NEW t \in Tasks, NEW p \in Pages, NEW b,
           Faulted(m, n, t, p, b), NEW tk \in TaskStates, b = tk[t].brk,
           NEW w, Privacy(m, tk, w)
    PROVE  Privacy(n, tk, w) /\ Lone(n, t, p)
<1>1. CASE ~Present(m, t, p) /\ (p < b \/ p = Stack) /\ Linked(m, n, t, p)
  <2>1. MaySit(tk, t, p)
    BY <1>1, BelowBrk
  <2>. QED
    BY <1>1, <2>1, LinkedPrivacy
<1>2. CASE Present(m, t, p) /\ ~m.pte[t][p].shared /\ Copied(m, n, t, p)
  BY <1>2, CopiedPrivacy
<1>3. CASE /\ Present(m, t, p) /\ ~m.pte[t][p].shared
           /\ m.memory_map[m.pte[t][p].frame] = 1 /\ SameRest(m, n)
           /\ Entered(m, n, t, p, Writable(m.pte[t][p]))
  <2>1. m.pte[t][p] \in Entries
    BY <1>3, EntryOf DEF Accounted
  <2>2. PICK e \in Entries : e = Writable(m.pte[t][p])
    BY <2>1, WritableIs
  <2>3. /\ e.frame = m.pte[t][p].frame /\ ~e.shared
        /\ Entered(m, n, t, p, e) /\ n.data = m.data
    BY <1>3, <2>1, <2>2, WritableIs DEF SameRest
  <2>4. Lone(m, t, p) /\ Unwatched(m, w, t, p)
    BY <1>3, LastLone, LoneIs
  <2>. QED
    BY <1>3, <2>3, <2>4, RebitPrivacy
<1> QED
  BY <1>1, <1>2, <1>3 DEF Faulted

\* The view w2 expects nothing of these pages of t, and what may be there with
\* tk, except them, may be there with tk2.
Lost(w, w2, t, pages) ==
    \A u \in Tasks, q \in Pages :
        w2[u][q] = IF u = t /\ q \in pages THEN None ELSE w[u][q]

Leaves(tk, tk2, t, pages) ==
    \A u \in Tasks, q \in Pages :
        MaySit(tk, u, q) /\ ~(u = t /\ q \in pages) => MaySit(tk2, u, q)

\* Pages of t go, with what the task expected of them.
LEMMA DroppedPrivacy ==
    ASSUME NEW m, NEW n, NEW t \in Tasks, NEW pages, Dropped(m, n, t, pages), n.data = m.data,
           NEW tk, NEW w, Privacy(m, tk, w), NEW tk2, NEW w2, Lost(w, w2, t, pages),
           Leaves(tk, tk2, t, pages)
    PROVE  Privacy(n, tk2, w2)
<1>1. ASSUME NEW u \in Tasks, NEW q \in Pages
      PROVE  Present(n, u, q) <=> Present(m, u, q) /\ ~(u = t /\ q \in pages)
  BY DEF Dropped, Present
<1>2. ASSUME NEW u \in Tasks, NEW q \in Pages, Present(n, u, q)
      PROVE  n.pte[u][q] = m.pte[u][q]
  BY <1>1, <1>2 DEF Dropped
<1>3. Sharing(n, w2)
  <2>. SUFFICES ASSUME NEW u \in Tasks, NEW x \in Tasks, NEW q \in Pages, NEW r \in Pages,
                       Apart(u, q, x, r), SameFrame(n, u, q, x, r), w2[x][r] # None
                PROVE  ~n.pte[u][q].write
    BY DEF Sharing
  <2>1. n.pte[u][q] = m.pte[u][q] /\ n.pte[x][r] = m.pte[x][r]
    BY <1>2 DEF SameFrame
  <2>2. SameFrame(m, u, q, x, r)
    BY <1>1, <2>1 DEF SameFrame
  <2>3. w[x][r] # None
    BY DEF Lost
  <2>. QED
    BY <2>1, <2>2, <2>3 DEF Privacy, Sharing
<1>4. Shown(n, w2)
  <2>. SUFFICES ASSUME NEW u \in Tasks, NEW q \in Pages, w2[u][q] # None
                PROVE  /\ Present(n, u, q) /\ ~n.pte[u][q].shared
                       /\ n.data[n.pte[u][q].frame] = w2[u][q]
    BY DEF Shown
  <2>1. ~(u = t /\ q \in pages) /\ w2[u][q] = w[u][q]
    BY DEF Lost
  <2>2. /\ Present(m, u, q) /\ ~m.pte[u][q].shared
        /\ m.data[m.pte[u][q].frame] = w[u][q]
    BY <2>1 DEF Privacy, Shown
  <2>3. Present(n, u, q) /\ n.pte[u][q] = m.pte[u][q]
    BY <1>1, <1>2, <2>1, <2>2
  <2>. QED
    BY <2>1, <2>2, <2>3
<1>5. Inside(n, tk2)
  <2>. SUFFICES ASSUME NEW u \in Tasks, NEW q \in Pages, Present(n, u, q)
                PROVE  MaySit(tk2, u, q)
    BY DEF Inside, MaySit
  <2>1. Present(m, u, q) /\ ~(u = t /\ q \in pages)
    BY <1>1
  <2>2. MaySit(tk, u, q)
    BY <2>1 DEF Privacy, Inside, MaySit
  <2>. QED
    BY <2>1, <2>2 DEF Leaves
<1> QED
  BY <1>3, <1>4, <1>5 DEF Privacy

\* fork: the child has the pages of the parent, none of them writable unless shared.
LEMMA ForkedPrivacy ==
    ASSUME NEW m \in Memories, NEW n, NEW t \in Tasks, NEW c \in Tasks, c # t,
           Forked(m, n, t, c), n.data = m.data,
           NEW tk, NEW w, Privacy(m, tk, w), NEW tk2, NEW w2,
           \A u \in Tasks : tk2[u] = IF u = c THEN tk[t] ELSE tk[u],
           \A u \in Tasks : w2[u] = IF u = c THEN w[t] ELSE w[u]
    PROVE  Privacy(n, tk2, w2)
<1>. DEFINE from(u) == IF u = c THEN t ELSE u
<1>1. ASSUME NEW u \in Tasks
      PROVE  from(u) \in Tasks /\ tk2[u] = tk[from(u)] /\ w2[u] = w[from(u)]
  OBVIOUS
<1>2. ASSUME NEW u \in Tasks, NEW q \in Pages
      PROVE  /\ Present(n, u, q) <=> Present(m, from(u), q)
             /\ Present(n, u, q) => /\ n.pte[u][q].frame = m.pte[from(u)][q].frame
                                    /\ n.pte[u][q].shared = m.pte[from(u)][q].shared
                                    /\ n.pte[u][q].write => m.pte[from(u)][q].write
                                    /\ from(u) = t /\ n.pte[u][q].write => m.pte[t][q].shared
  <2>1. m.pte[t][q] \in Entries \cup {None}
    BY EntryOf
  <2>2. n.pte[u][q] = IF u = t \/ u = c THEN Protected(m.pte[t][q]) ELSE m.pte[u][q]
    BY DEF Forked
  <2>3. CASE from(u) = t
    <3>1. n.pte[u][q] = Protected(m.pte[t][q])
      BY <2>2, <2>3
    <3>. HIDE DEF from
    <3>. QED
      BY <2>1, <2>3, <3>1, ProtectedIs DEF Present
  <2>4. CASE from(u) # t
    <3>1. u # t /\ u # c /\ from(u) = u
      BY <2>4
    <3>. HIDE DEF from
    <3>. QED
      BY <2>2, <3>1 DEF Present
  <2>. QED
    BY <2>3, <2>4
<1>3. ASSUME NEW u \in Tasks, NEW x \in Tasks, from(u) = from(x), u # x
      PROVE  from(u) = t
  BY <1>3
<1>. HIDE DEF from
<1>4. Sharing(n, w2)
  <2>. SUFFICES ASSUME NEW u \in Tasks, NEW x \in Tasks, NEW q \in Pages, NEW r \in Pages,
                       Apart(u, q, x, r), SameFrame(n, u, q, x, r), w2[x][r] # None
                PROVE  ~n.pte[u][q].write
    BY DEF Sharing
  <2>1. Present(n, u, q) /\ Present(n, x, r) /\ n.pte[u][q].frame = n.pte[x][r].frame
    BY DEF SameFrame
  <2>2. SameFrame(m, from(u), q, from(x), r) /\ w[from(x)][r] # None
    BY <1>1, <1>2, <2>1 DEF SameFrame
  <2>3. CASE Apart(from(u), q, from(x), r)
    <3>1. ~m.pte[from(u)][q].write
      BY <1>1, <2>2, <2>3 DEF Privacy, Sharing
    <3>. QED
      BY <1>2, <2>1, <3>1
  <2>4. CASE from(u) = from(x) /\ q = r
    <3>1. from(u) = t
      BY <1>3, <2>4 DEF Apart
    <3>2. n.pte[u][q].write => m.pte[t][q].shared
      BY <1>2, <2>1, <3>1
    <3>3. w[t][q] # None
      BY <2>2, <2>4, <3>1
    <3>4. ~m.pte[t][q].shared
      BY <3>3 DEF Privacy, Shown
    <3>. QED
      BY <3>2, <3>4
  <2>. QED
    BY <2>3, <2>4 DEF Apart
<1>5. Shown(n, w2)
  <2>. SUFFICES ASSUME NEW u \in Tasks, NEW q \in Pages, w2[u][q] # None
                PROVE  /\ Present(n, u, q) /\ ~n.pte[u][q].shared
                       /\ n.data[n.pte[u][q].frame] = w2[u][q]
    BY DEF Shown
  <2>1. w2[u][q] = w[from(u)][q] /\ from(u) \in Tasks
    BY <1>1
  <2>2. /\ Present(m, from(u), q) /\ ~m.pte[from(u)][q].shared
        /\ m.data[m.pte[from(u)][q].frame] = w[from(u)][q]
    BY <2>1 DEF Privacy, Shown
  <2>3. Present(n, u, q)
    BY <1>2, <2>2
  <2>4. /\ n.pte[u][q].frame = m.pte[from(u)][q].frame
        /\ n.pte[u][q].shared = m.pte[from(u)][q].shared
    BY <1>2, <2>3
  <2>. QED
    BY <2>1, <2>2, <2>3, <2>4
<1>6. Inside(n, tk2)
  BY <1>1, <1>2 DEF Privacy, Inside
<1> QED
  BY <1>4, <1>5, <1>6 DEF Privacy

-----------------------------------------------------------------------------
(* Private pages in every behaviour.                                       *)

Views == [Tasks -> [Pages -> Values \cup {None}]]

PrivateInv == view \in Views /\ (mem.failed = 0 => Privacy(mem, task, view))

\* The view w2 is view with x for page p of t and nothing for those lost.
AfterSo(w2, t, p, x, lost) ==
    \A u \in Tasks, q \in Pages :
        w2[u][q] = IF u = t /\ q = p THEN x ELSE IF <<u, q>> \in lost THEN None ELSE view[u][q]

LEMMA AfterIs ==
    ASSUME view \in Views, NEW t \in Tasks, NEW p \in Pages, NEW x \in Values \cup {None},
           NEW lost
    PROVE  After(t, p, x, lost) \in Views /\ AfterSo(After(t, p, x, lost), t, p, x, lost)
<1>1. \A u \in Tasks, q \in Pages : view[u][q] \in Values \cup {None}
  BY DEF Views
<1>. DEFINE value(u, q) ==
         IF u = t /\ q = p THEN x ELSE IF <<u, q>> \in lost THEN None ELSE view[u][q]
<1>2. \A u \in Tasks, q \in Pages : value(u, q) \in Values \cup {None}
  BY <1>1
<1>3. After(t, p, x, lost) = [u \in Tasks |-> [q \in Pages |-> value(u, q)]]
  BY DEF After
<1>4. \A u \in Tasks, q \in Pages : After(t, p, x, lost)[u][q] = value(u, q)
  BY <1>3
<1>5. AfterSo(After(t, p, x, lost), t, p, x, lost)
  BY <1>4 DEF AfterSo
<1>. HIDE DEF value
<1> QED
  BY <1>2, <1>3, <1>5 DEF Views

\* A step first loses what is in lost, and maybe what t expects of p, and then
\* gives t something else to expect there.
LEMMA AfterLess ==
    ASSUME view \in Views, NEW t \in Tasks, NEW p \in Pages, NEW y, y = view[t][p] \/ y = None,
           NEW lost
    PROVE  /\ After(t, p, y, lost) \in Views /\ Less(view, After(t, p, y, lost))
           /\ AfterSo(After(t, p, y, lost), t, p, y, lost)
<1>1. y \in Values \cup {None}
  BY DEF Views
<1>2. After(t, p, y, lost) \in Views /\ AfterSo(After(t, p, y, lost), t, p, y, lost)
  BY <1>1, AfterIs
<1>3. Less(view, After(t, p, y, lost))
  BY <1>2 DEF Less, AfterSo
<1> QED
  BY <1>2, <1>3

LEMMA AfterSeen ==
    ASSUME NEW t \in Tasks, NEW p \in Pages, NEW w1, NEW w2, NEW y, NEW x, NEW lost,
           AfterSo(w1, t, p, y, lost), AfterSo(w2, t, p, x, lost)
    PROVE  Seen(w1, w2, t, p, x)
BY DEF Seen, AfterSo

LEMMA AfterUnwatched ==
    ASSUME NEW m, NEW w, NEW t \in Tasks, NEW p \in Pages, NEW y, NEW lost,
           AfterSo(w, t, p, y, lost),
           \A u \in Tasks, q \in Pages :
               Apart(t, p, u, q) /\ SameFrame(m, t, p, u, q) => <<u, q>> \in lost
    PROVE  Unwatched(m, w, t, p)
BY DEF AfterSo, Unwatched, Apart

LEMMA SharersAre ==
    ASSUME NEW t \in Tasks, NEW p \in Pages
    PROVE  \A u \in Tasks, q \in Pages :
             Apart(t, p, u, q) /\ SameFrame(mem, t, p, u, q) => <<u, q>> \in Sharers(t, p)
<1>. SUFFICES ASSUME NEW u \in Tasks, NEW q \in Pages,
                     Apart(t, p, u, q), SameFrame(mem, t, p, u, q)
              PROVE  <<u, q>> \in Sharers(t, p)
  OBVIOUS
<1>1. <<u, q>> \in Tasks \X Pages /\ <<u, q>>[1] = u /\ <<u, q>>[2] = q
  OBVIOUS
<1>2. <<u, q>> # <<t, p>>
  BY DEF Apart
<1>3. <<u, q>> \in Mapping(mem.pte[t][p].frame)
  BY <1>1 DEF Mapping, SameFrame
<1> QED
  BY <1>2, <1>3 DEF Sharers, SameFrame

\* What t is told to expect may be expected.
LEMMA ToldIs ==
    ASSUME NEW t \in Tasks, NEW p \in Pages, NEW v
    PROVE  /\ Told(t, p, v) = v \/ Told(t, p, v) = None
           /\ Told(t, p, v) # None =>
                 (Present(mem, t, p) => ~mem.pte[t][p].shared) /\ Quiet(mem, t, p)
<1>1. ASSUME \A x \in Sharers(t, p) : ~mem.pte[x[1]][x[2]].write
      PROVE  Quiet(mem, t, p)
  <2>. SUFFICES ASSUME NEW u \in Tasks, NEW q \in Pages,
                       Apart(t, p, u, q), SameFrame(mem, t, p, u, q)
                PROVE  ~mem.pte[u][q].write
    BY DEF Quiet
  <2>1. <<u, q>> \in Sharers(t, p) /\ <<u, q>>[1] = u /\ <<u, q>>[2] = q
    BY SharersAre
  <2>. QED
    BY <1>1, <2>1
<1> QED
  BY <1>1 DEF Told

LEMMA ForgottenIs ==
    ASSUME view \in Views, NEW t \in Tasks, NEW pages, Forgotten(t, pages)
    PROVE  view' \in Views /\ Lost(view, view', t, pages)
<1>1. view[t] \in [Pages -> Values \cup {None}]
  BY DEF Views
<1>. DEFINE row == [q \in Pages |-> IF q \in pages THEN None ELSE view[t][q]]
<1>2. view' = [view EXCEPT ![t] = row]
  BY DEF Forgotten
<1>3. row \in [Pages -> Values \cup {None}]
  BY <1>1
<1>4. \A q \in Pages : row[q] = IF q \in pages THEN None ELSE view[t][q]
  OBVIOUS
<1>. HIDE DEF row
<1>5. view' \in Views /\ \A u \in Tasks : view'[u] = IF u = t THEN row ELSE view[u]
  BY <1>2, <1>3 DEF Views
<1> QED
  BY <1>4, <1>5 DEF Lost

\* More of the addresses of a task may be used.
LEMMA WiderPrivacy ==
    ASSUME NEW m, NEW tk, NEW tk2, NEW w, Privacy(m, tk, w),
           NEW t \in Tasks, Leaves(tk, tk2, t, {})
    PROVE  Privacy(m, tk2, w)
<1>1. Dropped(m, m, t, {}) /\ Lost(w, w, t, {})
  BY DEF Dropped, Lost
<1> QED
  BY <1>1, DroppedPrivacy

\* A step of a task did not stop the kernel.
LEMMA CallDone ==
    ASSUME NEW t, NEW n, CallKeeps(t, n), MemoryInv, PrivateInv, mem'.failed = 0
    PROVE  /\ mem' = n /\ ~Stopped(n) /\ Goes(mem, n, {t}) /\ Accounted(mem)
           /\ mem.failed = 0 /\ Privacy(mem, task, view) /\ task \in TaskStates
<1>1. /\ Accounted(mem) /\ (Stopped(n) \/ Goes(mem, n, {t})) /\ mem.failed = 0
      /\ mem' = IF n.failed = 0 THEN n ELSE Fails(mem, n.failed)
  BY DEF CallKeeps, MemoryInv, Becomes
<1>2. mem' = n /\ Goes(mem, n, {t})
  BY <1>1, BecomesIs
<1> QED
  BY <1>1, <1>2 DEF Stopped, PrivateInv, MemoryInv

\* t may expect x, if anything, once it was stored in its page p.
MayExpect(m, w, t, p, x) ==
    Unwatched(m, w, t, p) /\ (x # None => ~m.pte[t][p].shared /\ Quiet(m, t, p))

\* A store of t, after a fault where the entry does not let it through.
LEMMA StoredByPrivacy ==
    ASSUME NEW m, Accounted(m), NEW n, NEW t \in Tasks, NEW p \in Pages, NEW v \in Values,
           NEW faults \in BOOLEAN, NEW b, StoredBy(m, n, t, p, v, faults, b),
           NEW tk \in TaskStates, b = tk[t].brk, NEW w, NEW w2, NEW x, x = v \/ x = None,
           ~faults => MayExpect(m, w, t, p, x), Seen(w, w2, t, p, x), Privacy(m, tk, w)
    PROVE  Privacy(n, tk, w2)
<1>1. PICK k : /\ Goes(m, k, {t}) /\ Present(k, t, p) /\ n = Stored(k, t, p, v)
               /\ ~faults => k = m
               /\ faults => Faulted(m, k, t, p, b)
  BY DEF StoredBy
<1>2. /\ Privacy(k, tk, w) /\ Unwatched(k, w, t, p)
      /\ x # None => ~k.pte[t][p].shared /\ Quiet(k, t, p)
  <2>1. CASE faults
    <3>1. Faulted(m, k, t, p, b)
      BY <1>1, <2>1
    <3>2. Privacy(k, tk, w) /\ Lone(k, t, p)
      BY <3>1, FaultedPrivacy
    <3>3. ~k.pte[t][p].shared
      BY <3>1, FaultedPresent
    <3>. QED
      BY <3>2, <3>3, LoneIs
  <2>2. CASE ~faults
    <3>1. k = m
      BY <1>1, <2>2
    <3>. QED
      BY <2>2, <3>1 DEF MayExpect
  <2>. QED
    BY <2>1, <2>2
<1>3. Accounted(k)
  BY <1>1 DEF Goes
<1>4. Privacy(Stored(k, t, p, v), tk, w2)
  BY <1>1, <1>2, <1>3, StoredPrivacy
<1> QED
  BY <1>1, <1>4

LEMMA RebitsPrivacy ==
    ASSUME NEW m, Accounted(m), m.failed = 0, NEW n, NEW t \in Tasks, NEW p \in Pages,
           Present(m, t, p), NEW shared \in BOOLEAN, Rebit(m, n, t, p, shared),
           NEW tk, NEW w, Privacy(m, tk, w),
           n.pte[t][p].write => Unwatched(m, w, t, p),
           m.pte[t][p].shared \/ shared => w[t][p] = None
    PROVE  /\ Privacy(n, tk, w) /\ Present(n, t, p)
           /\ n.pte[t][p].shared <=> m.pte[t][p].shared \/ shared
           /\ Lone(m, t, p) => Lone(n, t, p)
           /\ Unwatched(m, w, t, p) => Unwatched(n, w, t, p)
           /\ Quiet(m, t, p) => Quiet(n, t, p)
<1>1. PICK e \in Entries : /\ e.frame = m.pte[t][p].frame
                           /\ e.shared <=> m.pte[t][p].shared \/ shared
                           /\ n = Enter(m, t, p, e)
  BY DEF Rebit
<1>2. Entered(m, n, t, p, e) /\ n.data = m.data
  BY <1>1, BitsAccounted DEF SameRest
<1>3. Present(n, t, p) /\ n.pte[t][p] = e
  BY <1>2, EnteredPresent
<1>4. (e.write => Unwatched(m, w, t, p)) /\ (e.shared => w[t][p] = None)
  BY <1>1, <1>3
<1>5. /\ Privacy(n, tk, w)
      /\ Lone(m, t, p) => Lone(n, t, p)
      /\ Unwatched(m, w, t, p) => Unwatched(n, w, t, p)
      /\ Quiet(m, t, p) => Quiet(n, t, p)
  BY <1>1, <1>2, <1>4, RebitPrivacy
<1> QED
  BY <1>1, <1>3, <1>5

\* An entry that may be written: no other in its frame has a view.
LEMMA WriteUnwatched ==
    ASSUME NEW m, NEW w, Sharing(m, w), NEW t \in Tasks, NEW p \in Pages, m.pte[t][p].write
    PROVE  Unwatched(m, w, t, p)
BY DEF Sharing, Unwatched

LEMMA WritePrivate ==
    ASSUME MemoryInv, PrivateInv, NEW t \in Tasks, NEW p \in Pages, NEW v \in Values,
           Write(t, p, v)
    PROVE  PrivateInv'
<1>1. PICK faults \in BOOLEAN :
        /\ CallKeeps(t, FaultStore(mem, t, p, v, faults))
        /\ faults = (~Present(mem, t, p) \/ ~mem.pte[t][p].write)
        /\ ~Stopped(FaultStore(mem, t, p, v, faults))
           => StoredBy(mem, FaultStore(mem, t, p, v, faults), t, p, v, faults, task[t].brk)
  BY WriteCalls
<1>. DEFINE n == FaultStore(mem, t, p, v, faults)
<1>2. PICK x : x = IF faults THEN v ELSE Told(t, p, v)
  OBVIOUS
<1>3. view' = After(t, p, x, {}) /\ task' = task
  BY <1>1, <1>2 DEF Write
<1>4. /\ x = v \/ x = None
      /\ ~faults => (x # None => ~mem.pte[t][p].shared /\ Quiet(mem, t, p))
  BY <1>1, <1>2, ToldIs
<1>5. PICK y : y = view[t][p]
  OBVIOUS
<1>6. PICK w1 : w1 = After(t, p, y, {})
  OBVIOUS
<1>7. view \in Views /\ x \in Values \cup {None}
  BY <1>4 DEF PrivateInv
<1>8. Less(view, w1) /\ AfterSo(w1, t, p, y, {})
  BY <1>5, <1>6, <1>7, AfterLess
<1>9. view' \in Views /\ AfterSo(view', t, p, x, {})
  BY <1>3, <1>7, AfterIs
<1>10. Seen(w1, view', t, p, x)
  BY <1>8, <1>9, AfterSeen
<1>. HIDE DEF n
<1>11. ASSUME mem'.failed = 0
       PROVE  mem' = n /\ Privacy(n, task, view')
  <2>1. /\ mem' = n /\ ~Stopped(n) /\ Accounted(mem) /\ Privacy(mem, task, view)
        /\ task \in TaskStates
    BY <1>1, <1>11, CallDone DEF n
  <2>2. StoredBy(mem, n, t, p, v, faults, task[t].brk)
    BY <1>1, <2>1 DEF n
  <2>3. Privacy(mem, task, w1)
    BY <1>8, <2>1, ForgetPrivacy
  <2>4. ~faults => MayExpect(mem, w1, t, p, x)
    BY <1>1, <1>4, <2>3, WriteUnwatched DEF Privacy, MayExpect
  <2>5. Privacy(n, task, view')
    BY <1>4, <1>10, <2>1, <2>2, <2>3, <2>4, StoredByPrivacy
  <2>. QED
    BY <2>1, <2>5
<1> QED
  BY <1>3, <1>9, <1>11 DEF PrivateInv

LEMMA ReadPrivate ==
    ASSUME MemoryInv, PrivateInv, NEW t \in Tasks, NEW p \in Pages, Read(t, p)
    PROVE  PrivateInv'
<1>. DEFINE n == page_fault(mem, t, p)
<1>1. /\ CallKeeps(t, n) /\ (~Stopped(n) => Faulted(mem, n, t, p, task[t].brk))
      /\ task' = task /\ view' = view
  BY ReadCalls DEF Read
<1>. HIDE DEF n
<1>2. ASSUME mem'.failed = 0
      PROVE  mem' = n /\ Privacy(n, task, view)
  <2>1. /\ mem' = n /\ ~Stopped(n) /\ Accounted(mem) /\ Privacy(mem, task, view)
        /\ task \in TaskStates
    BY <1>1, <1>2, CallDone
  <2>. QED
    BY <1>1, <2>1, FaultedPrivacy
<1> QED
  BY <1>1, <1>2 DEF PrivateInv

\* After what the kernel tramples on is lost, nobody else watches the frame.
LEMMA TroddenUnwatched ==
    ASSUME NEW t \in Tasks, NEW p \in Pages, NEW w, NEW y, AfterSo(w, t, p, y, Trodden(t, p)),
           Sharing(mem, w), Present(mem, t, p)
    PROVE  Unwatched(mem, w, t, p)
<1>1. CASE mem.pte[t][p].write
  BY <1>1, WriteUnwatched
<1>2. CASE ~mem.pte[t][p].write
  <2>1. Trodden(t, p) = Sharers(t, p)
    BY <1>2 DEF Trodden
  <2>2. \A u \in Tasks, q \in Pages :
          Apart(t, p, u, q) /\ SameFrame(mem, t, p, u, q) => <<u, q>> \in Trodden(t, p)
    BY <2>1, SharersAre
  <2>. QED
    BY <2>2, AfterUnwatched
<1> QED
  BY <1>1, <1>2

\* The kernel stores v in page p of t: w1 is what is expected yet, w2 what is
\* expected after it.
LEMMA KernelStorePrivacy ==
    ASSUME MemoryInv, PrivateInv, mem.failed = 0, NEW t \in Tasks, NEW p \in Pages,
           NEW v \in Values, NEW faults \in BOOLEAN, ~faults => Present(mem, t, p),
           NEW n, StoredBy(mem, n, t, p, v, faults, task[t].brk)
    PROVE  /\ After(t, p, Told(t, p, v), Trodden(t, p)) \in Views
           /\ Privacy(n, task, After(t, p, Told(t, p, v), Trodden(t, p)))
<1>1. PICK x, lost : x = Told(t, p, v) /\ lost = Trodden(t, p)
  OBVIOUS
<1>2. PICK w2 : w2 = After(t, p, x, lost)
  OBVIOUS
<1>3. /\ x = v \/ x = None
      /\ ~faults => (x # None => ~mem.pte[t][p].shared /\ Quiet(mem, t, p))
  BY <1>1, ToldIs
<1>4. PICK y : y = view[t][p]
  OBVIOUS
<1>5. PICK w1 : w1 = After(t, p, y, lost)
  OBVIOUS
<1>6. /\ view \in Views /\ x \in Values \cup {None} /\ Privacy(mem, task, view)
      /\ Accounted(mem) /\ task \in TaskStates
  BY <1>3 DEF PrivateInv, MemoryInv
<1>7. Less(view, w1) /\ AfterSo(w1, t, p, y, lost)
  BY <1>4, <1>5, <1>6, AfterLess
<1>8. w2 \in Views /\ AfterSo(w2, t, p, x, lost)
  BY <1>2, <1>6, AfterIs
<1>9. Seen(w1, w2, t, p, x)
  BY <1>7, <1>8, AfterSeen
<1>10. Privacy(mem, task, w1)
  BY <1>6, <1>7, ForgetPrivacy
<1>11. ~faults => Unwatched(mem, w1, t, p)
  <2>1. AfterSo(w1, t, p, y, Trodden(t, p)) /\ Sharing(mem, w1)
    BY <1>1, <1>7, <1>10 DEF Privacy
  <2>. QED
    BY <2>1, TroddenUnwatched
<1>12. ~faults => MayExpect(mem, w1, t, p, x)
  BY <1>3, <1>11 DEF MayExpect
<1>13. Privacy(n, task, w2)
  BY <1>3, <1>6, <1>9, <1>10, <1>12, StoredByPrivacy
<1> QED
  BY <1>1, <1>2, <1>8, <1>13

LEMMA KernelWritePrivate ==
    ASSUME MemoryInv, PrivateInv, NEW t \in Tasks, NEW p \in Pages, NEW v \in Values,
           KernelWrite(t, p, v)
    PROVE  PrivateInv'
<1>. DEFINE n == KernelStore(mem, t, p, v)
<1>1. PICK faults \in BOOLEAN : faults = ~Present(mem, t, p)
  OBVIOUS
<1>2. /\ CallKeeps(t, n)
      /\ ~Stopped(n) => StoredBy(mem, n, t, p, v, faults, task[t].brk)
  BY <1>1, KernelWriteCalls
<1>3. PICK w2 : w2 = After(t, p, Told(t, p, v), Trodden(t, p))
  OBVIOUS
<1>4. view' = w2 /\ task' = task
  BY <1>3 DEF KernelWrite
<1>5. w2 \in Views
  <2>1. Told(t, p, v) \in Values \cup {None} /\ view \in Views
    BY ToldIs DEF PrivateInv
  <2>. QED
    BY <1>3, <2>1, AfterIs
<1>. HIDE DEF n
<1>6. ASSUME mem'.failed = 0
      PROVE  mem' = n /\ Privacy(n, task, w2)
  <2>1. mem' = n /\ ~Stopped(n) /\ mem.failed = 0
    BY <1>2, <1>6, CallDone
  <2>2. StoredBy(mem, n, t, p, v, faults, task[t].brk)
    BY <1>2, <2>1
  <2>3. ~faults => Present(mem, t, p)
    BY <1>1
  <2>. QED
    BY <1>3, <2>1, <2>2, <2>3, KernelStorePrivacy
<1> QED
  BY <1>4, <1>5, <1>6 DEF PrivateInv

LEMMA BrkPrivate ==
    ASSUME MemoryInv, PrivateInv, NEW t \in Tasks, NEW b \in 1 .. Heap + 1, sys_brk(t, b)
    PROVE  PrivateInv'
<1>1. CASE UNCHANGED vars
  BY <1>1 DEF vars, PrivateInv
<1>2. CASE /\ CallKeeps(t, unlink_pages(mem, t, Above(t, b)))
           /\ Above(t, b) \in SUBSET Pages
           /\ Dropped(mem, unlink_pages(mem, t, Above(t, b)), t, Above(t, b))
           /\ SameRest(mem, unlink_pages(mem, t, Above(t, b)))
           /\ BrkTo(task, task', t, b)
           /\ Forgotten(t, Above(t, b))
  <2>. DEFINE gone == Above(t, b)
              n == unlink_pages(mem, t, gone)
  <2>1. view' \in Views /\ Lost(view, view', t, gone)
    BY <1>2, ForgottenIs DEF PrivateInv
  <2>2. task \in TaskStates
    BY DEF MemoryInv
  <2>3. \A u \in Tasks : /\ task'[u].vmap = task[u].vmap
                         /\ task'[u].brk = IF u = t THEN b ELSE task[u].brk
    BY <1>2, <2>2, BrkTask
  <2>4. Leaves(task, task', t, gone)
    <3>. SUFFICES ASSUME NEW u \in Tasks, NEW q \in Pages, MaySit(task, u, q),
                         ~(u = t /\ q \in gone)
                  PROVE  MaySit(task', u, q)
      BY DEF Leaves
    <3>1. CASE u # t
      BY <2>3, <3>1 DEF MaySit
    <3>2. CASE u = t
      <4>1. q \notin Above(t, b)
        BY <3>2
      <4>2. q <= Heap => q \in 1 .. Heap /\ q < task[t].brk
        BY <3>2, MemoryAssumption DEF MaySit, Pages
      <4>3. q <= Heap => ~(b <= q)
        BY <4>1, <4>2 DEF Above
      <4>4. q <= Heap => q < b
        BY <4>2, <4>3
      <4>. QED
        BY <2>3, <3>2, <4>4 DEF MaySit
    <3>. QED
      BY <3>1, <3>2
  <2>5. CallKeeps(t, n) /\ Dropped(mem, n, t, gone) /\ n.data = mem.data
    BY <1>2 DEF SameRest
  <2>. HIDE DEF n, gone
  <2>6. ASSUME mem'.failed = 0
        PROVE  mem' = n /\ Privacy(n, task', view')
    <3>1. mem' = n /\ Privacy(mem, task, view)
      BY <2>5, <2>6, CallDone
    <3>2. Privacy(n, task', view')
      BY <2>1, <2>4, <2>5, <3>1, DroppedPrivacy
    <3>. QED
      BY <3>1, <3>2
  <2>. QED
    BY <2>1, <2>6 DEF PrivateInv
<1> QED
  BY <1>1, <1>2, BrkCalls

LEMMA MunmapPrivate ==
    ASSUME MemoryInv, PrivateInv, NEW t \in Tasks, NEW p \in MapPages, sys_munmap(t, p)
    PROVE  PrivateInv'
<1>. DEFINE n == unlink_pages(mem, t, {p})
<1>1. /\ CallKeeps(t, n) /\ Dropped(mem, n, t, {p}) /\ n.data = mem.data
      /\ VmapTo(task, task', t, task[t].vmap \ {p})
  BY MunmapCalls DEF SameRest
<1>. HIDE DEF n
<1>2. Forgotten(t, {p})
  BY DEF sys_munmap
<1>3. view' \in Views /\ Lost(view, view', t, {p})
  BY <1>2, ForgottenIs DEF PrivateInv
<1>4. task \in TaskStates
  BY DEF MemoryInv
<1>5. task[t].vmap \ {p} \in SUBSET MapPages
  BY <1>4, TaskIs DEF TaskFields
<1>6. PICK S \in SUBSET MapPages : S = task[t].vmap \ {p}
  BY <1>5
<1>7. VmapTo(task, task', t, S) /\ task \in TaskStates
  BY <1>1, <1>4, <1>6
<1>8. Vmapped(task, task', t, S)
  BY <1>7, VmapTask
<1>9. Leaves(task, task', t, {p})
  BY <1>6, <1>8 DEF Leaves, MaySit, Vmapped
<1>10. ASSUME mem'.failed = 0
       PROVE  mem' = n /\ Privacy(n, task', view')
  <2>1. mem' = n /\ Privacy(mem, task, view)
    BY <1>1, <1>10, CallDone
  <2>2. Privacy(n, task', view')
    BY <1>1, <1>3, <1>9, <2>1, DroppedPrivacy
  <2>. QED
    BY <2>1, <2>2
<1> QED
  BY <1>3, <1>10 DEF PrivateInv

LEMMA ForkPrivate ==
    ASSUME MemoryInv, PrivateInv, NEW t \in Tasks, NEW c \in Tasks, task_fork(t, c)
    PROVE  PrivateInv'
<1>. DEFINE n == copy_pde(mem, t, c)
<1>1. /\ mem.failed = 0 /\ c # t /\ TaskTo(task, task', c, task[t])
      /\ Stopped(n) \/ (Goes(mem, n, {t, c}) /\ Forked(mem, n, t, c) /\ n.data = mem.data)
  BY ForkCalls
<1>2. mem' = IF n.failed = 0 THEN n ELSE Fails(mem, n.failed)
  BY ForkCalls DEF Becomes
<1>. HIDE DEF n
<1>3. task \in TaskStates /\ Accounted(mem) /\ mem \in Memories
  BY DEF MemoryInv, Accounted
<1>4. \A u \in Tasks : task'[u] = IF u = c THEN task[t] ELSE task[u]
  BY <1>1, <1>3, TaskIs, TaskSet
<1>5. view' \in Views /\ \A u \in Tasks : view'[u] = IF u = c THEN view[t] ELSE view[u]
  BY DEF task_fork, PrivateInv, Views
<1>6. ASSUME mem'.failed = 0
      PROVE  mem' = n /\ Privacy(n, task', view')
  <2>1. Stopped(n) \/ Goes(mem, n, {t, c})
    BY <1>1
  <2>2. mem' = n
    BY <1>2, <1>3, <1>6, <2>1, BecomesIs
  <2>3. Forked(mem, n, t, c) /\ n.data = mem.data
    BY <1>1, <1>6, <2>2 DEF Stopped
  <2>4. Privacy(mem, task, view)
    BY <1>1 DEF PrivateInv
  <2>5. Privacy(n, task', view')
    BY <1>1, <1>3, <1>4, <1>5, <2>3, <2>4, ForkedPrivacy
  <2>. QED
    BY <2>2, <2>5
<1> QED
  BY <1>5, <1>6 DEF PrivateInv

LEMMA ExitPrivate ==
    ASSUME MemoryInv, PrivateInv, NEW t \in Tasks, task_exit(t)
    PROVE  PrivateInv'
<1>1. /\ mem.failed = 0 /\ mem'.data = mem.data /\ Dropped(mem, mem', t, Pages)
      /\ TaskTo(task, task', t, EmptyTask) /\ task \in TaskStates
  BY ExitCalls DEF MemoryInv, SameRest
<1>2. \A u \in Tasks : task'[u] = IF u = t THEN EmptyTask ELSE task[u]
  BY <1>1, EmptyTaskIs, TaskSet
<1>3. Forgotten(t, Pages)
  BY DEF task_exit
<1>4. view' \in Views /\ Lost(view, view', t, Pages)
  BY <1>3, ForgottenIs DEF PrivateInv
<1>5. Leaves(task, task', t, Pages)
  BY <1>2 DEF Leaves, MaySit
<1>6. Privacy(mem, task, view)
  BY <1>1 DEF PrivateInv
<1>7. Privacy(mem', task', view')
  BY <1>1, <1>4, <1>5, <1>6, DroppedPrivacy
<1> QED
  BY <1>4, <1>7 DEF PrivateInv

\* The view after mmap: x is what t expects of the page.
MmapView(w2, t, p, write, shared, file, x) ==
    /\ w2 = After(t, p, x, IF write \/ file THEN Sharers(t, p) ELSE {})
    /\ x = IF shared THEN None ELSE IF file THEN Told(t, p, Program) ELSE view[t][p]

\* The memory k in which the page is linked.
LEMMA MappedPrivacy ==
    ASSUME MemoryInv, PrivateInv, mem.failed = 0, NEW t \in Tasks, NEW p \in Pages,
           NEW write \in BOOLEAN, NEW shared \in BOOLEAN, NEW file \in BOOLEAN,
           NEW n, NEW k, NEW a, MappedBy(mem, n, t, p, write, shared, file, k, a),
           NEW tk, Leaves(task, tk, t, {}), MaySit(tk, t, p),
           NEW w2, NEW x, MmapView(w2, t, p, write, shared, file, x)
    PROVE  w2 \in Views /\ Privacy(n, tk, w2)
<1>1. PICK lost : lost = IF write \/ file THEN Sharers(t, p) ELSE {}
  OBVIOUS
<1>2. PICK y : y = IF shared THEN None ELSE view[t][p]
  OBVIOUS
<1>3. PICK w1 : w1 = After(t, p, y, lost)
  OBVIOUS
<1>4. view \in Views /\ Privacy(mem, task, view) /\ Accounted(mem)
  BY DEF PrivateInv, MemoryInv
<1>5. Less(view, w1) /\ w1 \in Views /\ AfterSo(w1, t, p, y, lost)
  BY <1>2, <1>3, <1>4, AfterLess
<1>6. /\ w2 = After(t, p, x, lost)
      /\ x = IF shared THEN None ELSE IF file THEN Told(t, p, Program) ELSE view[t][p]
  BY <1>1 DEF MmapView
<1>7. x \in Values \cup {None}
  <2>1. Told(t, p, Program) \in Values \cup {None} /\ view[t][p] \in Values \cup {None}
    BY <1>4, ToldIs, ProgramIs DEF Views
  <2>. QED
    BY <1>6, <2>1
<1>8. w2 \in Views /\ AfterSo(w2, t, p, x, lost)
  BY <1>4, <1>6, <1>7, AfterIs
<1>9. /\ Goes(mem, k, {t}) /\ Present(k, t, p)
      /\ ~Present(mem, t, p) => Linked(mem, k, t, p)
      /\ Present(mem, t, p) => k = mem
      /\ Rebit(k, a, t, p, shared) /\ Goes(k, a, {t}) /\ (a.pte[t][p].write <=> write)
      /\ n = IF file THEN Stored(a, t, p, Program) ELSE a
  BY DEF MappedBy
<1>10. Accounted(k) /\ k.failed = 0 /\ Accounted(a)
  BY <1>9 DEF Goes
<1>11. Privacy(mem, tk, w1)
  <2>1. Privacy(mem, tk, view)
    BY <1>4, WiderPrivacy
  <2>. QED
    BY <1>5, <2>1, ForgetPrivacy
<1>12. /\ Privacy(k, tk, w1)
       /\ write \/ file => Unwatched(k, w1, t, p)
       /\ ~Present(mem, t, p) => Lone(k, t, p) /\ ~k.pte[t][p].shared
  <2>1. CASE Present(mem, t, p)
    <3>1. k = mem
      BY <1>9, <2>1
    <3>2. ASSUME write \/ file
          PROVE  Unwatched(mem, w1, t, p)
      <4>1. \A u \in Tasks, q \in Pages :
              Apart(t, p, u, q) /\ SameFrame(mem, t, p, u, q) => <<u, q>> \in lost
        BY <1>1, <3>2, SharersAre
      <4>. QED
        BY <1>5, <4>1, AfterUnwatched
    <3>. QED
      BY <1>11, <2>1, <3>1, <3>2
  <2>2. CASE ~Present(mem, t, p)
    <3>1. Linked(mem, k, t, p)
      BY <1>9, <2>2
    <3>2. Privacy(k, tk, w1) /\ Lone(k, t, p)
      BY <1>11, <2>2, <3>1, LinkedPrivacy
    <3>3. ~k.pte[t][p].shared
      BY <3>1, FreshPresent DEF Linked
    <3>. QED
      BY <3>2, <3>3, LoneIs
  <2>. QED
    BY <2>1, <2>2
<1>13. k.pte[t][p].shared \/ shared => w1[t][p] = None
  <2>1. shared => w1[t][p] = None
    BY <1>2, <1>5 DEF AfterSo
  <2>2. k.pte[t][p].shared => w1[t][p] = None
    BY <1>12 DEF Privacy, Shown
  <2>. QED
    BY <2>1, <2>2
<1>14. a.pte[t][p].write => Unwatched(k, w1, t, p)
  BY <1>9, <1>12
<1>15. /\ Privacy(a, tk, w1) /\ Present(a, t, p)
       /\ a.pte[t][p].shared <=> k.pte[t][p].shared \/ shared
       /\ Lone(k, t, p) => Lone(a, t, p)
       /\ Unwatched(k, w1, t, p) => Unwatched(a, w1, t, p)
       /\ Quiet(k, t, p) => Quiet(a, t, p)
  BY <1>9, <1>10, <1>12, <1>13, <1>14, RebitsPrivacy
<1>16. Seen(w1, w2, t, p, x)
  BY <1>5, <1>8, AfterSeen
<1>17. CASE file
  <2>1. x = Program \/ x = None
    BY <1>6, <1>17, ToldIs
  <2>2. x # None => ~a.pte[t][p].shared /\ Quiet(a, t, p)
    <3>. SUFFICES ASSUME x # None
                  PROVE  ~a.pte[t][p].shared /\ Quiet(a, t, p)
      OBVIOUS
    <3>1. ~shared /\ Told(t, p, Program) # None
      BY <1>6, <1>17
    <3>2. (Present(mem, t, p) => ~mem.pte[t][p].shared) /\ Quiet(mem, t, p)
      BY <3>1, ToldIs
    <3>3. ~k.pte[t][p].shared /\ Quiet(k, t, p)
      BY <1>9, <1>12, <3>2, LoneIs
    <3>. QED
      BY <1>15, <3>1, <3>3
  <2>3. Unwatched(a, w1, t, p)
    BY <1>12, <1>15, <1>17
  <2>4. PICK v \in Values : v = Program
    BY ProgramIs
  <2>5. Privacy(Stored(a, t, p, v), tk, w2)
    BY <1>10, <1>15, <1>16, <2>1, <2>2, <2>3, <2>4, StoredPrivacy
  <2>. QED
    BY <1>8, <1>9, <1>17, <2>4, <2>5
<1>18. CASE ~file
  <2>1. w2 = w1
    BY <1>2, <1>3, <1>6, <1>18
  <2>. QED
    BY <1>8, <1>9, <1>15, <1>18, <2>1
<1> QED
  BY <1>17, <1>18

LEMMA MmapPrivate ==
    ASSUME MemoryInv, PrivateInv, NEW t \in Tasks, NEW p \in MapPages,
           NEW write \in BOOLEAN, NEW shared \in BOOLEAN, NEW file \in BOOLEAN,
           sys_mmap(t, p, write, shared, file)
    PROVE  PrivateInv'
<1>. DEFINE n == Mapped(mem, t, p, write, shared, file)
<1>1. /\ CallKeeps(t, n) /\ p \in Pages
      /\ VmapTo(task, task', t, task[t].vmap \cup {p})
  BY MmapCalls
<1>2. ~Stopped(n) => MappedSo(mem, n, t, p, write, shared, file)
  BY MmapCalls
<1>. HIDE DEF n
<1>3. task \in TaskStates
  BY DEF MemoryInv
<1>4. task[t].vmap \cup {p} \in SUBSET MapPages
  BY <1>3, TaskIs DEF TaskFields
<1>5. PICK S \in SUBSET MapPages : S = task[t].vmap \cup {p}
  BY <1>4
<1>6. VmapTo(task, task', t, S)
  BY <1>1, <1>5
<1>7. Vmapped(task, task', t, S)
  BY <1>3, <1>6, VmapTask
<1>8. Leaves(task, task', t, {}) /\ MaySit(task', t, p)
  <2>1. Leaves(task, task', t, {})
    BY <1>5, <1>7 DEF Leaves, MaySit, Vmapped
  <2>2. ~(p <= Heap)
    BY <1>1, StackIs, MemoryAssumption DEF Pages
  <2>3. MaySit(task', t, p)
    BY <1>5, <1>7, <2>2 DEF MaySit, Vmapped
  <2>. QED
    BY <2>1, <2>3
<1>9. PICK x : MmapView(view', t, p, write, shared, file, x)
  BY DEF sys_mmap, MmapView
<1>10. view' \in Views
  <2>1. view \in Views
    BY DEF PrivateInv
  <2>2. Told(t, p, Program) \in Values \cup {None} /\ view[t][p] \in Values \cup {None}
    BY <1>1, <2>1, ToldIs, ProgramIs DEF Views
  <2>3. x \in Values \cup {None}
    BY <1>9, <2>2 DEF MmapView
  <2>. QED
    BY <1>1, <1>9, <2>1, <2>3, AfterIs DEF MmapView
<1>11. ASSUME mem'.failed = 0
       PROVE  mem' = n /\ Privacy(n, task', view')
  <2>1. mem' = n /\ ~Stopped(n) /\ mem.failed = 0
    BY <1>1, <1>11, CallDone
  <2>2. PICK k, a : MappedBy(mem, n, t, p, write, shared, file, k, a)
    BY <1>2, <2>1 DEF MappedSo
  <2>3. Privacy(n, task', view')
    BY <1>1, <1>8, <1>9, <2>1, <2>2, MappedPrivacy
  <2>. QED
    BY <2>1, <2>3
<1> QED
  BY <1>10, <1>11 DEF PrivateInv

\* What t expects after j pages of its program were loaded, where w was before
\* its heap was given back.
Expects(w, t, j, u, q) ==
    IF u # t THEN w[u][q]
    ELSE IF q <= j THEN Program ELSE IF q <= Heap THEN None ELSE w[u][q]

ExecView(w, t, j) == [u \in Tasks |-> [q \in Pages |-> Expects(w, t, j, u, q)]]

\* The state of t with its brk behind the page j.
ExecBrk(tk, t, j) == [tk EXCEPT ![t] = [tk[t] EXCEPT !.brk = j + 1]]

ExecViewIs(w, w2, t, j) ==
    \A u \in Tasks, q \in Pages : w2[u][q] = Expects(w, t, j, u, q)

LEMMA ExpectsIs ==
    ASSUME NEW w, NEW t, NEW j
    PROVE  ExecViewIs(w, ExecView(w, t, j), t, j)
BY DEF ExecViewIs, ExecView

LEMMA ExecBrkIs ==
    ASSUME NEW tk \in TaskStates, NEW t \in Tasks, NEW j \in 0 .. Heap
    PROVE  /\ ExecBrk(tk, t, j) \in TaskStates
           /\ \A u \in Tasks : /\ ExecBrk(tk, t, j)[u].vmap = tk[u].vmap
                               /\ ExecBrk(tk, t, j)[u].brk = IF u = t THEN j + 1 ELSE tk[u].brk
<1>1. j + 1 \in 1 .. Heap + 1
  BY MemoryAssumption
<1>2. PICK b \in 1 .. Heap + 1 : b = j + 1
  BY <1>1
<1>3. BrkTo(tk, ExecBrk(tk, t, j), t, b)
  BY <1>2 DEF BrkTo, TaskTo, ExecBrk
<1> QED
  BY <1>2, <1>3, BrkTask

\* A page of the program is loaded where nothing was.
LEMMA LoadedPrivacy ==
    ASSUME NEW m, Accounted(m), NEW n, NEW t \in Tasks, NEW p \in Pages, NEW k, NEW b,
           LoadedBy(m, n, t, p, k, b), ~Present(m, t, p), NEW tk, MaySit(tk, t, p),
           NEW w, NEW w2, Seen(w, w2, t, p, Program), Privacy(m, tk, w)
    PROVE  Privacy(n, tk, w2)
<1>1. /\ Goes(m, k, {t}) /\ Present(k, t, p) /\ Linked(m, k, t, p)
      /\ b = Stored(k, t, p, Program) /\ Goes(k, b, {t}) /\ Rebit(b, n, t, p, FALSE)
  BY DEF LoadedBy
<1>2. Accounted(k) /\ Accounted(b) /\ b.failed = 0
  BY <1>1 DEF Goes
<1>3. /\ Privacy(k, tk, w) /\ Lone(k, t, p) /\ Unwatched(k, w, t, p) /\ Quiet(k, t, p)
      /\ ~k.pte[t][p].shared
  <2>1. Privacy(k, tk, w) /\ Lone(k, t, p)
    BY <1>1, LinkedPrivacy
  <2>2. ~k.pte[t][p].shared
    BY <1>1, FreshPresent DEF Linked
  <2>. QED
    BY <2>1, <2>2, LoneIs
<1>4. PICK x : x = Program
  OBVIOUS
<1>5. x \in Values /\ Seen(w, w2, t, p, x) /\ b = Stored(k, t, p, x)
  BY <1>1, <1>4, ProgramIs
<1>6. Privacy(b, tk, w2) /\ Lone(b, t, p)
  BY <1>1, <1>2, <1>3, <1>5, StoredPrivacy
<1>7. Present(b, t, p) /\ ~b.pte[t][p].shared /\ Unwatched(b, w2, t, p)
  <2>1. SamePages(k, Stored(k, t, p, x))
    BY <1>1, <1>2, <1>5, StoredIs
  <2>. QED
    BY <1>1, <1>3, <1>5, <1>6, <2>1, LoneIs DEF SamePages, Present
<1>8. PICK shared \in BOOLEAN : shared = FALSE
  OBVIOUS
<1>9. Rebit(b, n, t, p, shared)
  BY <1>1, <1>8
<1> QED
  BY <1>2, <1>6, <1>7, <1>8, <1>9, RebitsPrivacy

\* All pages of a program that the heap has room for.
LEMMA LoadElfPrivacy ==
    ASSUME NEW m, Accounted(m), m.failed = 0, NEW t \in Tasks, NEW n \in Nat, n <= Heap,
           NEW data \in Int, NEW tk \in TaskStates, NEW w,
           Privacy(m, ExecBrk(tk, t, 0), ExecView(w, t, 0))
    PROVE  \A p \in 0 .. n :
             LoadSeq(m, t, n, data)[p].failed = 0
             => Privacy(LoadSeq(m, t, n, data)[p], ExecBrk(tk, t, p), ExecView(w, t, p))
<1>. DEFINE g == LoadSeq(m, t, n, data)
            Good(p) == g[p].failed = 0 => Privacy(g[p], ExecBrk(tk, t, p), ExecView(w, t, p))
            Bad == {p \in 0 .. n : ~Good(p)}
<1>1. Bad \in SUBSET Nat
  OBVIOUS
<1>2. g[0] = m /\ \A p \in 1 .. n : g[p] = IF g[p - 1].failed # 0 THEN g[p - 1]
                                          ELSE Load(g[p - 1], t, p, p >= data)
  BY LoadElf
<1>3. \A p \in 0 .. n : Stopped(g[p]) \/ Goes(m, g[p], {t})
  BY LoadElfGoes
<1>. HIDE DEF g
<1>4. ASSUME Bad # {}
      PROVE  FALSE
  <2>. HIDE DEF Bad
  <2>1. PICK x \in Bad : \A y \in Bad : x <= y
    BY <1>1, <1>4, LeastNumber
  <2>2. x \in 0 .. n /\ ~Good(x)
    BY <2>1 DEF Bad
  <2>3. x # 0
    BY <1>2, <2>2
  <2>4. x \in 1 .. n /\ x - 1 \in 0 .. n /\ x - 1 \notin Bad
    BY <2>1, <2>2, <2>3
  <2>5. Good(x - 1)
    BY <2>4 DEF Bad
  <2>6. g[x] = IF g[x - 1].failed # 0 THEN g[x - 1] ELSE Load(g[x - 1], t, x, x >= data)
    BY <1>2, <2>4
  <2>7. g[x].failed = 0 /\ ~Privacy(g[x], ExecBrk(tk, t, x), ExecView(w, t, x))
    BY <2>2
  <2>8. g[x - 1].failed = 0
    BY <2>6, <2>7
  <2>9. Privacy(g[x - 1], ExecBrk(tk, t, x - 1), ExecView(w, t, x - 1))
    BY <2>5, <2>8
  <2>. HIDE DEF Good
  <2>10. x \in Pages /\ x <= Heap /\ x \in 0 .. Heap /\ x - 1 \in 0 .. Heap
    BY <2>4, MemoryAssumption DEF Pages, Stack
  <2>11. PICK write \in BOOLEAN : write = (x >= data)
    <3>1. (x >= data) \in BOOLEAN
      BY <2>4
    <3>. QED
      BY <3>1
  <2>12. g[x] = Load(g[x - 1], t, x, write)
    BY <2>6, <2>8, <2>11
  <2>13. Accounted(g[x - 1])
    BY <1>3, <2>4, <2>8 DEF Stopped, Goes
  <2>14. ~Stopped(Load(g[x - 1], t, x, write))
    BY <2>7, <2>12 DEF Stopped
  <2>15. LoadedSo(g[x - 1], g[x], t, x)
    BY <2>8, <2>10, <2>12, <2>13, <2>14, LoadResult
  <2>16. PICK k, b : LoadedBy(g[x - 1], g[x], t, x, k, b)
    BY <2>15 DEF LoadedSo
  <2>. DEFINE old == ExecBrk(tk, t, x - 1)
              new == ExecBrk(tk, t, x)
              w1 == ExecView(w, t, x - 1)
              w2 == ExecView(w, t, x)
  <2>17. \A u \in Tasks : /\ old[u].vmap = new[u].vmap
                          /\ old[u].brk = IF u = t THEN x ELSE new[u].brk
    BY <2>10, ExecBrkIs
  <2>18. \A u \in Tasks : u = t => new[u].brk = x + 1
    BY <2>10, ExecBrkIs
  <2>19. Seen(w1, w2, t, x, Program)
    <3>1. ExecViewIs(w, w1, t, x - 1) /\ ExecViewIs(w, w2, t, x)
      BY ExpectsIs
    <3>. HIDE DEF w1, w2
    <3>2. \A q \in Pages : q \in Int /\ (q <= x <=> q <= x - 1 \/ q = x)
      BY <2>10 DEF Pages
    <3>. QED
      BY <2>10, <3>1, <3>2 DEF Seen, ExecViewIs, Expects
  <2>. HIDE DEF old, new, w1, w2
  <2>20. Privacy(g[x - 1], old, w1)
    BY <2>9 DEF old, w1
  <2>21. ~Present(g[x - 1], t, x)
    <3>1. old[t].brk = x
      BY <2>17
    <3>2. ~(x < old[t].brk)
      BY <2>10, <3>1
    <3>. QED
      BY <2>10, <2>20, <3>2 DEF Privacy, Inside
  <2>22. x \notin MapPages
    BY <2>10, StackIs, MemoryAssumption
  <2>23. MaySit(new, t, x)
    <3>1. x < new[t].brk
      BY <2>10, <2>18
    <3>. QED
      BY <2>22, <3>1 DEF MaySit
  <2>24. Leaves(old, new, t, {})
    <3>. SUFFICES ASSUME NEW u \in Tasks, NEW q \in Pages, MaySit(old, u, q)
                  PROVE  MaySit(new, u, q)
      BY DEF Leaves
    <3>1. CASE u # t
      BY <2>17, <3>1 DEF MaySit
    <3>2. CASE u = t
      <4>1. q < old[u].brk => q < new[u].brk
        BY <2>10, <2>17, <2>18, <3>2 DEF Pages
      <4>. QED
        BY <2>17, <4>1 DEF MaySit
    <3>. QED
      BY <3>1, <3>2
  <2>25. Privacy(g[x - 1], new, w1)
    BY <2>20, <2>24, WiderPrivacy
  <2>26. Privacy(g[x], new, w2)
    BY <2>10, <2>13, <2>16, <2>19, <2>21, <2>23, <2>25, LoadedPrivacy
  <2>. QED
    BY <2>7, <2>26 DEF new, w2
<1> QED
  BY <1>4 DEF g

\* The heap of t is given back after the arguments were stored: what is
\* expected is what exec expects before the first page is loaded.
LEMMA EmptiedPrivacy ==
    ASSUME NEW m, Accounted(m), m.failed = 0, NEW t \in Tasks, NEW v \in Values, task \in TaskStates,
           Args(m, t, v).failed = 0, NEW w1, Privacy(Args(m, t, v), task, w1)
    PROVE  Privacy(Emptied(m, t, v), ExecBrk(task, t, 0), ExecView(w1, t, 0))
<1>. DEFINE a == Args(m, t, v)
            e == Emptied(m, t, v)
            heap == 1 .. Heap
            gone == {p \in 1 .. Heap : p < task[t].brk}
            w2 == ExecView(w1, t, 0)
            tk2 == ExecBrk(task, t, 0)
<1>1. Heap \in Nat /\ 0 \in 0 .. Heap
  BY MemoryAssumption
<1>2. Privacy(a, task, w1)
  OBVIOUS
<1>3. Dropped(a, e, t, gone) /\ e.data = a.data
  BY EmptiedGoes DEF SameRest
<1>4. ExecViewIs(w1, w2, t, 0)
  BY ExpectsIs
<1>5. \A u \in Tasks : /\ tk2[u].vmap = task[u].vmap
                       /\ tk2[u].brk = IF u = t THEN 0 + 1 ELSE task[u].brk
  BY <1>1, ExecBrkIs
<1>. HIDE DEF a, e, w2, tk2
<1>6. Dropped(a, e, t, heap)
  <2>. SUFFICES ASSUME NEW u \in Tasks, NEW q \in Pages
                PROVE  e.pte[u][q] = IF u = t /\ q \in heap THEN None ELSE a.pte[u][q]
    BY DEF Dropped
  <2>1. e.pte[u][q] = IF u = t /\ q \in gone THEN None ELSE a.pte[u][q]
    BY <1>3 DEF Dropped
  <2>2. u = t /\ q \in heap /\ q \notin gone => a.pte[u][q] = None
    BY <1>2 DEF Privacy, Inside, Present
  <2>. QED
    BY <2>1, <2>2
<1>7. Lost(w1, w2, t, heap)
  <2>. SUFFICES ASSUME NEW u \in Tasks, NEW q \in Pages
                PROVE  w2[u][q] = IF u = t /\ q \in heap THEN None ELSE w1[u][q]
    BY DEF Lost
  <2>1. q \in Int /\ q >= 1 /\ (q \in heap <=> q <= Heap) /\ ~(q <= 0)
    BY <1>1 DEF Pages
  <2>2. w2[u][q] = Expects(w1, t, 0, u, q)
    BY <1>4 DEF ExecViewIs
  <2>. HIDE DEF heap
  <2>. QED
    BY <2>1, <2>2 DEF Expects
<1>8. Leaves(task, tk2, t, heap)
  <2>. SUFFICES ASSUME NEW u \in Tasks, NEW q \in Pages, MaySit(task, u, q), ~(u = t /\ q \in heap)
                PROVE  MaySit(tk2, u, q)
    BY DEF Leaves
  <2>1. u = t => ~(q <= Heap)
    BY <1>1 DEF Pages
  <2>. QED
    BY <1>5, <2>1 DEF MaySit
<1>. HIDE DEF heap, gone
<1>9. Privacy(e, tk2, w2)
  BY <1>2, <1>3, <1>6, <1>7, <1>8, DroppedPrivacy
<1> QED
  BY <1>9 DEF e, tk2, w2

\* A program is no larger than what is free when it is loaded, because the
\* kernel's own pages are counted among the free ones: brk is not refused.
LEMMA ProgramFits ==
    ASSUME MaxProgram <= Kernel, NEW m, Accounted(m), NEW n \in 1 .. MaxProgram
    PROVE  n <= m.free_pages
<1>1. m.free_pages = Cardinality(FreeFrames(m)) + Kernel /\ m \in Memories
  BY DEF Accounted, Frees
<1>2. Cardinality(FreeFrames(m)) \in Nat /\ Kernel \in Nat /\ MaxProgram \in Nat
  BY <1>1, FiniteFree, MemoryAssumption
<1> QED
  BY <1>1, <1>2

LEMMA ExecPrivate ==
    ASSUME MaxProgram <= Kernel, MemoryInv, PrivateInv, NEW t \in Tasks,
           NEW n \in 1 .. MaxProgram, NEW data \in 1 .. Heap + 1, NEW v \in Values,
           NEW elf \in BOOLEAN, sys_execve(t, n, data, v, elf)
    PROVE  PrivateInv'
<1>. DEFINE x == Execed(mem, t, n, data, v, elf)
            e == Emptied(mem, t, v)
<1>1. CallKeeps(t, x) /\ x \in Memories /\ ExecTo(task, task', t, n, x.free_pages)
  BY ExecCalls
<1>2. n \in Nat /\ n <= Heap /\ data \in Int /\ n \in 0 .. n /\ n \in 0 .. Heap
  BY MemoryAssumption
<1>3. view \in Views /\ task \in TaskStates
  BY DEF PrivateInv, MemoryInv
<1>4. PICK told : told = After(t, Stack, Told(t, Stack, v), Trodden(t, Stack))
  OBVIOUS
<1>5. x = IF Args(mem, t, v).failed # 0 THEN Args(mem, t, v)
          ELSE IF ~elf THEN Fails(e, 712) ELSE load_elf(e, t, n, data)
  BY DEF Execed
<1>6. told \in Views
  <2>1. Told(t, Stack, v) \in Values \cup {None} /\ Stack \in Pages
    BY StackIs, ToldIs
  <2>. QED
    BY <1>3, <1>4, <2>1, AfterIs
<1>7. view' \in Views /\ ExecViewIs(told, view', t, n)
  <2>. DEFINE row == [p \in Pages |-> IF p <= n THEN Program ELSE IF p <= Heap THEN None
                                      ELSE told[t][p]]
  <2>1. view' = [told EXCEPT ![t] = row]
    BY <1>4 DEF sys_execve
  <2>2. told[t] \in [Pages -> Values \cup {None}]
    BY <1>6 DEF Views
  <2>3. row \in [Pages -> Values \cup {None}]
    BY <2>2, ProgramIs
  <2>4. \A q \in Pages : row[q] = Expects(told, t, n, t, q)
    BY DEF Expects
  <2>. HIDE DEF row
  <2>5. view' \in Views /\ \A u \in Tasks : view'[u] = IF u = t THEN row ELSE told[u]
    BY <1>6, <2>1, <2>3 DEF Views
  <2>6. \A u \in Tasks, q \in Pages : u # t => Expects(told, t, n, u, q) = told[u][q]
    BY DEF Expects
  <2>. QED
    BY <2>4, <2>5, <2>6 DEF ExecViewIs
<1>. HIDE DEF x, e
<1>8. ASSUME mem'.failed = 0
      PROVE  mem' = x /\ Privacy(x, task', view')
  <2>1. /\ mem' = x /\ Goes(mem, x, {t}) /\ Accounted(mem) /\ mem.failed = 0
        /\ Privacy(mem, task, view)
    BY <1>1, <1>8, CallDone
  <2>2. x.failed = 0 /\ Accounted(x)
    BY <2>1 DEF Goes
  <2>3. Args(mem, t, v).failed = 0
    BY <1>5, <2>2
  <2>4. Goes(mem, e, {t}) /\ e \in Memories
    BY <2>1, <2>3, EmptiedGoes DEF e, Goes, Accounted
  <2>5. elf /\ x = LoadSeq(e, t, n, data)[n]
    <3>1. 712 \in Int /\ Fails(e, 712).failed = 712
      BY <2>4, FailsIs
    <3>2. elf
      BY <1>5, <2>2, <2>3, <3>1
    <3>. QED
      BY <1>2, <1>5, <2>3, <3>2, LoadElf
  <2>6. Privacy(e, ExecBrk(task, t, 0), ExecView(told, t, 0))
    <3>1. PICK faults \in BOOLEAN : faults = ~Present(mem, t, Stack)
      OBVIOUS
    <3>2. Stack \in Pages
      BY StackIs
    <3>3. StoredBy(mem, Args(mem, t, v), t, Stack, v, faults, task[t].brk)
      BY <2>1, <2>3, <3>1, <3>2, KernelStoreResult DEF Args, Stopped
    <3>4. ~faults => Present(mem, t, Stack)
      BY <3>1
    <3>5. Privacy(Args(mem, t, v), task, told)
      BY <1>4, <2>1, <3>2, <3>3, <3>4, KernelStorePrivacy
    <3>. QED
      BY <1>3, <2>1, <2>3, <3>5, EmptiedPrivacy DEF e
  <2>7. Accounted(e) /\ e.failed = 0
    BY <2>4 DEF Goes
  <2>8. Privacy(x, ExecBrk(task, t, n), ExecView(told, t, n))
    <3>1. \A p \in 0 .. n :
             LoadSeq(e, t, n, data)[p].failed = 0
             => Privacy(LoadSeq(e, t, n, data)[p], ExecBrk(task, t, p), ExecView(told, t, p))
      BY <1>2, <1>3, <2>6, <2>7, LoadElfPrivacy
    <3>. QED
      BY <1>2, <2>2, <2>5, <3>1
  <2>. DEFINE old == ExecBrk(task, t, n)
              w2 == ExecView(told, t, n)
  <2>9. \A u \in Tasks : /\ old[u].vmap = task[u].vmap
                         /\ old[u].brk = IF u = t THEN n + 1 ELSE task[u].brk
    BY <1>2, <1>3, ExecBrkIs
  <2>10. \A u \in Tasks, q \in Pages : w2[u][q] = view'[u][q]
    <3>1. ExecViewIs(told, w2, t, n)
      BY ExpectsIs
    <3>. HIDE DEF w2
    <3>. QED
      BY <1>7, <3>1 DEF ExecViewIs
  <2>. HIDE DEF old, w2
  <2>11. PICK free \in Int : free = x.free_pages
    BY <1>1, FieldsOf
  <2>12. ExecTo(task, task', t, n, free) /\ n <= free
    BY <1>1, <2>2, <2>11, ProgramFits
  <2>13. \A u \in Tasks : /\ task'[u].alive = task[u].alive /\ task'[u].vmap = task[u].vmap
                          /\ u # t => task'[u].brk = task[u].brk
                          /\ u = t /\ n <= free => task'[u].brk = n + 1
    BY <1>3, <2>12, ExecTask
  <2>14. Leaves(old, task', t, {})
    BY <2>9, <2>12, <2>13 DEF Leaves, MaySit
  <2>15. Dropped(x, x, t, {}) /\ Lost(w2, view', t, {})
    BY <2>10 DEF Dropped, Lost
  <2>16. Privacy(x, old, w2)
    BY <2>8 DEF old, w2
  <2>17. Privacy(x, task', view')
    BY <2>14, <2>15, <2>16, DroppedPrivacy
  <2>. QED
    BY <2>1, <2>17
<1> QED
  BY <1>7, <1>8 DEF PrivateInv

LEMMA InitPrivate == Init => PrivateInv
<1>. SUFFICES ASSUME Init
              PROVE  PrivateInv
  OBVIOUS
<1>1. \A t \in Tasks, p \in Pages : ~Present(mem, t, p) /\ view[t][p] = None
  BY DEF Init, Present
<1>2. view \in Views
  BY DEF Init, Views
<1>3. Privacy(mem, task, view)
  BY <1>1 DEF Privacy, Sharing, SameFrame, Shown, Inside
<1> QED
  BY <1>2, <1>3 DEF PrivateInv

LEMMA StepPrivate ==
    ASSUME MaxProgram <= Kernel, MemoryInv, PrivateInv, [Next]_vars
    PROVE  PrivateInv'
<1>1. CASE UNCHANGED vars
  BY <1>1 DEF vars, PrivateInv
<1>2. CASE Next
  BY <1>2, NextIs, ReadPrivate, WritePrivate, KernelWritePrivate, BrkPrivate, MmapPrivate,
     MunmapPrivate, ForkPrivate, ExitPrivate, ExecPrivate
<1> QED
  BY <1>1, <1>2

\* A task finds in a private page what it wrote there last, or its parent
\* before the fork, whatever the other tasks write, map, fork, load or leave
\* (copy_pde, copy_page, page_fault and sys_mmap in memory.c); a store of the
\* kernel into a shared frame, or a second mmap of a page in one, spoils the
\* pages in that frame and no others.  A program is to fit in the pages that
\* free_pages counts too much, so that sys_brk in execve does not refuse it.
THEOREM PagesArePrivate ==
    ASSUME MaxProgram <= Kernel
    PROVE  Spec => []PrivateIsPrivate
<1>1. PrivateInv => PrivateIsPrivate
  BY DEF PrivateInv, Privacy, Shown, PrivateIsPrivate, Alive
<1>2. MemoryInv /\ PrivateInv /\ [Next]_vars => PrivateInv'
  BY StepPrivate
<1> QED
  BY <1>1, <1>2, InitPrivate, InvAlways, PTL DEF Spec
=============================================================================
