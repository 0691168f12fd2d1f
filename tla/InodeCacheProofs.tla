-------------------------- MODULE InodeCacheProofs --------------------------
(***************************************************************************)
(* Proofs about InodeCache, for any number of tasks, inodes and super      *)
(* blocks and any paths, of which one task mounts, umounts and formats:    *)
(* the count of an inode is the number of its references at every          *)
(* micro-step, the table has no inode twice, and who meets an inode        *)
(* without its block meets the task that reads it.                         *)
(*                                                                         *)
(* InodeInvariant has the inductive invariant.  First lists of micro-steps *)
(* and of inodes: what each conjunct says of a list of which the head is   *)
(* done, and with micro-steps in front.  Then how one step of one task     *)
(* changes the sums over all tasks (CallStep, SmallStep), what a change of *)
(* one slot or of one super block keeps, and a lemma for each kind of      *)
(* micro-step, on the tables before and after it.  The actions of the      *)
(* module come last, each by the lemmas of its kind.                       *)
(***************************************************************************)
EXTENDS InodeInvariant, TLAPS, FiniteSetTheorems, SequenceTheorems, WellFoundedInduction

-----------------------------------------------------------------------------
(* Lists of micro-steps.                                                   *)

HasKind(ops, kind) == \E k \in 1 .. Len(ops) : ops[k][1] = kind
Where(ops, S) == {k \in 1 .. Len(ops) : ops[k] \in S}
Occ(ops, S) == Cardinality(Where(ops, S))
In(x, S) == IF x \in S THEN 1 ELSE 0

Above(op, S) == IsMount(op) => \A m \in S : Rank(op) < Rank(m)

HomedFirst(ops) == \A k \in 1 .. Len(ops) : ops[k][1] = "homed" => k = 1
ClearFirst(ops) == \A k \in 1 .. Len(ops) : ops[k][1] = "clear" => k = 1
ClearOf(op, x, sup) == x[1] = "clear" => DropsOf(op, sup[x[2]][x[3]])
Ending(ops) ==
    \A k \in 1 .. Len(ops) : ops[k][1] \in Lookups \/ (k = Len(ops) /\ ops[k][1] \in Finals)
-----------------------------------------------------------------------------
(* Numbers and sequences.                                                  *)

\* Every nonempty set of naturals has a least element.
LEMMA LeastNumber ==
    ASSUME NEW T \in SUBSET Nat, T # {}
    PROVE  \E m \in T : \A y \in T : m <= y
<1>1. IsWellFoundedOn({ss \in Nat \X Nat : ss[1] < ss[2]}, Nat)
  BY NatLessThanWellFounded DEF OpToRel
<1>2. PICK m \in T : \A y \in T : <<y, m>> \notin {ss \in Nat \X Nat : ss[1] < ss[2]}
  BY <1>1, WFMin
<1>3. \A y \in T : y \in Nat /\ m \in Nat /\ ~(y < m)
  BY <1>2
<1> QED
  BY <1>3

LEMMA MinIsIn ==
    ASSUME NEW T \in SUBSET Nat, T # {}
    PROVE  Min(T) \in T /\ \A y \in T : Min(T) <= y
BY LeastNumber DEF Min

LEMMA Ahead ==
    ASSUME NEW X, NEW x \in X, NEW q \in Seq(X)
    PROVE  /\ <<x>> \o q \in Seq(X) /\ Len(<<x>> \o q) = Len(q) + 1 /\ <<x>> \o q # << >>
           /\ (<<x>> \o q)[1] = x
           /\ \A k \in 1 .. Len(q) : (<<x>> \o q)[k + 1] = q[k]
           /\ Head(<<x>> \o q) = x /\ Tail(<<x>> \o q) = q
<1>1. <<x>> \in Seq(X) /\ Len(<<x>>) = 1
  OBVIOUS
<1>2. /\ <<x>> \o q \in Seq(X) /\ Len(<<x>> \o q) = Len(q) + 1
      /\ \A k \in 1 .. Len(q) + 1 : (<<x>> \o q)[k] = IF k <= 1 THEN <<x>>[k] ELSE q[k - 1]
  BY <1>1, ConcatProperties
<1>3. Len(q) \in Nat
  BY LenProperties
<1>4. (<<x>> \o q)[1] = x /\ \A k \in 1 .. Len(q) : (<<x>> \o q)[k + 1] = q[k]
  BY <1>2, <1>3
<1>5. <<x>> \o q # << >>
  BY <1>2, <1>3
<1>6. /\ Head(<<x>> \o q) = x
      /\ Tail(<<x>> \o q) \in Seq(X) /\ Len(Tail(<<x>> \o q)) = Len(q)
      /\ \A k \in 1 .. Len(q) : Tail(<<x>> \o q)[k] = q[k]
  BY <1>2, <1>3, <1>4, <1>5, HeadTailProperties
<1>7. Tail(<<x>> \o q) = q
  BY <1>6, SeqEqual
<1> QED
  BY <1>2, <1>4, <1>5, <1>6, <1>7

LEMMA HeadFirst ==
    ASSUME NEW X, NEW q \in Seq(X), q # << >>
    PROVE  Head(q) \in X /\ Tail(q) \in Seq(X) /\ q = <<Head(q)>> \o Tail(q)
<1>1. /\ Head(q) \in X /\ Tail(q) \in Seq(X) /\ Len(Tail(q)) = Len(q) - 1
      /\ \A k \in 1 .. Len(Tail(q)) : Tail(q)[k] = q[k + 1]
      /\ Head(q) = q[1] /\ Len(q) \in Nat /\ Len(q) # 0
  BY HeadTailProperties, EmptySeq, LenProperties
<1>2. /\ <<Head(q)>> \o Tail(q) \in Seq(X) /\ Len(<<Head(q)>> \o Tail(q)) = Len(q)
      /\ (<<Head(q)>> \o Tail(q))[1] = q[1]
      /\ \A k \in 1 .. Len(q) - 1 : (<<Head(q)>> \o Tail(q))[k + 1] = q[k + 1]
  BY <1>1, Ahead
<1>3. ASSUME NEW k \in 1 .. Len(q)
      PROVE  (<<Head(q)>> \o Tail(q))[k] = q[k]
  <2>1. CASE k = 1
    BY <1>2, <2>1
  <2>2. CASE k # 1
    <3>1. PICK j \in 1 .. Len(q) - 1 : k = j + 1
      BY <1>1, <2>2
    <3> QED
      BY <1>2, <3>1
  <2> QED
    BY <2>1, <2>2
<1> QED
  BY <1>1, <1>2, <1>3, SeqEqual

LEMMA Pair ==
    ASSUME NEW X, NEW a \in X, NEW b \in X
    PROVE  <<a, b>> \in Seq(X) /\ <<a>> \o <<b>> = <<a, b>>
<1>1. <<a>> \in Seq(X) /\ <<b>> \in Seq(X) /\ Len(<<a>>) = 1 /\ Len(<<b>>) = 1
  OBVIOUS
<1>2. <<a, b>> \in Seq(X) /\ Len(<<a, b>>) = 2
  OBVIOUS
<1>3. /\ <<a>> \o <<b>> \in Seq(X) /\ Len(<<a>> \o <<b>>) = 2
      /\ \A i \in 1 .. 2 : (<<a>> \o <<b>>)[i] = IF i <= 1 THEN <<a>>[i] ELSE <<b>>[i - 1]
  BY <1>1, ConcatProperties
<1>4. \A i \in 1 .. 2 : i = 1 \/ i = 2
  OBVIOUS
<1>5. \A i \in 1 .. 2 : (<<a>> \o <<b>>)[i] = <<a, b>>[i]
  BY <1>3, <1>4
<1> QED
  BY <1>2, <1>3, <1>5, SeqEqual

\* Lists of two, three and four before a list.
LEMMA TwoAhead ==
    ASSUME NEW X, NEW a \in X, NEW b \in X, NEW q \in Seq(X)
    PROVE  <<a, b>> \o q = <<a>> \o (<<b>> \o q)
<1>1. <<a>> \in Seq(X) /\ <<b>> \in Seq(X)
  OBVIOUS
<1>2. (<<a>> \o <<b>>) \o q = <<a>> \o (<<b>> \o q)
  BY <1>1, ConcatAssociative
<1> QED
  BY <1>2, Pair

LEMMA Triple ==
    ASSUME NEW X, NEW a \in X, NEW b \in X, NEW c \in X
    PROVE  <<a, b, c>> \in Seq(X) /\ <<a>> \o <<b, c>> = <<a, b, c>>
<1>1. /\ <<a, b, c>> \in Seq(X) /\ Len(<<a, b, c>>) = 3
      /\ <<a, b, c>>[1] = a /\ <<a, b, c>>[2] = b /\ <<a, b, c>>[3] = c
  OBVIOUS
<1>2. <<b, c>> \in Seq(X) /\ Len(<<b, c>>) = 2 /\ <<b, c>>[1] = b /\ <<b, c>>[2] = c
  OBVIOUS
<1>3. /\ <<a>> \o <<b, c>> \in Seq(X) /\ Len(<<a>> \o <<b, c>>) = 3
      /\ (<<a>> \o <<b, c>>)[1] = a
      /\ \A i \in 1 .. 2 : (<<a>> \o <<b, c>>)[i + 1] = <<b, c>>[i]
  BY <1>2, Ahead
<1>4. (<<a>> \o <<b, c>>)[2] = b /\ (<<a>> \o <<b, c>>)[3] = c
  <2>1. 1 \in 1 .. 2 /\ 2 \in 1 .. 2 /\ 1 + 1 = 2 /\ 2 + 1 = 3
    OBVIOUS
  <2> QED
    BY <1>2, <1>3, <2>1
<1>5. \A i \in 1 .. 3 : i = 1 \/ i = 2 \/ i = 3
  OBVIOUS
<1>6. \A i \in 1 .. 3 : (<<a>> \o <<b, c>>)[i] = <<a, b, c>>[i]
  BY <1>1, <1>3, <1>4, <1>5
<1> QED
  BY <1>1, <1>3, <1>6, SeqEqual

LEMMA Quadruple ==
    ASSUME NEW X, NEW a \in X, NEW b \in X, NEW c \in X, NEW e \in X
    PROVE  <<a, b, c, e>> \in Seq(X) /\ <<a>> \o <<b, c, e>> = <<a, b, c, e>>
<1>1. /\ <<a, b, c, e>> \in Seq(X) /\ Len(<<a, b, c, e>>) = 4
      /\ <<a, b, c, e>>[1] = a /\ <<a, b, c, e>>[2] = b /\ <<a, b, c, e>>[3] = c
      /\ <<a, b, c, e>>[4] = e
  OBVIOUS
<1>2. <<b, c, e>> \in Seq(X) /\ Len(<<b, c, e>>) = 3 /\ <<b, c, e>>[1] = b /\ <<b, c, e>>[2] = c
      /\ <<b, c, e>>[3] = e
  OBVIOUS
<1>3. /\ <<a>> \o <<b, c, e>> \in Seq(X) /\ Len(<<a>> \o <<b, c, e>>) = 4
      /\ (<<a>> \o <<b, c, e>>)[1] = a
      /\ \A i \in 1 .. 3 : (<<a>> \o <<b, c, e>>)[i + 1] = <<b, c, e>>[i]
  BY <1>2, Ahead
<1>4. (<<a>> \o <<b, c, e>>)[2] = b /\ (<<a>> \o <<b, c, e>>)[3] = c /\ (<<a>> \o <<b, c, e>>)[4] = e
  <2>1. 1 \in 1 .. 3 /\ 2 \in 1 .. 3 /\ 3 \in 1 .. 3 /\ 1 + 1 = 2 /\ 2 + 1 = 3 /\ 3 + 1 = 4
    OBVIOUS
  <2> QED
    BY <1>2, <1>3, <2>1
<1>5. \A i \in 1 .. 4 : i = 1 \/ i = 2 \/ i = 3 \/ i = 4
  OBVIOUS
<1>6. \A i \in 1 .. 4 : (<<a>> \o <<b, c, e>>)[i] = <<a, b, c, e>>[i]
  BY <1>1, <1>3, <1>4, <1>5
<1> QED
  BY <1>1, <1>3, <1>6, SeqEqual

-----------------------------------------------------------------------------
(* What a micro-step adds at the front of a list.                          *)

\* The positions of the longer list.
LEMMA AheadIndex ==
    ASSUME NEW X, NEW x \in X, NEW q \in Seq(X), NEW k \in 1 .. Len(<<x>> \o q)
    PROVE  k = 1 \/ \E j \in 1 .. Len(q) : k = j + 1 /\ (<<x>> \o q)[k] = q[j]
<1>1. Len(<<x>> \o q) = Len(q) + 1 /\ Len(q) \in Nat
      /\ \A j \in 1 .. Len(q) : (<<x>> \o q)[j + 1] = q[j]
  BY Ahead, LenProperties
<1>2. CASE k # 1
  <2>1. k - 1 \in 1 .. Len(q) /\ k = (k - 1) + 1
    BY <1>1, <1>2
  <2> QED
    BY <1>1, <2>1
<1> QED
  BY <1>2

LEMMA MountsAhead ==
    ASSUME NEW X, NEW x \in X, NEW q \in Seq(X)
    PROVE  Mounts(<<x>> \o q) = (IF IsMount(x) THEN {x} ELSE {}) \cup Mounts(q)
<1> DEFINE r == <<x>> \o q
<1>1. /\ Len(r) = Len(q) + 1 /\ Len(q) \in Nat /\ r[1] = x
      /\ \A j \in 1 .. Len(q) : j + 1 \in 1 .. Len(r) /\ r[j + 1] = q[j]
      /\ 1 \in 1 .. Len(r)
  BY Ahead, LenProperties
<1>2. \A k \in 1 .. Len(r) : k = 1 \/ \E j \in 1 .. Len(q) : k = j + 1 /\ r[k] = q[j]
  BY AheadIndex
<1> HIDE DEF r
<1>3. Mounts(r) \subseteq (IF IsMount(x) THEN {x} ELSE {}) \cup Mounts(q)
  BY <1>1, <1>2 DEF Mounts
<1>4. (IF IsMount(x) THEN {x} ELSE {}) \cup Mounts(q) \subseteq Mounts(r)
  BY <1>1 DEF Mounts
<1> QED
  BY <1>3, <1>4 DEF r

LEMMA HasAhead ==
    ASSUME NEW X, NEW x \in X, NEW q \in Seq(X), NEW op
    PROVE  /\ Has(<<x>> \o q, op) <=> x = op \/ Has(q, op)
           /\ HasKind(<<x>> \o q, op) <=> x[1] = op \/ HasKind(q, op)
<1> DEFINE r == <<x>> \o q
<1>1. /\ Len(r) = Len(q) + 1 /\ Len(q) \in Nat /\ r[1] = x
      /\ \A j \in 1 .. Len(q) : j + 1 \in 1 .. Len(r) /\ r[j + 1] = q[j]
      /\ 1 \in 1 .. Len(r)
  BY Ahead, LenProperties
<1>2. \A k \in 1 .. Len(r) : k = 1 \/ \E j \in 1 .. Len(q) : k = j + 1 /\ r[k] = q[j]
  BY AheadIndex
<1> HIDE DEF r
<1>3. Has(r, op) <=> x = op \/ Has(q, op)
  <2>1. ASSUME NEW k \in 1 .. Len(r), r[k] = op
        PROVE  x = op \/ Has(q, op)
    BY <1>1, <1>2, <2>1 DEF Has
  <2>2. x = op => Has(r, op)
    BY <1>1 DEF Has
  <2>3. ASSUME NEW k \in 1 .. Len(q), q[k] = op
        PROVE  Has(r, op)
    BY <1>1, <2>3 DEF Has
  <2> QED
    BY <2>1, <2>2, <2>3 DEF Has
<1>4. HasKind(r, op) <=> x[1] = op \/ HasKind(q, op)
  BY <1>1, <1>2 DEF HasKind
<1> QED
  BY <1>3, <1>4 DEF r

LEMMA WhereIsFinite ==
    ASSUME NEW X, NEW q \in Seq(X), NEW S
    PROVE  IsFiniteSet(Where(q, S)) /\ Occ(q, S) \in Nat
<1>1. IsFiniteSet(1 .. Len(q)) /\ Where(q, S) \subseteq 1 .. Len(q)
  BY LenProperties, FS_Interval DEF Where
<1> QED
  BY <1>1, FS_Subset, FS_CardinalityType DEF Occ

LEMMA OccAhead ==
    ASSUME NEW X, NEW x \in X, NEW q \in Seq(X), NEW S
    PROVE  Occ(<<x>> \o q, S) = In(x, S) + Occ(q, S)
<1> DEFINE r == <<x>> \o q
           later == {k + 1 : k \in Where(q, S)}
           f == [k \in Where(q, S) |-> k + 1]
<1>1. /\ Len(r) = Len(q) + 1 /\ Len(q) \in Nat /\ r[1] = x
      /\ \A j \in 1 .. Len(q) : j + 1 \in 1 .. Len(r) /\ r[j + 1] = q[j]
      /\ 1 \in 1 .. Len(r)
  BY Ahead, LenProperties
<1>2. \A k \in 1 .. Len(r) : k = 1 \/ \E j \in 1 .. Len(q) : k = j + 1 /\ r[k] = q[j]
  BY AheadIndex
<1> HIDE DEF r
<1>3. IsFiniteSet(Where(q, S)) /\ Cardinality(Where(q, S)) \in Nat /\ Where(q, S) \subseteq 1 .. Len(q)
  BY WhereIsFinite DEF Occ, Where
<1>4. f \in Bijection(Where(q, S), later)
  BY <1>1, <1>3 DEF Bijection, Injection, Surjection, IsInjective
<1>5. IsFiniteSet(later) /\ Cardinality(later) = Cardinality(Where(q, S))
  BY <1>3, <1>4, FS_Bijection DEF ExistsBijection
<1>6. 1 \notin later
  BY <1>3
<1>7. Where(r, S) = (IF x \in S THEN {1} ELSE {}) \cup later
  <2>1. Where(r, S) \subseteq (IF x \in S THEN {1} ELSE {}) \cup later
    BY <1>1, <1>2 DEF Where
  <2>2. (IF x \in S THEN {1} ELSE {}) \cup later \subseteq Where(r, S)
    BY <1>1 DEF Where
  <2> QED
    BY <2>1, <2>2
<1>8. ASSUME x \in S
      PROVE  Occ(r, S) = In(x, S) + Occ(q, S)
  <2>1. Where(r, S) = later \cup {1}
    BY <1>7, <1>8
  <2>2. Cardinality(later \cup {1}) = Cardinality(later) + 1
    BY <1>5, <1>6, FS_AddElement
  <2> QED
    BY <1>3, <1>5, <1>8, <2>1, <2>2 DEF Occ, In
<1>9. ASSUME x \notin S
      PROVE  Occ(r, S) = In(x, S) + Occ(q, S)
  <2>1. Where(r, S) = later
    BY <1>7, <1>9
  <2> QED
    BY <1>3, <1>5, <1>9, <2>1 DEF Occ, In
<1>10. Occ(r, S) = In(x, S) + Occ(q, S)
  BY <1>8, <1>9
<1> QED
  BY <1>10 DEF r

LEMMA RankedAhead ==
    ASSUME NEW X, NEW x \in X, NEW q \in Seq(X)
    PROVE  Ranked(<<x>> \o q) <=> Ranked(q) /\ Above(x, Mounts(q))
<1> DEFINE r == <<x>> \o q
<1>1. /\ Len(r) = Len(q) + 1 /\ Len(q) \in Nat /\ r[1] = x
      /\ \A j \in 1 .. Len(q) : j + 1 \in 1 .. Len(r) /\ r[j + 1] = q[j]
      /\ 1 \in 1 .. Len(r)
  BY Ahead, LenProperties
<1>2. \A k \in 1 .. Len(r) : k = 1 \/ \E j \in 1 .. Len(q) : k = j + 1 /\ r[k] = q[j]
  BY AheadIndex
<1> HIDE DEF r
<1>3. ASSUME Ranked(r)
      PROVE  Ranked(q)
  <2> SUFFICES ASSUME NEW j \in 1 .. Len(q), NEW k \in 1 .. Len(q), j < k, IsMount(q[j]), IsMount(q[k])
               PROVE  Rank(q[j]) < Rank(q[k])
    BY DEF Ranked
  <2>1. j + 1 \in 1 .. Len(r) /\ k + 1 \in 1 .. Len(r) /\ j + 1 < k + 1 /\ r[j + 1] = q[j] /\ r[k + 1] = q[k]
    BY <1>1
  <2> QED
    BY <1>3, <2>1 DEF Ranked
<1>4. ASSUME Ranked(r)
      PROVE  Above(x, Mounts(q))
  <2> SUFFICES ASSUME IsMount(x), NEW k \in 1 .. Len(q), IsMount(q[k])
               PROVE  Rank(x) < Rank(q[k])
    BY DEF Above, Mounts
  <2>1. k + 1 \in 1 .. Len(r) /\ 1 < k + 1 /\ r[1] = x /\ r[k + 1] = q[k] /\ 1 \in 1 .. Len(r)
    BY <1>1
  <2> QED
    BY <1>4, <2>1 DEF Ranked
<1>5. ASSUME Ranked(q), Above(x, Mounts(q))
      PROVE  Ranked(r)
  <2> SUFFICES ASSUME NEW j \in 1 .. Len(r), NEW k \in 1 .. Len(r), j < k, IsMount(r[j]), IsMount(r[k])
               PROVE  Rank(r[j]) < Rank(r[k])
    BY DEF Ranked
  <2>1. PICK m \in 1 .. Len(q) : k = m + 1 /\ r[k] = q[m]
    BY <1>1, <1>2
  <2>2. CASE j = 1
    BY <1>1, <1>5, <2>1, <2>2 DEF Above, Mounts
  <2>3. CASE j # 1
    <3>1. PICK n \in 1 .. Len(q) : j = n + 1 /\ r[j] = q[n]
      BY <1>2, <2>3
    <3> QED
      BY <1>1, <1>5, <2>1, <3>1 DEF Ranked
  <2> QED
    BY <2>2, <2>3
<1> QED
  BY <1>3, <1>4, <1>5 DEF r

LEMMA HomedAhead ==
    ASSUME NEW X, NEW x \in X, NEW q \in Seq(X)
    PROVE  /\ HomedLate(<<x>> \o q) <=> HomedFirst(q) /\ (HasKind(q, "homed") => Drops(x))
           /\ HomedFirst(<<x>> \o q) <=> ~HasKind(q, "homed")
           /\ ~HasKind(q, "homed") => HomedFirst(q)
           /\ HomedFirst(q) => HomedLate(q)
<1> DEFINE r == <<x>> \o q
<1>1. /\ Len(r) = Len(q) + 1 /\ Len(q) \in Nat /\ r[1] = x
      /\ \A j \in 1 .. Len(q) : j + 1 \in 1 .. Len(r) /\ r[j + 1] = q[j]
      /\ 1 \in 1 .. Len(r)
  BY Ahead, LenProperties
<1>2. \A k \in 1 .. Len(r) : k = 1 \/ \E j \in 1 .. Len(q) : k = j + 1 /\ r[k] = q[j]
  BY AheadIndex
<1> HIDE DEF r
<1>3. ASSUME HomedLate(r)
      PROVE  HomedFirst(q) /\ (HasKind(q, "homed") => Drops(x))
  BY <1>1, <1>3 DEF HomedLate, HomedFirst, HasKind
<1>4. ASSUME HomedFirst(q), HasKind(q, "homed") => Drops(x)
      PROVE  HomedLate(r)
  <2> SUFFICES ASSUME NEW k \in 1 .. Len(r), r[k][1] = "homed", k # 1
               PROVE  k = 2 /\ Drops(r[1])
    BY DEF HomedLate
  <2>1. PICK j \in 1 .. Len(q) : k = j + 1 /\ r[k] = q[j]
    BY <1>2
  <2>2. j = 1 /\ HasKind(q, "homed")
    BY <1>4, <2>1 DEF HomedFirst, HasKind
  <2> QED
    BY <1>1, <1>4, <2>1, <2>2
<1>5. HomedFirst(r) <=> ~HasKind(q, "homed")
  BY <1>1, <1>2 DEF HomedFirst, HasKind
<1>6. (~HasKind(q, "homed") => HomedFirst(q)) /\ (HomedFirst(q) => HomedLate(q))
  <2>1. ~HasKind(q, "homed") => HomedFirst(q)
    BY DEF HomedFirst, HasKind
  <2>2. HomedFirst(q) => HomedLate(q)
    BY DEF HomedFirst, HomedLate
  <2> QED
    BY <2>1, <2>2
<1> QED
  BY <1>3, <1>4, <1>5, <1>6 DEF r

LEMMA ClearAhead ==
    ASSUME NEW X, NEW x \in X, NEW q \in Seq(X), NEW sup, NEW kn, NEW t
    PROVE  /\ ClearLate(<<x>> \o q, sup, kn, t) <=>
                /\ x[1] = "clear" => kn = t
                /\ ClearFirst(q)
                /\ HasKind(q, "clear") => ClearOf(x, q[1], sup)
           /\ ClearFirst(q) /\ kn = t => ClearLate(q, sup, kn, t)
           /\ ~HasKind(q, "clear") => ClearFirst(q) /\ ClearLate(q, sup, kn, t)
           /\ ClearFirst(<<x>> \o q) <=> ~HasKind(q, "clear")
<1> DEFINE r == <<x>> \o q
<1>1. /\ Len(r) = Len(q) + 1 /\ Len(q) \in Nat /\ r[1] = x
      /\ \A j \in 1 .. Len(q) : j + 1 \in 1 .. Len(r) /\ r[j + 1] = q[j]
      /\ 1 \in 1 .. Len(r)
  BY Ahead, LenProperties
<1>2. \A k \in 1 .. Len(r) : k = 1 \/ \E j \in 1 .. Len(q) : k = j + 1 /\ r[k] = q[j]
  BY AheadIndex
<1> HIDE DEF r
<1>3. ASSUME ClearLate(r, sup, kn, t)
      PROVE  /\ x[1] = "clear" => kn = t
             /\ ClearFirst(q)
             /\ HasKind(q, "clear") => ClearOf(x, q[1], sup)
  BY <1>1, <1>3 DEF ClearLate, ClearFirst, ClearOf, HasKind
<1>4. ASSUME x[1] = "clear" => kn = t, ClearFirst(q), HasKind(q, "clear") => ClearOf(x, q[1], sup)
      PROVE  ClearLate(r, sup, kn, t)
  <2> SUFFICES ASSUME NEW k \in 1 .. Len(r), r[k][1] = "clear"
               PROVE  (k = 1 /\ kn = t) \/ (k = 2 /\ DropsOf(r[1], sup[r[2][2]][r[2][3]]))
    BY DEF ClearLate
  <2>1. CASE k = 1
    BY <1>1, <1>4, <2>1
  <2>2. CASE k # 1
    <3>1. PICK j \in 1 .. Len(q) : k = j + 1 /\ r[k] = q[j]
      BY <1>2, <2>2
    <3>2. j = 1 /\ HasKind(q, "clear") /\ r[2] = q[1] /\ q[1][1] = "clear"
      BY <1>4, <3>1 DEF ClearFirst, HasKind
    <3> QED
      BY <1>1, <1>4, <3>1, <3>2 DEF ClearOf
  <2> QED
    BY <2>1, <2>2
<1>5. ClearFirst(r) <=> ~HasKind(q, "clear")
  BY <1>1, <1>2 DEF ClearFirst, HasKind
<1>6. /\ ClearFirst(q) /\ kn = t => ClearLate(q, sup, kn, t)
      /\ ~HasKind(q, "clear") => ClearFirst(q) /\ ClearLate(q, sup, kn, t)
  BY DEF ClearFirst, ClearLate, HasKind
<1> QED
  BY <1>3, <1>4, <1>5, <1>6 DEF r

LEMMA EarlyAhead ==
    ASSUME NEW X, NEW x \in X, NEW q \in Seq(X)
    PROVE  Early(<<x>> \o q) <=> Early(q) /\ (MayEnd(x) => Ending(q))
<1> DEFINE r == <<x>> \o q
<1>1. /\ Len(r) = Len(q) + 1 /\ Len(q) \in Nat /\ r[1] = x
      /\ \A j \in 1 .. Len(q) : j + 1 \in 1 .. Len(r) /\ r[j + 1] = q[j]
      /\ 1 \in 1 .. Len(r)
  BY Ahead, LenProperties
<1>2. \A k \in 1 .. Len(r) : k = 1 \/ \E j \in 1 .. Len(q) : k = j + 1 /\ r[k] = q[j]
  BY AheadIndex
<1> HIDE DEF r
<1>3. ASSUME Early(r)
      PROVE  Early(q)
  <2> SUFFICES ASSUME NEW j \in 1 .. Len(q), NEW k \in 1 .. Len(q), MayEnd(q[j]), j < k
               PROVE  q[k][1] \in Lookups \/ (k = Len(q) /\ q[k][1] \in Finals)
    BY DEF Early
  <2>1. j + 1 \in 1 .. Len(r) /\ k + 1 \in 1 .. Len(r) /\ j + 1 < k + 1 /\ r[j + 1] = q[j] /\ r[k + 1] = q[k]
    BY <1>1
  <2>2. r[k + 1][1] \in Lookups \/ (k + 1 = Len(r) /\ r[k + 1][1] \in Finals)
    BY <1>3, <2>1 DEF Early
  <2> QED
    BY <1>1, <2>1, <2>2
<1>4. ASSUME Early(r), MayEnd(x)
      PROVE  Ending(q)
  <2> SUFFICES ASSUME NEW k \in 1 .. Len(q)
               PROVE  q[k][1] \in Lookups \/ (k = Len(q) /\ q[k][1] \in Finals)
    BY DEF Ending
  <2>1. k + 1 \in 1 .. Len(r) /\ 1 < k + 1 /\ r[k + 1] = q[k]
    BY <1>1
  <2>2. r[k + 1][1] \in Lookups \/ (k + 1 = Len(r) /\ r[k + 1][1] \in Finals)
    BY <1>1, <1>4, <2>1 DEF Early
  <2> QED
    BY <1>1, <2>1, <2>2
<1>5. ASSUME Early(q), MayEnd(x) => Ending(q)
      PROVE  Early(r)
  <2> SUFFICES ASSUME NEW j \in 1 .. Len(r), NEW k \in 1 .. Len(r), MayEnd(r[j]), j < k
               PROVE  r[k][1] \in Lookups \/ (k = Len(r) /\ r[k][1] \in Finals)
    BY DEF Early
  <2>1. PICK m \in 1 .. Len(q) : k = m + 1 /\ r[k] = q[m]
    BY <1>1, <1>2
  <2>2. q[m][1] \in Lookups \/ (m = Len(q) /\ q[m][1] \in Finals)
    <3>1. CASE j = 1
      BY <1>1, <1>5, <3>1 DEF Ending
    <3>2. CASE j # 1
      <4>1. PICK n \in 1 .. Len(q) : j = n + 1 /\ r[j] = q[n]
        BY <1>2, <3>2
      <4> QED
        BY <1>1, <1>5, <2>1, <4>1 DEF Early
    <3> QED
      BY <3>1, <3>2
  <2> QED
    BY <1>1, <2>1, <2>2
<1> QED
  BY <1>3, <1>4, <1>5 DEF r

LEMMA FinalAhead ==
    ASSUME NEW X, NEW x \in X, NEW q \in Seq(X)
    PROVE  FinalLast(<<x>> \o q) <=> FinalLast(q) /\ (x[1] \in Finals => q = << >>)
<1> DEFINE r == <<x>> \o q
<1>1. /\ Len(r) = Len(q) + 1 /\ Len(q) \in Nat /\ r[1] = x
      /\ \A j \in 1 .. Len(q) : j + 1 \in 1 .. Len(r) /\ r[j + 1] = q[j]
      /\ 1 \in 1 .. Len(r)
  BY Ahead, LenProperties
<1>2. \A k \in 1 .. Len(r) : k = 1 \/ \E j \in 1 .. Len(q) : k = j + 1 /\ r[k] = q[j]
  BY AheadIndex
<1>3. q = << >> <=> Len(q) = 0
  BY EmptySeq
<1> HIDE DEF r
<1>4. ASSUME FinalLast(r)
      PROVE  FinalLast(q) /\ (x[1] \in Finals => q = << >>)
  <2>1. x[1] \in Finals => 1 = Len(r)
    BY <1>1, <1>4 DEF FinalLast
  <2>2. FinalLast(q)
    <3> SUFFICES ASSUME NEW k \in 1 .. Len(q), q[k][1] \in Finals
                 PROVE  k = Len(q)
      BY DEF FinalLast
    <3>1. k + 1 = Len(r)
      BY <1>1, <1>4 DEF FinalLast
    <3> QED
      BY <1>1, <3>1
  <2> QED
    BY <1>1, <1>3, <2>1, <2>2
<1>5. ASSUME FinalLast(q), x[1] \in Finals => q = << >>
      PROVE  FinalLast(r)
  <2> SUFFICES ASSUME NEW k \in 1 .. Len(r), r[k][1] \in Finals
               PROVE  k = Len(r)
    BY DEF FinalLast
  <2>1. CASE k = 1
    BY <1>1, <1>3, <1>5, <2>1
  <2>2. CASE k # 1
    <3>1. PICK j \in 1 .. Len(q) : k = j + 1 /\ r[k] = q[j]
      BY <1>2, <2>2
    <3>2. j = Len(q)
      BY <1>5, <3>1 DEF FinalLast
    <3> QED
      BY <1>1, <3>1, <3>2
  <2> QED
    BY <2>1, <2>2
<1> QED
  BY <1>4, <1>5 DEF r

LEMMA FitsAhead ==
    ASSUME NEW x \in Ops, NEW q \in Seq(Ops), NEW h \in Nat
    PROVE  /\ Fits(<<x>> \o q, h) => h >= Needs(x[1]) /\ h + Gain(x[1]) \in Nat /\ Fits(q, h + Gain(x[1]))
           /\ h >= Needs(x[1]) /\ h + Gain(x[1]) \in Nat /\ Fits(q, h + Gain(x[1])) => Fits(<<x>> \o q, h)
<1> DEFINE r == <<x>> \o q
           g == Gain(x[1])
<1>1. /\ Len(r) = Len(q) + 1 /\ Len(q) \in Nat /\ r[1] = x
      /\ \A j \in 1 .. Len(q) : j + 1 \in 1 .. Len(r) /\ r[j + 1] = q[j]
      /\ 1 \in 1 .. Len(r)
  BY Ahead, LenProperties
<1>2. \A k \in 1 .. Len(r) : k = 1 \/ \E j \in 1 .. Len(q) : k = j + 1 /\ r[k] = q[j]
  BY AheadIndex
<1>3. g \in Int
  BY DEF Gain
<1> HIDE DEF r, g
<1>4. ASSUME Fits(r, h)
      PROVE  h >= Needs(x[1]) /\ h + g \in Nat /\ Fits(q, h + g)
  <2>1. PICK e \in Nat, d \in [1 .. Len(r) + 1 -> Nat] : d[1] = h /\ d[Len(r) + 1] = e /\ Follows(r, d)
    BY <1>4 DEF Fits, FitsTo
  <2>2. d[1] >= Needs(x[1]) /\ d[2] = h + g /\ d[2] \in Nat
    BY <1>1, <2>1 DEF Follows, g
  <2> DEFINE c == [k \in 1 .. Len(q) + 1 |-> d[k + 1]]
  <2>3. c \in [1 .. Len(q) + 1 -> Nat] /\ c[1] = h + g /\ c[Len(q) + 1] = e
    BY <1>1, <2>1, <2>2
  <2>4. Follows(q, c)
    <3> SUFFICES ASSUME NEW k \in 1 .. Len(q)
                 PROVE  c[k] >= Needs(q[k][1]) /\ c[k + 1] = c[k] + Gain(q[k][1])
      BY DEF Follows
    <3>1. k + 1 \in 1 .. Len(r) /\ r[k + 1] = q[k] /\ c[k] = d[k + 1] /\ c[k + 1] = d[k + 1 + 1]
      BY <1>1
    <3> QED
      BY <2>1, <3>1 DEF Follows
  <2> HIDE DEF c
  <2>5. FitsTo(q, h + g, e)
    BY <2>3, <2>4 DEF FitsTo
  <2> QED
    BY <2>1, <2>2, <2>5 DEF Fits
<1>5. ASSUME h >= Needs(x[1]), h + g \in Nat, Fits(q, h + g)
      PROVE  Fits(r, h)
  <2>1. PICK e \in Nat, d \in [1 .. Len(q) + 1 -> Nat] : d[1] = h + g /\ d[Len(q) + 1] = e /\ Follows(q, d)
    BY <1>5 DEF Fits, FitsTo
  <2> DEFINE c == [k \in 1 .. Len(r) + 1 |-> IF k = 1 THEN h ELSE d[k - 1]]
  <2>2. c \in [1 .. Len(r) + 1 -> Nat] /\ c[1] = h /\ c[Len(r) + 1] = e
    BY <1>1, <2>1
  <2>3. Follows(r, c)
    <3> SUFFICES ASSUME NEW k \in 1 .. Len(r)
                 PROVE  c[k] >= Needs(r[k][1]) /\ c[k + 1] = c[k] + Gain(r[k][1])
      BY DEF Follows
    <3>1. CASE k = 1
      <4>1. c[1] = h /\ c[2] = d[1] /\ r[1] = x
        BY <1>1
      <4> QED
        BY <1>5, <2>1, <3>1, <4>1 DEF g
    <3>2. CASE k # 1
      <4>1. PICK j \in 1 .. Len(q) : k = j + 1 /\ r[k] = q[j]
        BY <1>2, <3>2
      <4>2. c[k] = d[j] /\ c[k + 1] = d[j + 1]
        BY <1>1, <4>1
      <4> QED
        BY <2>1, <4>1, <4>2 DEF Follows
    <3> QED
      BY <3>1, <3>2
  <2> HIDE DEF c
  <2>4. FitsTo(r, h, e)
    BY <2>2, <2>3 DEF FitsTo
  <2> QED
    BY <2>1, <2>4 DEF Fits
<1> QED
  BY <1>4, <1>5 DEF r, g

LEMMA NothingLeft ==
    ASSUME NEW h \in Nat, NEW sup, NEW kn, NEW t
    PROVE  /\ << >> \in Seq(Ops) /\ Fits(<< >>, h) /\ Ranked(<< >>) /\ HomedLate(<< >>) /\ HomedFirst(<< >>)
           /\ ClearLate(<< >>, sup, kn, t) /\ ClearFirst(<< >>) /\ Mounts(<< >>) = {}
           /\ ~HasKind(<< >>, "homed") /\ ~HasKind(<< >>, "clear")
           /\ Early(<< >>) /\ Ending(<< >>) /\ FinalLast(<< >>)
           /\ \A S : Occ(<< >>, S) = 0
<1>1. << >> \in Seq(Ops) /\ Len(<< >>) = 0
  OBVIOUS
<1>2. FitsTo(<< >>, h, h)
  <2>1. [k \in 1 .. 1 |-> h] \in [1 .. Len(<< >>) + 1 -> Nat] /\ [k \in 1 .. 1 |-> h][1] = h
    BY <1>1
  <2>2. Follows(<< >>, [k \in 1 .. 1 |-> h])
    BY <1>1 DEF Follows
  <2> QED
    BY <1>1, <2>1, <2>2 DEF FitsTo
<1>3. \A S : Where(<< >>, S) = {}
  BY <1>1 DEF Where
<1>4. \A S : Occ(<< >>, S) = 0
  BY <1>3, FS_EmptySet DEF Occ
<1> QED
  BY <1>1, <1>2, <1>4 DEF Fits, Ranked, HomedLate, HomedFirst, ClearLate, ClearFirst, Mounts, HasKind, Early, Ending, FinalLast

\* What can come in front of a list.
Before(op, ops, h) ==
    /\ op \in Ops /\ h >= Needs(op[1]) /\ h + Gain(op[1]) \in Nat
    /\ Above(op, Mounts(ops))
    /\ HomedFirst(ops) /\ (HasKind(ops, "homed") => Drops(op))
    /\ MayEnd(op) => Ending(ops)
    /\ op[1] \in Finals => ops = << >>

LEMMA GoodAhead ==
    ASSUME NEW x \in Ops, NEW q \in Seq(Ops), NEW h \in Nat
    PROVE  /\ Good(<<x>> \o q, h) => Before(x, q, h) /\ Good(q, h + Gain(x[1]))
           /\ Before(x, q, h) /\ Good(q, h + Gain(x[1])) => Good(<<x>> \o q, h)
<1>1. <<x>> \o q \in Seq(Ops)
  BY Ahead
<1>2. Ranked(<<x>> \o q) <=> Ranked(q) /\ Above(x, Mounts(q))
  BY RankedAhead
<1>3. /\ HomedLate(<<x>> \o q) <=> HomedFirst(q) /\ (HasKind(q, "homed") => Drops(x))
      /\ HomedFirst(q) => HomedLate(q)
  BY HomedAhead
<1>5. Early(<<x>> \o q) <=> Early(q) /\ (MayEnd(x) => Ending(q))
  BY EarlyAhead
<1>6. FinalLast(<<x>> \o q) <=> FinalLast(q) /\ (x[1] \in Finals => q = << >>)
  BY FinalAhead
<1>4. Fits(<<x>> \o q, h) <=> h >= Needs(x[1]) /\ h + Gain(x[1]) \in Nat /\ Fits(q, h + Gain(x[1]))
  BY FitsAhead
<1> QED
  BY <1>1, <1>2, <1>3, <1>4, <1>5, <1>6 DEF Good, Before

-----------------------------------------------------------------------------
(* The path: a start, then for each name two micro-steps.                  *)

LEMMA ConcatGood ==
    ASSUME NEW p \in Seq(Ops), NEW q \in Seq(Ops), NEW h \in Nat, NEW e \in Nat,
           FitsTo(p, h, e), Fits(q, e)
    PROVE  Fits(p \o q, h)
<1> DEFINE r == p \o q
<1>1. /\ r \in Seq(Ops) /\ Len(r) = Len(p) + Len(q)
      /\ \A i \in 1 .. Len(p) + Len(q) : r[i] = IF i <= Len(p) THEN p[i] ELSE q[i - Len(p)]
  BY ConcatProperties
<1>2. Len(p) \in Nat /\ Len(q) \in Nat
  BY LenProperties
<1>3. PICK d \in [1 .. Len(p) + 1 -> Nat] : d[1] = h /\ d[Len(p) + 1] = e /\ Follows(p, d)
  BY DEF FitsTo
<1>4. PICK g \in Nat, c \in [1 .. Len(q) + 1 -> Nat] : c[1] = e /\ c[Len(q) + 1] = g /\ Follows(q, c)
  BY DEF Fits, FitsTo
<1> DEFINE b == [k \in 1 .. Len(r) + 1 |-> IF k <= Len(p) THEN d[k] ELSE c[k - Len(p)]]
<1> HIDE DEF r
<1>5. b \in [1 .. Len(r) + 1 -> Nat] /\ b[1] = h /\ b[Len(r) + 1] = g
  BY <1>1, <1>2, <1>3, <1>4
<1>6. Follows(r, b)
  <2> SUFFICES ASSUME NEW k \in 1 .. Len(r)
               PROVE  b[k] >= Needs(r[k][1]) /\ b[k + 1] = b[k] + Gain(r[k][1])
    BY DEF Follows
  <2>1. CASE k <= Len(p)
    <3>1. r[k] = p[k] /\ k \in 1 .. Len(p) /\ b[k] = d[k]
      BY <1>1, <1>2, <2>1
    <3>2. b[k + 1] = d[k + 1]
      BY <1>1, <1>2, <1>3, <1>4, <2>1
    <3> QED
      BY <1>3, <3>1, <3>2 DEF Follows
  <2>2. CASE k > Len(p)
    <3>1. PICK j \in 1 .. Len(q) : k = j + Len(p)
      <4>1. k - Len(p) \in 1 .. Len(q) /\ k = (k - Len(p)) + Len(p)
        BY <1>1, <1>2, <2>2
      <4> QED
        BY <4>1
    <3>2. r[k] = q[j] /\ b[k] = c[j] /\ b[k + 1] = c[j + 1]
      BY <1>1, <1>2, <3>1
    <3> QED
      BY <1>4, <3>2 DEF Follows
  <2> QED
    BY <1>1, <1>2, <2>1, <2>2
<1> HIDE DEF b
<1>7. FitsTo(r, h, g)
  BY <1>5, <1>6 DEF FitsTo
<1> QED
  BY <1>4, <1>7 DEF Fits, r

-----------------------------------------------------------------------------
(* What the micro-steps of a kind are.                                     *)

LEMMA KindsOfOps ==
    ASSUME NEW x \in Ops
    PROVE  /\ x[1] \in {"iput", "drop", "fill"} => x[2] \in Slots /\ x = <<x[1], x[2]>>
           /\ x[1] \in {"start", "chdir", "homed"} => x[2] \in Homes /\ x = <<x[1], x[2]>>
           /\ x[1] \in {"parent", "walk", "last"} => x[2] \in Names
           /\ x[1] = "iget" => x[2] \in Devs /\ x[3] \in Names
           /\ x[1] = "enter" => x[2] \in Supers
           /\ x[1] = "isblk" => x[2] \in Paths
           /\ x[1] \in {"read", "mounted", "attach", "put", "made"} => x[2] \in Others /\ x = <<x[1], x[2]>>
           /\ x[1] \in {"release", "clear"} => x[2] \in Others /\ x[3] \in Fields /\ x = <<x[1], x[2], x[3]>>
           /\ x[1] \in {"onto", "umount", "mkfs"} => x = <<x[1]>>
<1>1. CASE x \in {"iput", "drop", "fill"} \X Slots
  BY <1>1
<1>2. CASE x \in {"start", "chdir", "homed"} \X Homes
  BY <1>2
<1>3. CASE x \in {"parent", "walk", "last"} \X Names
  BY <1>3
<1>4. CASE x \in {"iget"} \X Devs \X Names
  BY <1>4
<1>5. CASE x \in {"enter"} \X Supers
  BY <1>5
<1>6. CASE x \in {"isblk"} \X Paths
  BY <1>6
<1>7. CASE x \in {"read", "mounted", "attach", "put", "made"} \X Others
  BY <1>7
<1>8. CASE x \in {"release", "clear"} \X Others \X Fields
  BY <1>8
<1>9. CASE x \in {<<"under">>, <<"onto">>, <<"umount">>, <<"mkfs">>}
  BY <1>9
<1> QED
  BY <1>1, <1>2, <1>3, <1>4, <1>5, <1>6, <1>7, <1>8, <1>9 DEF Ops

LEMMA OpsOfKinds ==
    /\ \A i \in Slots : <<"iput", i>> \in Ops /\ <<"drop", i>> \in Ops /\ <<"fill", i>> \in Ops
    /\ \A w \in Homes : <<"start", w>> \in Ops /\ <<"chdir", w>> \in Ops /\ <<"homed", w>> \in Ops
    /\ \A n \in Names : <<"parent", n>> \in Ops /\ <<"walk", n>> \in Ops /\ <<"last", n>> \in Ops
    /\ \A d \in Devs, n \in Names : <<"iget", d, n>> \in Ops
    /\ \A s \in Supers : <<"enter", s>> \in Ops
    /\ \A path \in Paths : <<"isblk", path>> \in Ops
    /\ \A s \in Others : /\ <<"read", s>> \in Ops /\ <<"mounted", s>> \in Ops /\ <<"attach", s>> \in Ops
                         /\ <<"put", s>> \in Ops /\ <<"made", s>> \in Ops
    /\ \A s \in Others, f \in Fields : <<"release", s, f>> \in Ops /\ <<"clear", s, f>> \in Ops
    /\ <<"under">> \in Ops /\ <<"onto">> \in Ops /\ <<"umount">> \in Ops /\ <<"mkfs">> \in Ops
BY DEF Ops

\* The micro-steps of a path.
Plain(op) == op[1] \in {"start", "parent", "walk", "last"}
AllPlain(p) ==
    \A k \in 1 .. Len(p) : Plain(p[k]) /\ (k = 1 => p[k][1] = "start") /\ (k # 1 => p[k][1] \in Lookups)

LEMMA PlainAhead ==
    ASSUME NEW p \in Seq(Ops), NEW q \in Seq(Ops), AllPlain(p)
    PROVE  /\ Mounts(p \o q) = Mounts(q)
           /\ Ranked(q) => Ranked(p \o q)
           /\ ~HasKind(q, "homed") => ~HasKind(p \o q, "homed")
           /\ ~HasKind(q, "clear") => ~HasKind(p \o q, "clear")
           /\ \A S : (\A op \in S : ~Plain(op)) => Occ(p \o q, S) = Occ(q, S)
           /\ Ending(q) => Early(p \o q) /\ FinalLast(p \o q)
<1> DEFINE r == p \o q
           n == Len(p)
<1>1. /\ r \in Seq(Ops) /\ Len(r) = n + Len(q) /\ n \in Nat /\ Len(q) \in Nat
      /\ \A i \in 1 .. n : r[i] = p[i] /\ Plain(r[i])
      /\ \A j \in 1 .. Len(q) : j + n \in 1 .. Len(r) /\ r[j + n] = q[j]
  <2>1. /\ r \in Seq(Ops) /\ Len(r) = n + Len(q)
        /\ \A i \in 1 .. n + Len(q) : r[i] = IF i <= n THEN p[i] ELSE q[i - n]
    BY ConcatProperties
  <2>2. n \in Nat /\ Len(q) \in Nat
    BY LenProperties
  <2> HIDE DEF r, n
  <2>3. \A i \in 1 .. n : r[i] = p[i]
    BY <2>1, <2>2
  <2>4. \A j \in 1 .. Len(q) : j + n \in 1 .. Len(r) /\ r[j + n] = q[j]
    <3> TAKE j \in 1 .. Len(q)
    <3>1. j + n \in 1 .. n + Len(q) /\ ~(j + n <= n) /\ (j + n) - n = j
      BY <2>2
    <3> QED
      BY <2>1, <3>1
  <2> QED
    BY <2>1, <2>2, <2>3, <2>4 DEF AllPlain, n
<1> HIDE DEF r, n
<1>2. \A k \in 1 .. Len(r) : k \in 1 .. n \/ \E j \in 1 .. Len(q) : k = j + n /\ r[k] = q[j]
  <2> TAKE k \in 1 .. Len(r)
  <2>1. CASE ~(k <= n)
    <3>1. k - n \in 1 .. Len(q) /\ k = (k - n) + n
      BY <1>1, <2>1
    <3> QED
      BY <1>1, <3>1
  <2> QED
    BY <1>1, <2>1
<1>3. \A op : Plain(op) => ~IsMount(op) /\ op[1] # "homed" /\ op[1] # "clear"
  BY DEF Plain, IsMount, MountKinds
<1>4. Mounts(r) = Mounts(q)
  <2>1. Mounts(r) \subseteq Mounts(q)
    BY <1>1, <1>2, <1>3 DEF Mounts
  <2>2. Mounts(q) \subseteq Mounts(r)
    BY <1>1 DEF Mounts
  <2> QED
    BY <2>1, <2>2
<1>5. ASSUME Ranked(q)
      PROVE  Ranked(r)
  <2> SUFFICES ASSUME NEW j \in 1 .. Len(r), NEW k \in 1 .. Len(r), j < k, IsMount(r[j]), IsMount(r[k])
               PROVE  Rank(r[j]) < Rank(r[k])
    BY DEF Ranked
  <2>1. PICK a \in 1 .. Len(q) : j = a + n /\ r[j] = q[a]
    BY <1>1, <1>2, <1>3
  <2>2. PICK b \in 1 .. Len(q) : k = b + n /\ r[k] = q[b]
    BY <1>1, <1>2, <1>3
  <2> QED
    BY <1>1, <1>5, <2>1, <2>2 DEF Ranked
<1>6. /\ ~HasKind(q, "homed") => ~HasKind(r, "homed")
      /\ ~HasKind(q, "clear") => ~HasKind(r, "clear")
  <2> SUFFICES ASSUME NEW kind \in {"homed", "clear"}, NEW k \in 1 .. Len(r), r[k][1] = kind
               PROVE  HasKind(q, kind)
    BY DEF HasKind
  <2>1. k \notin 1 .. n
    BY <1>1, <1>3
  <2>2. PICK j \in 1 .. Len(q) : k = j + n /\ r[k] = q[j]
    BY <1>2, <2>1
  <2> QED
    BY <2>2 DEF HasKind
<1>7. ASSUME NEW S, \A op \in S : ~Plain(op)
      PROVE  Occ(r, S) = Occ(q, S)
  <2> DEFINE later == {k + n : k \in Where(q, S)}
             f == [k \in Where(q, S) |-> k + n]
  <2>1. IsFiniteSet(Where(q, S)) /\ Where(q, S) \subseteq 1 .. Len(q)
    BY WhereIsFinite DEF Where
  <2>2. f \in Bijection(Where(q, S), later)
    BY <1>1, <2>1 DEF Bijection, Injection, Surjection, IsInjective
  <2>3. Cardinality(later) = Cardinality(Where(q, S))
    BY <2>1, <2>2, FS_Bijection DEF ExistsBijection
  <2>4. Where(r, S) = later
    <3>1. Where(r, S) \subseteq later
      BY <1>1, <1>2, <1>7 DEF Where
    <3>2. later \subseteq Where(r, S)
      BY <1>1 DEF Where
    <3> QED
      BY <3>1, <3>2
  <2> QED
    BY <2>3, <2>4 DEF Occ
<1>8. ASSUME Ending(q)
      PROVE  Early(r)
  <2> SUFFICES ASSUME NEW j \in 1 .. Len(r), NEW k \in 1 .. Len(r), MayEnd(r[j]), j < k
               PROVE  r[k][1] \in Lookups \/ (k = Len(r) /\ r[k][1] \in Finals)
    BY DEF Early
  <2>1. CASE k \in 1 .. n
    <3>1. k # 1
      BY <1>1
    <3>2. p[k][1] \in Lookups
      BY <2>1, <3>1 DEF AllPlain, n
    <3> QED
      BY <1>1, <2>1, <3>2
  <2>2. CASE k \notin 1 .. n
    <3>1. PICK m \in 1 .. Len(q) : k = m + n /\ r[k] = q[m]
      BY <1>2, <2>2
    <3>2. q[m][1] \in Lookups \/ (m = Len(q) /\ q[m][1] \in Finals)
      BY <1>8 DEF Ending
    <3>3. m = Len(q) => k = Len(r)
      BY <1>1, <3>1
    <3> QED
      BY <3>1, <3>2, <3>3
  <2> QED
    BY <2>1, <2>2
<1>9. ASSUME Ending(q)
      PROVE  FinalLast(r)
  <2> SUFFICES ASSUME NEW k \in 1 .. Len(r), r[k][1] \in Finals
               PROVE  k = Len(r)
    BY DEF FinalLast
  <2>1. k \notin 1 .. n
    BY <1>1 DEF Plain, Finals
  <2>2. PICK j \in 1 .. Len(q) : k = j + n /\ r[k] = q[j]
    BY <1>2, <2>1
  <2>3. j = Len(q)
    BY <1>9, <2>2 DEF Ending, Finals, Lookups
  <2> QED
    BY <1>1, <2>2, <2>3
<1> QED
  BY <1>4, <1>5, <1>6, <1>7, <1>8, <1>9 DEF r

LEMMA ResolveIsPlain ==
    ASSUME NEW path \in Paths \cup Specials, NEW h \in Nat
    PROVE  Resolve(path) \in Seq(Ops) /\ AllPlain(Resolve(path)) /\ FitsTo(Resolve(path), h, h + 1)
<1> DEFINE n == 2 * Len(path) - 1
           p == Resolve(path)
<1>1. Len(path) \in Nat /\ Len(path) > 1 /\ path[1] \in Homes
  <2>1. Len(path) \in Nat \ {0, 1} /\ path[1] \in Homes
    BY InodeAssumption
  <2>2. \A l \in Nat \ {0, 1} : l > 1
    OBVIOUS
  <2> QED
    BY <2>1, <2>2
<1>2. n \in Nat /\ n > 2
  BY <1>1
<1>3. ASSUME NEW k \in 1 .. n
      PROVE  /\ (k + 2) \div 2 \in 1 .. Len(path)
             /\ k = 1 => (k + 2) \div 2 = 1
             /\ k # 1 => (k + 2) \div 2 \in 2 .. Len(path)
  BY <1>1
<1>4. \A k \in 2 .. Len(path) : path[k] \in Names
  BY DEF Names
<1>5. p = [k \in 1 .. n |->
           <<IF k = 1 THEN "start" ELSE IF k % 2 = 0 THEN "parent" ELSE IF k < n THEN "walk" ELSE "last",
             path[(k + 2) \div 2]>>]
  BY DEF Resolve
<1> HIDE DEF n, p
<1>6. ASSUME NEW k \in 1 .. n
      PROVE  /\ p[k] \in Ops /\ Plain(p[k])
             /\ k = 1 => p[k][1] = "start"
             /\ k # 1 => p[k][1] \in {"parent", "walk", "last"}
  <2>1. CASE k = 1
    <3>1. p[k] = <<"start", path[1]>>
      BY <1>3, <1>5, <2>1
    <3>2. p[k] \in Ops
      BY <1>1, <3>1, OpsOfKinds
    <3>3. p[k][1] = "start"
      BY <3>1
    <3> QED
      BY <2>1, <3>2, <3>3 DEF Plain
  <2>2. CASE k # 1
    <3>1. PICK j \in 2 .. Len(path) : (k + 2) \div 2 = j
      BY <1>3, <2>2
    <3>2. p[k] \in {<<"parent", path[j]>>, <<"walk", path[j]>>, <<"last", path[j]>>}
      BY <1>5, <2>2, <3>1
    <3>3. p[k] \in Ops
      BY <1>4, <3>2, OpsOfKinds
    <3>4. p[k][1] \in {"parent", "walk", "last"}
      BY <3>2
    <3> QED
      BY <2>2, <3>3, <3>4 DEF Plain
  <2> QED
    BY <2>1, <2>2
<1>7. DOMAIN p = 1 .. n /\ p \in [1 .. n -> Ops]
  BY <1>5, <1>6
<1>8. p \in Seq(Ops) /\ Len(p) = n
  BY <1>2, <1>7
<1>9. AllPlain(p)
  BY <1>6, <1>8 DEF AllPlain, Lookups
<1> DEFINE d == [k \in 1 .. n + 1 |-> IF k = 1 THEN h ELSE h + 1]
<1>10. d \in [1 .. n + 1 -> Nat] /\ d[1] = h /\ d[n + 1] = h + 1
  BY <1>2
<1>11. Follows(p, d)
  <2> SUFFICES ASSUME NEW k \in 1 .. n
               PROVE  d[k] >= Needs(p[k][1]) /\ d[k + 1] = d[k] + Gain(p[k][1])
    BY <1>8 DEF Follows
  <2>1. CASE k = 1
    <3>1. d[k] = h /\ d[k + 1] = h + 1 /\ Needs(p[k][1]) = 0 /\ Gain(p[k][1]) = 1
      BY <1>2, <1>6, <2>1 DEF Needs, Gain
    <3> QED
      BY <3>1
  <2>2. CASE k # 1
    <3>1. d[k] = h + 1 /\ d[k + 1] = h + 1
      BY <1>2, <2>2
    <3>2. Needs(p[k][1]) = 1 /\ Gain(p[k][1]) = 0
      BY <1>6, <2>2 DEF Needs, Gain
    <3> QED
      BY <3>1, <3>2
  <2> QED
    BY <2>1, <2>2
<1> HIDE DEF d
<1>12. FitsTo(p, h, h + 1)
  BY <1>8, <1>10, <1>11 DEF FitsTo
<1> QED
  BY <1>8, <1>9, <1>12 DEF p

LEMMA ResolveAhead ==
    ASSUME NEW path \in Paths \cup Specials, NEW h \in Nat,
           NEW q, Good(q, h + 1), ~HasKind(q, "homed"), Ending(q)
    PROVE  /\ Good(Resolve(path) \o q, h)
           /\ Mounts(Resolve(path) \o q) = Mounts(q)
           /\ ~HasKind(q, "clear") => ~HasKind(Resolve(path) \o q, "clear")
           /\ \A S : (\A op \in S : ~Plain(op)) => Occ(Resolve(path) \o q, S) = Occ(q, S)
           /\ ~HasKind(Resolve(path) \o q, "homed")
<1>1. PICK p \in Seq(Ops) : p = Resolve(path) /\ AllPlain(p) /\ FitsTo(p, h, h + 1)
  BY ResolveIsPlain
<1>2. q \in Seq(Ops) /\ Fits(q, h + 1) /\ Ranked(q)
  BY DEF Good
<1>3. /\ Mounts(p \o q) = Mounts(q) /\ Ranked(p \o q) /\ Early(p \o q) /\ FinalLast(p \o q)
      /\ ~HasKind(p \o q, "homed")
      /\ ~HasKind(q, "clear") => ~HasKind(p \o q, "clear")
      /\ \A S : (\A op \in S : ~Plain(op)) => Occ(p \o q, S) = Occ(q, S)
  BY <1>1, <1>2, PlainAhead
<1>4. p \o q \in Seq(Ops) /\ Fits(p \o q, h)
  BY <1>1, <1>2, ConcatGood, ConcatProperties
<1>5. HomedLate(p \o q)
  BY <1>3 DEF HomedLate, HasKind
<1> QED
  BY <1>1, <1>3, <1>4, <1>5 DEF Good

-----------------------------------------------------------------------------
(* The inodes of a task.                                                   *)

\* A sequence without its k-th element.
Lacks(g, h, k) ==
    /\ Len(h) = Len(g) + 1
    /\ \A j \in 1 .. Len(g) : g[j] = IF j < k THEN h[j] ELSE h[j + 1]

LEMMA OccLacks ==
    ASSUME NEW X, NEW h \in Seq(X), NEW g \in Seq(X), NEW k \in 1 .. Len(h), Lacks(g, h, k), NEW S
    PROVE  Occ(g, S) + In(h[k], S) = Occ(h, S)
<1> DEFINE f == [j \in Where(g, S) |-> IF j < k THEN j ELSE j + 1]
           R == Where(h, S) \ {k}
<1>1. Len(h) \in Nat /\ Len(g) \in Nat /\ Len(h) = Len(g) + 1
  BY LenProperties DEF Lacks
<1>2. \A j \in 1 .. Len(g) : g[j] = IF j < k THEN h[j] ELSE h[j + 1]
  BY DEF Lacks
<1>3. \A j \in Where(g, S) : f[j] \in R
  <2> SUFFICES ASSUME NEW j \in Where(g, S)
               PROVE  f[j] \in R
    OBVIOUS
  <2>1. j \in 1 .. Len(g) /\ g[j] \in S
    BY DEF Where
  <2>2. f[j] = IF j < k THEN j ELSE j + 1
    OBVIOUS
  <2> QED
    BY <1>1, <1>2, <2>1, <2>2 DEF Where
<1>4. ASSUME NEW i \in R
      PROVE  \E j \in Where(g, S) : f[j] = i
  <2>1. i \in 1 .. Len(h) /\ h[i] \in S /\ i # k
    BY DEF Where
  <2>2. CASE i < k
    <3>1. i \in 1 .. Len(g) /\ g[i] = h[i]
      BY <1>1, <1>2, <2>1, <2>2
    <3>2. i \in Where(g, S)
      BY <2>1, <3>1 DEF Where
    <3> QED
      BY <2>2, <3>2
  <2>3. CASE i > k
    <3>1. i - 1 \in 1 .. Len(g) /\ g[i - 1] = h[(i - 1) + 1] /\ ~(i - 1 < k) /\ (i - 1) + 1 = i
      BY <1>1, <1>2, <2>1, <2>3
    <3>2. i - 1 \in Where(g, S)
      BY <2>1, <3>1 DEF Where
    <3> QED
      BY <3>1, <3>2
  <2> QED
    BY <1>1, <2>1, <2>2, <2>3
<1>5. \A i, j \in Where(g, S) : f[i] = f[j] => i = j
  <2>1. Where(g, S) \subseteq Nat
    BY <1>1 DEF Where
  <2> QED
    BY <1>1, <2>1
<1>6. f \in Bijection(Where(g, S), R)
  <2>1. f \in [Where(g, S) -> R]
    BY <1>3
  <2> HIDE DEF f
  <2> QED
    BY <1>4, <1>5, <2>1 DEF Bijection, Injection, Surjection, IsInjective
<1> HIDE DEF f
<1>7. IsFiniteSet(Where(g, S)) /\ IsFiniteSet(Where(h, S)) /\ Occ(g, S) \in Nat /\ Occ(h, S) \in Nat
  BY WhereIsFinite
<1>8. Cardinality(R) = Occ(g, S)
  BY <1>6, <1>7, FS_Bijection DEF ExistsBijection, Occ
<1>9. Cardinality(R) = IF k \in Where(h, S) THEN Cardinality(Where(h, S)) - 1 ELSE Cardinality(Where(h, S))
  BY <1>7, FS_RemoveElement
<1>10. k \in Where(h, S) <=> h[k] \in S
  BY DEF Where
<1> QED
  BY <1>7, <1>8, <1>9, <1>10 DEF In, Occ

\* Append, RemoveAt, and SubSeq without the last.
LEMMA OneMore ==
    ASSUME NEW X, NEW h \in Seq(X), NEW x \in X
    PROVE  /\ Append(h, x) \in Seq(X) /\ Len(Append(h, x)) = Len(h) + 1
           /\ \A S : Occ(Append(h, x), S) = Occ(h, S) + In(x, S)
<1>1. /\ Append(h, x) \in Seq(X) /\ Len(Append(h, x)) = Len(h) + 1 /\ Len(h) \in Nat
      /\ \A j \in 1 .. Len(h) : Append(h, x)[j] = h[j]
      /\ Append(h, x)[Len(h) + 1] = x
  BY AppendProperties, LenProperties
<1>2. PICK g \in Seq(X) : g = Append(h, x)
  BY <1>1
<1>3. Len(h) + 1 \in 1 .. Len(g) /\ \A j \in 1 .. Len(h) : j < Len(h) + 1
  BY <1>1, <1>2
<1>4. Lacks(h, g, Len(h) + 1)
  BY <1>1, <1>2, <1>3 DEF Lacks
<1>5. \A S : Occ(h, S) + In(g[Len(h) + 1], S) = Occ(g, S)
  BY <1>3, <1>4, OccLacks
<1> QED
  BY <1>1, <1>2, <1>5

LEMMA OneLess ==
    ASSUME NEW X, NEW h \in Seq(X), NEW k \in 1 .. Len(h)
    PROVE  /\ RemoveAt(h, k) \in Seq(X) /\ Len(RemoveAt(h, k)) = Len(h) - 1
           /\ Lacks(RemoveAt(h, k), h, k)
           /\ \A S : Occ(RemoveAt(h, k), S) + In(h[k], S) = Occ(h, S)
<1> DEFINE n == Len(h)
           a == SubSeq(h, 1, k - 1)
           b == SubSeq(h, k + 1, n)
<1>1. n \in Nat /\ k \in Nat /\ 1 <= k /\ k <= n /\ \A i \in 1 .. n : h[i] \in X
  BY LenProperties
<1>2. /\ a \in Seq(X) /\ Len(a) = k - 1
      /\ \A i \in 1 .. (k - 1) - 1 + 1 : a[i] = h[1 + i - 1]
  <2>1. \A i \in 1 .. k - 1 : h[i] \in X
    BY <1>1
  <2>2. /\ a \in Seq(X) /\ Len(a) = IF 1 <= k - 1 THEN (k - 1) - 1 + 1 ELSE 0
        /\ \A i \in 1 .. (k - 1) - 1 + 1 : a[i] = h[1 + i - 1]
    BY <2>1, <1>1, SubSeqProperties
  <2> HIDE DEF a, n
  <2> QED
    BY <1>1, <2>2
<1>3. /\ b \in Seq(X) /\ Len(b) = n - k
      /\ \A i \in 1 .. n - (k + 1) + 1 : b[i] = h[(k + 1) + i - 1]
  <2>1. \A i \in k + 1 .. n : h[i] \in X
    BY <1>1
  <2>2. /\ b \in Seq(X) /\ Len(b) = IF k + 1 <= n THEN n - (k + 1) + 1 ELSE 0
        /\ \A i \in 1 .. n - (k + 1) + 1 : b[i] = h[(k + 1) + i - 1]
    BY <2>1, <1>1, SubSeqProperties
  <2> HIDE DEF b, n
  <2> QED
    BY <1>1, <2>2
<1>4. RemoveAt(h, k) = a \o b
  BY DEF RemoveAt
<1> HIDE DEF a, b, n
<1>5. PICK g \in Seq(X) : g = a \o b
  BY <1>2, <1>3, ConcatProperties
<1>6. /\ Len(g) = Len(a) + Len(b)
      /\ \A i \in 1 .. Len(a) + Len(b) : g[i] = IF i <= Len(a) THEN a[i] ELSE b[i - Len(a)]
  BY <1>2, <1>3, <1>5, ConcatProperties
<1>7. Len(g) = n - 1
  BY <1>1, <1>2, <1>3, <1>6
<1>8. ASSUME NEW j \in 1 .. Len(g)
      PROVE  g[j] = IF j < k THEN h[j] ELSE h[j + 1]
  <2>1. CASE j < k
    <3>1. g[j] = a[j] /\ j \in 1 .. (k - 1) - 1 + 1 /\ 1 + j - 1 = j
      BY <1>1, <1>2, <1>6, <1>7, <2>1
    <3> QED
      BY <1>2, <2>1, <3>1
  <2>2. CASE ~(j < k)
    <3>1. g[j] = b[j - (k - 1)] /\ j - (k - 1) \in 1 .. n - (k + 1) + 1 /\ (k + 1) + (j - (k - 1)) - 1 = j + 1
      BY <1>1, <1>2, <1>3, <1>6, <1>7, <2>2
    <3> QED
      BY <1>3, <2>2, <3>1
  <2> QED
    BY <2>1, <2>2
<1>9. Lacks(g, h, k)
  BY <1>1, <1>7, <1>8 DEF Lacks, n
<1>10. \A S : Occ(g, S) + In(h[k], S) = Occ(h, S)
  BY <1>9, OccLacks
<1> QED
  BY <1>4, <1>5, <1>7, <1>9, <1>10 DEF n

\* Without the last one, two, three.
Cut(h, n) == SubSeq(h, 1, Len(h) - n)

LEMMA CutIs ==
    ASSUME NEW X, NEW h \in Seq(X), NEW n \in 0 .. Len(h)
    PROVE  /\ Cut(h, n) \in Seq(X) /\ Len(Cut(h, n)) = Len(h) - n
           /\ \A j \in 1 .. Len(h) - n : Cut(h, n)[j] = h[j]
<1>1. Len(h) \in Nat /\ n \in Nat /\ n <= Len(h) /\ \A i \in 1 .. Len(h) : h[i] \in X
  BY LenProperties
<1>2. PICK m \in Nat : m = Len(h) - n
  <2>1. \A a, c \in Nat : c <= a => a - c \in Nat
    OBVIOUS
  <2> QED
    BY <1>1, <2>1
<1>3. \A i \in 1 .. m : h[i] \in X
  BY <1>1, <1>2
<1>4. /\ SubSeq(h, 1, m) \in Seq(X) /\ Len(SubSeq(h, 1, m)) = IF 1 <= m THEN m - 1 + 1 ELSE 0
      /\ \A i \in 1 .. m - 1 + 1 : SubSeq(h, 1, m)[i] = h[1 + i - 1]
  BY <1>3, SubSeqProperties
<1>5. PICK g \in Seq(X) : g = SubSeq(h, 1, m)
  BY <1>4
<1>6. Len(g) = m /\ \A i \in 1 .. m : g[i] = h[i]
  <2>1. m - 1 + 1 = m /\ (IF 1 <= m THEN m - 1 + 1 ELSE 0) = m /\ \A i \in 1 .. m : 1 + i - 1 = i
    BY <1>2
  <2> QED
    BY <1>4, <1>5, <2>1
<1> QED
  BY <1>2, <1>5, <1>6 DEF Cut

LEMMA CutOne ==
    ASSUME NEW X, NEW h \in Seq(X), NEW n \in 0 .. Len(h) - 1, NEW S
    PROVE  Occ(Cut(h, n + 1), S) + In(h[Len(h) - n], S) = Occ(Cut(h, n), S)
<1>1. Len(h) \in Nat /\ n \in 0 .. Len(h) /\ n + 1 \in 0 .. Len(h) /\ n \in Nat
  BY LenProperties
<1>2. PICK g \in Seq(X) : g = Cut(h, n) /\ Len(g) = Len(h) - n /\ \A j \in 1 .. Len(h) - n : g[j] = h[j]
  BY <1>1, CutIs
<1>3. PICK c \in Seq(X) : c = Cut(h, n + 1) /\ Len(c) = Len(h) - (n + 1) /\ \A j \in 1 .. Len(h) - (n + 1) : c[j] = h[j]
  BY <1>1, CutIs
<1>4. Len(h) - n \in 1 .. Len(g) /\ g[Len(h) - n] = h[Len(h) - n]
  BY <1>1, <1>2
<1>5. Len(g) = Len(c) + 1 /\ \A j \in 1 .. Len(c) : j < Len(h) - n /\ j \in 1 .. Len(h) - n /\ j \in 1 .. Len(h) - (n + 1)
  <2>1. \A a, b \in Nat : b <= a - 1 =>
            /\ a - b = (a - (b + 1)) + 1
            /\ \A j \in 1 .. a - (b + 1) : j < a - b /\ j \in 1 .. a - b
    OBVIOUS
  <2>2. n <= Len(h) - 1
    BY <1>1
  <2> QED
    BY <1>1, <1>2, <1>3, <2>1, <2>2
<1>6. Lacks(c, g, Len(h) - n)
  BY <1>2, <1>3, <1>5 DEF Lacks
<1> QED
  BY <1>2, <1>3, <1>4, <1>6, OccLacks

LEMMA CutNone ==
    ASSUME NEW X, NEW h \in Seq(X)
    PROVE  Cut(h, 0) = h
<1>1. Len(h) \in Nat /\ 0 \in 0 .. Len(h)
  BY LenProperties
<1>2. Cut(h, 0) \in Seq(X) /\ Len(Cut(h, 0)) = Len(h) - 0 /\ \A j \in 1 .. Len(h) - 0 : Cut(h, 0)[j] = h[j]
  BY <1>1, CutIs
<1> QED
  BY <1>1, <1>2, SeqEqual

-----------------------------------------------------------------------------
(* Counting over the tasks.                                                *)

\* The places of one task, and of the others.
AtTask(f, t, S) == {t} \X Where(f[t], S)
Elsewhere(f, t, S) == UNION {AtTask(f, u, S) : u \in Tasks \ {t}}

LEMMA TasksFinite ==
    IsFiniteSet(Tasks) /\ IsFiniteSet(Homes) /\ IsFiniteSet(Fields)
           /\ IsFiniteSet(Tasks \X Homes) /\ IsFiniteSet(Supers \X Fields)
<1>1. IsFiniteSet(Tasks) /\ IsFiniteSet(Supers) /\ Homes \subseteq {"ipwd", "iroot"}
  BY InodeAssumption DEF Tasks
<1>2. \A a, b : IsFiniteSet({a, b})
  <2> TAKE a, b
  <2>1. IsFiniteSet({a}) /\ IsFiniteSet({a} \cup {b})
    BY FS_Singleton, FS_AddElement
  <2>2. {a} \cup {b} = {a, b}
    OBVIOUS
  <2> QED
    BY <2>1, <2>2
<1>3. IsFiniteSet(Homes) /\ IsFiniteSet(Fields)
  BY <1>1, <1>2, FS_Subset DEF Fields
<1> QED
  BY <1>1, <1>3, FS_Product

LEMMA AtTaskIs ==
    ASSUME NEW X, NEW q \in Seq(X), NEW t, NEW S
    PROVE  IsFiniteSet({t} \X Where(q, S)) /\ Cardinality({t} \X Where(q, S)) = Occ(q, S)
<1>1. IsFiniteSet(Where(q, S)) /\ Occ(q, S) \in Nat
  BY WhereIsFinite
<1>2. IsFiniteSet({t}) /\ Cardinality({t}) = 1
  BY FS_Singleton
<1>3. /\ IsFiniteSet({t} \X Where(q, S))
      /\ Cardinality({t} \X Where(q, S)) = Cardinality({t}) * Cardinality(Where(q, S))
  BY <1>1, <1>2, FS_Product
<1> QED
  BY <1>1, <1>2, <1>3 DEF Occ

LEMMA PlacesAre ==
    ASSUME NEW X, NEW f \in [Tasks -> Seq(X)], NEW S
    PROVE  Places(f, S) = UNION {AtTask(f, u, S) : u \in Tasks}
<1>1. ASSUME NEW u \in Tasks
      PROVE  {u} \X {k \in DOMAIN f[u] : f[u][k] \in S} = AtTask(f, u, S)
  <2>1. DOMAIN f[u] = 1 .. Len(f[u])
    BY LenProperties
  <2> QED
    BY <2>1 DEF AtTask, Where
<1>2. Places(f, S) \subseteq UNION {AtTask(f, u, S) : u \in Tasks}
  BY <1>1 DEF Places
<1>3. UNION {AtTask(f, u, S) : u \in Tasks} \subseteq Places(f, S)
  BY <1>1 DEF Places
<1> QED
  BY <1>2, <1>3

LEMMA ElsewhereIsFinite ==
    ASSUME NEW X, NEW f \in [Tasks -> Seq(X)], NEW t, NEW S
    PROVE  IsFiniteSet(Elsewhere(f, t, S))
<1> DEFINE T == Tasks \ {t}
           Sets == {AtTask(f, u, S) : u \in T}
           g == [u \in T |-> AtTask(f, u, S)]
<1>1. IsFiniteSet(T)
  BY TasksFinite, FS_Difference
<1>2. g \in Surjection(T, Sets)
  BY DEF Surjection
<1>3. IsFiniteSet(Sets)
  BY <1>1, <1>2, FS_Surjection
<1>4. ASSUME NEW A \in Sets
      PROVE  IsFiniteSet(A)
  <2>1. PICK u \in T : A = AtTask(f, u, S)
    OBVIOUS
  <2>2. f[u] \in Seq(X)
    OBVIOUS
  <2> QED
    BY <2>1, <2>2, AtTaskIs DEF AtTask
<1> QED
  BY <1>3, <1>4, FS_UNION DEF Elsewhere

LEMMA TotalSplits ==
    ASSUME NEW X, NEW f \in [Tasks -> Seq(X)], NEW t \in Tasks, NEW S
    PROVE  /\ Total(f, S) = Cardinality(Elsewhere(f, t, S)) + Occ(f[t], S)
           /\ Cardinality(Elsewhere(f, t, S)) \in Nat /\ Occ(f[t], S) \in Nat /\ Total(f, S) \in Nat
<1>1. IsFiniteSet(AtTask(f, t, S)) /\ Cardinality(AtTask(f, t, S)) = Occ(f[t], S)
  BY AtTaskIs DEF AtTask
<1>2. IsFiniteSet(Elsewhere(f, t, S))
  BY ElsewhereIsFinite
<1>3. Places(f, S) = Elsewhere(f, t, S) \cup AtTask(f, t, S)
  <2>1. Places(f, S) = UNION {AtTask(f, u, S) : u \in Tasks}
    BY PlacesAre
  <2> QED
    BY <2>1 DEF Elsewhere
<1>4. Elsewhere(f, t, S) \cap AtTask(f, t, S) = {}
  BY DEF Elsewhere, AtTask
<1>5. Cardinality(Places(f, S)) =
        Cardinality(Elsewhere(f, t, S)) + Cardinality(AtTask(f, t, S)) - Cardinality({})
  BY <1>1, <1>2, <1>3, <1>4, FS_Union
<1>6. Cardinality({}) = 0 /\ Occ(f[t], S) \in Nat /\ Cardinality(Elsewhere(f, t, S)) \in Nat
  BY <1>2, FS_EmptySet, FS_CardinalityType, WhereIsFinite
<1> QED
  BY <1>1, <1>5, <1>6 DEF Total

\* f and g differ only for t.
Differ(f, g, t) == \A u \in Tasks \ {t} : g[u] = f[u]

\* A number changes by as much as another.
Differs(a, a2, b, b2) == a2 + b = a + b2

Lists(f, X) == f \in [Tasks -> Seq(X)]

LEMMA TotalChange ==
    ASSUME NEW X, NEW f, NEW g, Lists(f, X), Lists(g, X), NEW t \in Tasks, Differ(f, g, t), NEW S
    PROVE  Differs(Total(f, S), Total(g, S), Occ(f[t], S), Occ(g[t], S))
<1>1. f \in [Tasks -> Seq(X)] /\ g \in [Tasks -> Seq(X)]
  BY DEF Lists
<1>2. Elsewhere(g, t, S) = Elsewhere(f, t, S)
  BY DEF Elsewhere, AtTask, Differ
<1>3. /\ Total(f, S) = Cardinality(Elsewhere(f, t, S)) + Occ(f[t], S)
      /\ Cardinality(Elsewhere(f, t, S)) \in Nat /\ Occ(f[t], S) \in Nat
  BY <1>1, TotalSplits
<1>4. Total(g, S) = Cardinality(Elsewhere(g, t, S)) + Occ(g[t], S) /\ Occ(g[t], S) \in Nat
  BY <1>1, TotalSplits
<1> QED
  BY <1>2, <1>3, <1>4 DEF Differs

LEMMA TotalIsNumber ==
    ASSUME NEW X, NEW f, Lists(f, X), NEW t \in Tasks, NEW S
    PROVE  Total(f, S) \in Nat /\ Occ(f[t], S) \in Nat /\ Total(f, S) >= Occ(f[t], S)
<1>1. f \in [Tasks -> Seq(X)]
  BY DEF Lists
<1>2. /\ Total(f, S) = Cardinality(Elsewhere(f, t, S)) + Occ(f[t], S)
      /\ Cardinality(Elsewhere(f, t, S)) \in Nat /\ Occ(f[t], S) \in Nat
  BY <1>1, TotalSplits
<1> QED
  BY <1>2

LEMMA OccIsPositive ==
    ASSUME NEW X, NEW q \in Seq(X), NEW S, NEW k \in 1 .. Len(q), q[k] \in S
    PROVE  Occ(q, S) >= 1
<1>1. IsFiniteSet(Where(q, S)) /\ Occ(q, S) \in Nat /\ k \in Where(q, S)
  BY WhereIsFinite DEF Where
<1> QED
  BY <1>1, FS_EmptySet DEF Occ

\* Two sets that differ in one element, or in two.
LEMMA PointChange ==
    ASSUME NEW A, NEW B, IsFiniteSet(A), NEW p, \A x : x # p => (x \in A <=> x \in B)
    PROVE  /\ IsFiniteSet(B) /\ Cardinality(A) \in Nat /\ Cardinality(B) \in Nat
           /\ Cardinality(B) + In(p, A) = Cardinality(A) + In(p, B)
<1>1. A \ {p} = B \ {p}
  OBVIOUS
<1>2. IsFiniteSet(A \ {p}) /\ p \notin A \ {p}
  BY FS_RemoveElement
<1>3. A = (IF p \in A THEN (A \ {p}) \cup {p} ELSE A \ {p})
  OBVIOUS
<1>4. B = (IF p \in B THEN (A \ {p}) \cup {p} ELSE A \ {p})
  BY <1>1
<1>5. /\ IsFiniteSet((A \ {p}) \cup {p}) /\ Cardinality((A \ {p}) \cup {p}) = Cardinality(A \ {p}) + 1
      /\ Cardinality(A \ {p}) \in Nat
  BY <1>2, FS_AddElement, FS_CardinalityType
<1>6. PICK n \in Nat : n = Cardinality(A \ {p})
  BY <1>5
<1>7. Cardinality(A) = n + In(p, A)
  <2>1. CASE p \in A
    BY <1>3, <1>5, <1>6, <2>1 DEF In
  <2>2. CASE p \notin A
    <3>1. A \ {p} = A /\ In(p, A) = 0
      BY <2>2 DEF In
    <3> QED
      BY <1>6, <3>1
  <2> QED
    BY <2>1, <2>2
<1>8. Cardinality(B) = n + In(p, B) /\ IsFiniteSet(B)
  <2>1. CASE p \in B
    BY <1>4, <1>5, <1>6, <2>1 DEF In
  <2>2. CASE p \notin B
    BY <1>2, <1>4, <1>6, <2>2 DEF In
  <2> QED
    BY <2>1, <2>2
<1>9. \A x, S : In(x, S) \in {0, 1}
  BY DEF In
<1>10. In(p, A) \in {0, 1} /\ In(p, B) \in {0, 1}
  BY <1>9
<1> QED
  BY <1>7, <1>8, <1>10

SameButTwo(A, B, p, r) == \A x : x # p /\ x # r => (x \in A <=> x \in B)
TwoMoved(A, B, p, r) ==
    /\ Cardinality(A) \in Nat /\ Cardinality(B) \in Nat
    /\ Cardinality(B) + In(p, A) + In(r, A) = Cardinality(A) + In(p, B) + In(r, B)

LEMMA PairChange ==
    ASSUME NEW A, NEW B, IsFiniteSet(A), NEW p, NEW r, p # r, SameButTwo(A, B, p, r)
    PROVE  TwoMoved(A, B, p, r)
<1> DEFINE C == (A \ {p}) \cup (B \cap {p})
<1>1. \A x : x # p => (x \in A <=> x \in C)
  OBVIOUS
<1>2. \A x : x # r => (x \in C <=> x \in B)
  BY DEF SameButTwo
<1>3. (p \in C <=> p \in B) /\ (r \in C <=> r \in A)
  OBVIOUS
<1>4. In(p, C) = In(p, B) /\ In(r, C) = In(r, A)
  BY <1>3 DEF In
<1> HIDE DEF C
<1>5. /\ IsFiniteSet(C) /\ Cardinality(A) \in Nat /\ Cardinality(C) \in Nat
      /\ Cardinality(C) + In(p, A) = Cardinality(A) + In(p, C)
  BY <1>1, PointChange
<1>6. /\ IsFiniteSet(B) /\ Cardinality(B) \in Nat
      /\ Cardinality(B) + In(r, C) = Cardinality(C) + In(r, B)
  BY <1>2, <1>5, PointChange
<1>7. \A x, S : In(x, S) \in {0, 1}
  BY DEF In
<1>8. In(p, A) \in {0, 1} /\ In(r, A) \in {0, 1} /\ In(p, B) \in {0, 1} /\ In(r, B) \in {0, 1}
  BY <1>7
<1> QED
  BY <1>4, <1>5, <1>6, <1>8 DEF TwoMoved

-----------------------------------------------------------------------------
(* A step of one task.                                                     *)

\* What a step changes in the count of an inode, and in what refers to it: in
\* the inodes and the micro-steps of the task, the directories, the mounts.
Balance(n, n2, a, a2, b, b2, d, d2, m, m2) == n2 + a + b + d + m = n + a2 + b2 + d2 + m2
Tally(n, n2, a, a2, b, b2) == n2 + a + b = n + a2 + b2

LEMMA FillSums ==
    ASSUME NEW a \in Nat, NEW a2 \in Nat, NEW b \in Nat, NEW b2 \in Nat, NEW u \in Nat, NEW u2 \in Nat,
           a = u, Differs(a, a2, b, b2), Differs(u, u2, b, b2)
    PROVE  a2 = u2
BY DEF Differs

LEMMA TallySums ==
    ASSUME NEW n \in Nat, NEW n2 \in Nat, NEW a \in Nat, NEW a2 \in Nat, NEW b \in Nat, NEW b2 \in Nat,
           NEW d \in Nat, NEW m \in Nat, Tally(n, n2, a, a2, b, b2)
    PROVE  Balance(n, n2, a, a2, b, b2, d, d, m, m)
BY DEF Tally, Balance

LEMMA RefsAreNumbers ==
    ASSUME NEW hm, NEW td, NEW sup, NEW M, NEW i
    PROVE  /\ IsFiniteSet(HomeSet(hm, td, i)) /\ HomeRefs(hm, td, i) \in Nat
           /\ IsFiniteSet(SuperSet(sup, M, i)) /\ SuperRefs(sup, M, i) \in Nat
<1>1. HomeSet(hm, td, i) \subseteq Tasks \X Homes /\ SuperSet(sup, M, i) \subseteq Supers \X Fields
  BY DEF HomeSet, SuperSet
<1> QED
  BY <1>1, TasksFinite, FS_Subset, FS_CardinalityType DEF HomeRefs, SuperRefs

\* The hypotheses of a step of t.
FillsBalance(td, td2, sl, sl2, t) ==
    \A i \in Slots :
        Differs(Unread(sl[i]), Unread(sl2[i]), Occ(td[t], Fills(i)), Occ(td2[t], Fills(i)))
CountsBalance(td, td2, sl, sl2, sup, sup2, hm, hm2, hd, hd2, t) ==
    \A i \in Slots :
        Balance(sl[i].count, sl2[i].count, Occ(hd[t], Only(i)), Occ(hd2[t], Only(i)),
                Occ(td[t], Calls(i)), Occ(td2[t], Calls(i)), HomeRefs(hm, td, i), HomeRefs(hm2, td2, i),
                SuperRefs(sup, AllMounts(td), i), SuperRefs(sup2, AllMounts(td2), i))
CountsTally(td, td2, sl, sl2, hd, hd2, t) ==
    \A i \in Slots :
        Tally(sl[i].count, sl2[i].count, Occ(hd[t], Only(i)), Occ(hd2[t], Only(i)),
              Occ(td[t], Calls(i)), Occ(td2[t], Calls(i)))

\* t goes from the first micro-steps and inodes to the second ones.
Goes(td, td2, hd, hd2, t) ==
    /\ Lists(td2, Ops) /\ Lists(hd2, Slots)
    /\ Differ(td, td2, t) /\ Differ(hd, hd2, t)
Executes(kn, kn2, t) == kn \in {t, None} /\ kn2 \in {t, None}
NoneClears(td, sup, sup2, t) == sup2 = sup \/ \A u \in Tasks \ {t} : ~HasKind(td[u], "clear")
KeepsOut(td2, t) == t \notin Mounters => Mounts(td2[t]) = {}
HomesOk(hm) == hm \in [Tasks -> [Homes -> Slots]]

LEMMA Moves ==
    ASSUME NEW kn, NEW td, NEW sl, NEW sup, NEW hm, NEW hd, IInvOf(kn, td, sl, sup, hm, hd),
           NEW t \in Tasks, NEW kn2, NEW td2, NEW sl2, NEW sup2, NEW hm2, NEW hd2,
           Executes(kn, kn2, t), Goes(td, td2, hd, hd2, t), Stack(td2[t], hd2[t], sup2, kn2, t),
           KeepsOut(td2, t), NoneClears(td, sup, sup2, t),
           SuperInv(sup2), Phase(AllMounts(td2), sup2), SlotInv(sl2), HomesOk(hm2),
           FillsBalance(td, td2, sl, sl2, t),
           CountsBalance(td, td2, sl, sl2, sup, sup2, hm, hm2, hd, hd2, t)
    PROVE  IInvOf(kn2, td2, sl2, sup2, hm2, hd2)
<1>1. /\ td \in [Tasks -> Seq(Ops)] /\ hd \in [Tasks -> Seq(Slots)]
      /\ \A u \in Tasks : Stack(td[u], hd[u], sup, kn, u)
      /\ SlotInv(sl) /\ \A u \in Tasks \ Mounters : Mounts(td[u]) = {}
  BY DEF IInvOf
<1>2. /\ td2 \in [Tasks -> Seq(Ops)] /\ hd2 \in [Tasks -> Seq(Slots)]
      /\ \A u \in Tasks \ {t} : td2[u] = td[u] /\ hd2[u] = hd[u]
      /\ Differ(td, td2, t) /\ Differ(hd, hd2, t)
  BY DEF Goes, Lists, Differ
<1>3. kn \in {t, None} /\ kn2 \in {t, None} /\ None \notin Tasks
  BY InodeAssumption DEF Tasks, Executes
<1>4. ASSUME NEW u \in Tasks
      PROVE  Stack(td2[u], hd2[u], sup2, kn2, u)
  <2>1. CASE u = t
    BY <2>1
  <2>2. CASE u # t
    <3>1. kn # u /\ td2[u] = td[u] /\ hd2[u] = hd[u] /\ Stack(td[u], hd[u], sup, kn, u)
      BY <1>1, <1>2, <1>3, <2>2
    <3>2. ClearLate(td[u], sup2, kn2, u)
      <4>1. ClearLate(td[u], sup, kn, u)
        BY <3>1 DEF Stack
      <4>2. CASE sup2 = sup
        BY <3>1, <4>1, <4>2 DEF ClearLate
      <4>3. CASE ~HasKind(td[u], "clear")
        BY <4>3 DEF ClearLate, HasKind
      <4> QED
        BY <2>2, <4>2, <4>3 DEF NoneClears
    <3> QED
      BY <3>1, <3>2 DEF Stack
  <2> QED
    BY <2>1, <2>2
<1>5. \A u \in Tasks \ Mounters : Mounts(td2[u]) = {}
  <2> TAKE u \in Tasks \ Mounters
  <2>1. CASE u = t
    BY <2>1 DEF KeepsOut
  <2>2. CASE u # t
    BY <1>1, <1>2, <2>2
  <2> QED
    BY <2>1, <2>2
<1>6. Lists(td, Ops) /\ Lists(td2, Ops) /\ Lists(hd, Slots) /\ Lists(hd2, Slots)
  BY <1>1, <1>2 DEF Lists
<1>7. ASSUME NEW i \in Slots
      PROVE  Total(td2, Fills(i)) = Unread(sl2[i])
  <2>1. Total(td, Fills(i)) = Unread(sl[i])
    BY DEF IInvOf
  <2>2. Differs(Total(td, Fills(i)), Total(td2, Fills(i)), Occ(td[t], Fills(i)), Occ(td2[t], Fills(i)))
    BY <1>2, <1>6, TotalChange
  <2>3. Differs(Unread(sl[i]), Unread(sl2[i]), Occ(td[t], Fills(i)), Occ(td2[t], Fills(i)))
    BY DEF FillsBalance
  <2>4. /\ Total(td2, Fills(i)) \in Nat /\ Total(td, Fills(i)) \in Nat
        /\ Occ(td[t], Fills(i)) \in Nat /\ Occ(td2[t], Fills(i)) \in Nat
    BY <1>6, TotalIsNumber
  <2>5. Unread(sl2[i]) \in Nat /\ Unread(sl[i]) \in Nat
    BY DEF Unread
  <2> QED
    BY <2>1, <2>2, <2>3, <2>4, <2>5, FillSums
<1>8. ASSUME NEW i \in Slots
      PROVE  IsSum(sl2[i].count, Total(hd2, Only(i)), Total(td2, Calls(i)),
                   HomeRefs(hm2, td2, i), SuperRefs(sup2, AllMounts(td2), i))
  <2>1. IsSum(sl[i].count, Total(hd, Only(i)), Total(td, Calls(i)),
              HomeRefs(hm, td, i), SuperRefs(sup, AllMounts(td), i))
    BY DEF IInvOf
  <2>2. /\ Differs(Total(td, Calls(i)), Total(td2, Calls(i)), Occ(td[t], Calls(i)), Occ(td2[t], Calls(i)))
        /\ Differs(Total(hd, Only(i)), Total(hd2, Only(i)), Occ(hd[t], Only(i)), Occ(hd2[t], Only(i)))
    BY <1>2, <1>6, TotalChange
  <2>3. Balance(sl[i].count, sl2[i].count, Occ(hd[t], Only(i)), Occ(hd2[t], Only(i)),
                Occ(td[t], Calls(i)), Occ(td2[t], Calls(i)), HomeRefs(hm, td, i), HomeRefs(hm2, td2, i),
                SuperRefs(sup, AllMounts(td), i), SuperRefs(sup2, AllMounts(td2), i))
    BY DEF CountsBalance
  <2>4. /\ Total(td2, Calls(i)) \in Nat /\ Total(td, Calls(i)) \in Nat
        /\ Total(hd2, Only(i)) \in Nat /\ Total(hd, Only(i)) \in Nat
        /\ Occ(td[t], Calls(i)) \in Nat /\ Occ(td2[t], Calls(i)) \in Nat
        /\ Occ(hd[t], Only(i)) \in Nat /\ Occ(hd2[t], Only(i)) \in Nat
    BY <1>6, TotalIsNumber
  <2>5. /\ HomeRefs(hm, td, i) \in Nat /\ HomeRefs(hm2, td2, i) \in Nat
        /\ SuperRefs(sup, AllMounts(td), i) \in Nat /\ SuperRefs(sup2, AllMounts(td2), i) \in Nat
    BY RefsAreNumbers
  <2>6. sl2[i].count \in Nat /\ sl[i].count \in Nat
    BY <1>1 DEF SlotInv, SlotRec
  <2>7. PICK n \in Nat, n2 \in Nat : n = sl[i].count /\ n2 = sl2[i].count
    BY <2>6
  <2>8. PICK a \in Nat, a2 \in Nat, b \in Nat, b2 \in Nat :
            a = Occ(hd[t], Only(i)) /\ a2 = Occ(hd2[t], Only(i))
            /\ b = Occ(td[t], Calls(i)) /\ b2 = Occ(td2[t], Calls(i))
    BY <2>4
  <2>9. PICK x \in Nat, x2 \in Nat, y \in Nat, y2 \in Nat :
            x = Total(hd, Only(i)) /\ x2 = Total(hd2, Only(i))
            /\ y = Total(td, Calls(i)) /\ y2 = Total(td2, Calls(i))
    BY <2>4
  <2>10. PICK d \in Nat, d2 \in Nat, m \in Nat, m2 \in Nat :
            d = HomeRefs(hm, td, i) /\ d2 = HomeRefs(hm2, td2, i)
            /\ m = SuperRefs(sup, AllMounts(td), i) /\ m2 = SuperRefs(sup2, AllMounts(td2), i)
    BY <2>5
  <2>11. /\ IsSum(n, x, y, d, m) /\ Differs(x, x2, a, a2) /\ Differs(y, y2, b, b2)
         /\ Balance(n, n2, a, a2, b, b2, d, d2, m, m2)
    BY <2>1, <2>2, <2>3, <2>7, <2>8, <2>9, <2>10
  <2>12. IsSum(n2, x2, y2, d2, m2)
    BY <2>11 DEF IsSum, Differs, Balance
  <2> QED
    BY <2>7, <2>9, <2>10, <2>12
<1>9. kn2 \in Tasks \cup {None}
  BY <1>3
<1>10. hm2 \in [Tasks -> [Homes -> Slots]]
  BY DEF HomesOk
<1> QED
  BY <1>2, <1>4, <1>5, <1>7, <1>8, <1>9, <1>10 DEF IInvOf

\* A step that leaves super_table, the mounts and the directories alone.
SameHomed(old, new) == \A w \in Homes : Has(new, <<"homed", w>>) <=> Has(old, <<"homed", w>>)

LEMMA SameHomes ==
    ASSUME NEW td, NEW t, NEW td2, Differ(td, td2, t), SameHomed(td[t], td2[t]), NEW hm, NEW i
    PROVE  HomeRefs(hm, td2, i) = HomeRefs(hm, td, i)
<1>1. \A x \in Tasks \X Homes : Has(td2[x[1]], <<"homed", x[2]>>) <=> Has(td[x[1]], <<"homed", x[2]>>)
  <2> TAKE x \in Tasks \X Homes
  <2>1. x[1] \in Tasks /\ x[2] \in Homes
    OBVIOUS
  <2>2. CASE x[1] = t
    BY <2>1, <2>2 DEF SameHomed
  <2>3. CASE x[1] # t
    BY <2>1, <2>3 DEF Differ
  <2> QED
    BY <2>2, <2>3
<1> QED
  BY <1>1 DEF HomeSet, HomeRefs

LEMMA SameMounts ==
    ASSUME NEW td, NEW t, NEW td2, Differ(td, td2, t), Mounts(td2[t]) = Mounts(td[t])
    PROVE  AllMounts(td2) = AllMounts(td)
<1>1. \A u \in Tasks : Mounts(td2[u]) = Mounts(td[u])
  BY DEF Differ
<1> QED
  BY <1>1 DEF AllMounts

LEMMA QuietStep ==
    ASSUME NEW kn, NEW td, NEW sl, NEW sup, NEW hm, NEW hd, IInvOf(kn, td, sl, sup, hm, hd),
           NEW t \in Tasks, NEW kn2, NEW td2, NEW sl2, NEW hd2,
           Executes(kn, kn2, t), Goes(td, td2, hd, hd2, t), Stack(td2[t], hd2[t], sup, kn2, t),
           Mounts(td2[t]) = Mounts(td[t]), SameHomed(td[t], td2[t]), SlotInv(sl2),
           FillsBalance(td, td2, sl, sl2, t), CountsTally(td, td2, sl, sl2, hd, hd2, t)
    PROVE  IInvOf(kn2, td2, sl2, sup, hm, hd2)
<1>1. /\ Lists(td, Ops) /\ Lists(hd, Slots) /\ HomesOk(hm)
      /\ SlotInv(sl) /\ \A u \in Tasks \ Mounters : Mounts(td[u]) = {}
      /\ SuperInv(sup) /\ Phase(AllMounts(td), sup)
  BY DEF IInvOf, Lists, HomesOk
<1>2. Lists(td2, Ops) /\ Lists(hd2, Slots) /\ Differ(td, td2, t)
  BY DEF Goes
<1>3. AllMounts(td2) = AllMounts(td)
  BY <1>2, SameMounts
<1>4. \A i : HomeRefs(hm, td2, i) = HomeRefs(hm, td, i)
  BY <1>2, SameHomes
<1>5. ASSUME NEW i \in Slots
      PROVE  Balance(sl[i].count, sl2[i].count, Occ(hd[t], Only(i)), Occ(hd2[t], Only(i)),
                Occ(td[t], Calls(i)), Occ(td2[t], Calls(i)), HomeRefs(hm, td, i), HomeRefs(hm, td2, i),
                SuperRefs(sup, AllMounts(td), i), SuperRefs(sup, AllMounts(td2), i))
  <2>1. Tally(sl[i].count, sl2[i].count, Occ(hd[t], Only(i)), Occ(hd2[t], Only(i)),
              Occ(td[t], Calls(i)), Occ(td2[t], Calls(i)))
    BY DEF CountsTally
  <2>2. /\ Occ(td[t], Calls(i)) \in Nat /\ Occ(td2[t], Calls(i)) \in Nat
        /\ Occ(hd[t], Only(i)) \in Nat /\ Occ(hd2[t], Only(i)) \in Nat
    BY <1>1, <1>2, TotalIsNumber
  <2>3. HomeRefs(hm, td, i) \in Nat /\ SuperRefs(sup, AllMounts(td), i) \in Nat
    BY RefsAreNumbers
  <2>4. sl2[i].count \in Nat /\ sl[i].count \in Nat
    BY <1>1 DEF SlotInv, SlotRec
  <2>5. Balance(sl[i].count, sl2[i].count, Occ(hd[t], Only(i)), Occ(hd2[t], Only(i)),
                Occ(td[t], Calls(i)), Occ(td2[t], Calls(i)), HomeRefs(hm, td, i), HomeRefs(hm, td, i),
                SuperRefs(sup, AllMounts(td), i), SuperRefs(sup, AllMounts(td), i))
    BY <2>1, <2>2, <2>3, <2>4, TallySums
  <2> QED
    BY <1>3, <1>4, <2>5
<1>6. KeepsOut(td2, t) /\ NoneClears(td, sup, sup, t)
  BY <1>1 DEF KeepsOut, NoneClears
<1>7. Phase(AllMounts(td2), sup)
  BY <1>1, <1>3
<1>8. CountsBalance(td, td2, sl, sl2, sup, sup, hm, hm, hd, hd2, t)
  BY <1>5 DEF CountsBalance
<1> QED
  BY <1>1, <1>6, <1>7, <1>8, Moves

-----------------------------------------------------------------------------
(* The micro-step of a task, and what it leaves to do.                     *)

\* Micro-steps before which the task does not put or clear anything.
Calm(q, n) == Good(q, n) /\ ~HasKind(q, "homed") /\ ~HasKind(q, "clear")

\* What may be put before them.
Fit(x, q, n) ==
    /\ x \in Ops /\ x[1] # "homed" /\ x[1] # "clear" /\ ~MayEnd(x)
    /\ n \in Nat /\ n >= Needs(x[1]) /\ n + Gain(x[1]) \in Nat
    /\ Above(x, Mounts(q)) /\ (x[1] \in Finals => q = << >>)

LEMMA Popped ==
    ASSUME NEW x \in Ops, NEW Q \in Seq(Ops), NEW h, NEW sup, NEW kn, NEW t,
           Stack(<<x>> \o Q, h, sup, kn, t)
    PROVE  /\ h \in Seq(Slots) /\ Before(x, Q, Len(h)) /\ Good(Q, Len(h) + Gain(x[1]))
           /\ Len(h) >= Needs(x[1]) /\ Len(h) + Gain(x[1]) \in Nat /\ Len(h) \in Nat
           /\ ClearFirst(Q) /\ (HasKind(Q, "clear") => ClearOf(x, Q[1], sup))
           /\ x[1] = "clear" => kn = t
<1>1. h \in Seq(Slots) /\ Good(<<x>> \o Q, Len(h)) /\ ClearLate(<<x>> \o Q, sup, kn, t)
  BY DEF Stack
<1>2. Len(h) \in Nat
  BY <1>1, LenProperties
<1>3. Before(x, Q, Len(h)) /\ Good(Q, Len(h) + Gain(x[1]))
  BY <1>1, <1>2, GoodAhead
<1>4. ClearFirst(Q) /\ (HasKind(Q, "clear") => ClearOf(x, Q[1], sup)) /\ (x[1] = "clear" => kn = t)
  BY <1>1, ClearAhead
<1> QED
  BY <1>1, <1>2, <1>3, <1>4 DEF Before

LEMMA CalmTail ==
    ASSUME NEW x \in Ops, NEW Q \in Seq(Ops), NEW h, NEW sup, NEW kn, NEW t,
           Stack(<<x>> \o Q, h, sup, kn, t), ~Drops(x)
    PROVE  Calm(Q, Len(h) + Gain(x[1]))
<1>1. /\ Before(x, Q, Len(h)) /\ Good(Q, Len(h) + Gain(x[1]))
      /\ ClearFirst(Q) /\ (HasKind(Q, "clear") => ClearOf(x, Q[1], sup))
  BY Popped
<1>2. ~HasKind(Q, "homed")
  BY <1>1 DEF Before
<1>3. ASSUME HasKind(Q, "clear")
      PROVE  FALSE
  <2>1. PICK k \in 1 .. Len(Q) : Q[k][1] = "clear"
    BY <1>3 DEF HasKind
  <2>2. k = 1
    BY <1>1, <2>1 DEF ClearFirst
  <2>3. DropsOf(x, sup[Q[1][2]][Q[1][3]])
    BY <1>1, <1>3, <2>1, <2>2 DEF ClearOf
  <2> QED
    BY <2>3 DEF DropsOf, Drops
<1> QED
  BY <1>1, <1>2, <1>3 DEF Calm

\* What a list counts for with one more micro-step in front.
Splits(q, x, Q) == \A S : Occ(q, S) = In(x, S) + Occ(Q, S)

LEMMA CalmAhead ==
    ASSUME NEW x, NEW Q, NEW n, Fit(x, Q, n), Calm(Q, n + Gain(x[1]))
    PROVE  /\ Calm(<<x>> \o Q, n)
           /\ Mounts(<<x>> \o Q) = (IF IsMount(x) THEN {x} ELSE {}) \cup Mounts(Q)
           /\ Splits(<<x>> \o Q, x, Q)
<1>1. x \in Ops /\ Q \in Seq(Ops) /\ n \in Nat
  BY DEF Fit, Calm, Good
<1>2. HomedFirst(Q)
  BY <1>1, HomedAhead DEF Calm
<1>3. Good(<<x>> \o Q, n)
  BY <1>1, <1>2, GoodAhead DEF Fit, Calm, Before
<1>4. ~HasKind(<<x>> \o Q, "homed") /\ ~HasKind(<<x>> \o Q, "clear")
  BY <1>1, HasAhead DEF Fit, Calm
<1> QED
  BY <1>1, <1>3, <1>4, MountsAhead, OccAhead DEF Calm, Splits

\* A micro-step that is not of a mount.
Small(x, n) ==
    /\ x \in Ops /\ x[1] \notin MountKinds \cup {"homed", "chdir"} /\ ~MayEnd(x)
    /\ n \in Nat /\ n >= Needs(x[1]) /\ n + Gain(x[1]) \in Nat

LEMMA SmallAhead ==
    ASSUME NEW x, NEW Q, NEW n, Small(x, n), Calm(Q, n + Gain(x[1]))
    PROVE  /\ Calm(<<x>> \o Q, n) /\ Mounts(<<x>> \o Q) = Mounts(Q)
           /\ Splits(<<x>> \o Q, x, Q)
<1>1. ~IsMount(x) /\ x[1] # "clear" /\ x[1] # "homed"
  BY DEF Small, IsMount, MountKinds
<1>2. Fit(x, Q, n)
  BY <1>1 DEF Small, Fit, Above, Finals, MountKinds
<1>3. /\ Calm(<<x>> \o Q, n)
      /\ Mounts(<<x>> \o Q) = (IF IsMount(x) THEN {x} ELSE {}) \cup Mounts(Q)
      /\ Splits(<<x>> \o Q, x, Q)
  BY <1>2, CalmAhead
<1> QED
  BY <1>1, <1>3

LEMMA CalmStack ==
    ASSUME NEW q, NEW h \in Seq(Slots), Calm(q, Len(h)), NEW sup, NEW kn, NEW t
    PROVE  Stack(q, h, sup, kn, t)
BY DEF Calm, Stack, ClearLate, HasKind

LEMMA CalmNothing ==
    ASSUME NEW n \in Nat
    PROVE  Calm(<< >>, n)
BY NothingLeft DEF Calm, Good

\* What a micro-step counts for.
LEMMA InIs ==
    /\ \A x, S : In(x, S) \in Nat
    /\ \A i, j : /\ In(<<"iput", j>>, Calls(i)) = In(j, Only(i))
                 /\ In(<<"drop", j>>, Calls(i)) = In(j, Only(i))
                 /\ In(<<"fill", j>>, Calls(i)) = In(j, Only(i))
                 /\ In(<<"fill", j>>, Fills(i)) = In(j, Only(i))
    /\ \A x, i : x[1] \notin {"iput", "drop", "fill"} => In(x, Calls(i)) = 0
    /\ \A x, i : x[1] # "fill" => In(x, Fills(i)) = 0
<1>1. \A x, S : In(x, S) \in Nat
  BY DEF In
<1>2. \A i, j : /\ In(<<"iput", j>>, Calls(i)) = In(j, Only(i))
                /\ In(<<"drop", j>>, Calls(i)) = In(j, Only(i))
                /\ In(<<"fill", j>>, Calls(i)) = In(j, Only(i))
                /\ In(<<"fill", j>>, Fills(i)) = In(j, Only(i))
  BY DEF In, Calls, Only, Fills
<1>3. \A x, i : x[1] \notin {"iput", "drop", "fill"} => In(x, Calls(i)) = 0
  BY DEF In, Calls
<1>4. \A x, i : x[1] # "fill" => In(x, Fills(i)) = 0
  BY DEF In, Fills
<1> QED
  BY <1>1, <1>2, <1>3, <1>4

\* Task t is about to do x, and then Q.
About(kn, td, sl, sup, hm, hd, t, x, Q) ==
    /\ IInvOf(kn, td, sl, sup, hm, hd) /\ t \in Tasks /\ kn \in {t, None}
    /\ x \in Ops /\ Q \in Seq(Ops) /\ td[t] = <<x>> \o Q

\* It has done so, and has new micro-steps and inodes.
Leaves(td, td2, hd, hd2, t, kn2, new, h) ==
    /\ kn2 \in {t, None} /\ Differ(td, td2, t) /\ Differ(hd, hd2, t)
    /\ Lists(td2, Ops) /\ Lists(hd2, Slots)
    /\ td2[t] = new /\ hd2[t] = h

\* Counts and unread blocks of the slots before and after.
Slotwise(sl, sl2, old, new, h, h2) ==
    \A i \in Slots :
        /\ Tally(sl[i].count, sl2[i].count, Occ(h, Only(i)), Occ(h2, Only(i)),
                 Occ(old, Calls(i)), Occ(new, Calls(i)))
        /\ Differs(Unread(sl[i]), Unread(sl2[i]), Occ(old, Fills(i)), Occ(new, Fills(i)))

LEMMA SmallStep ==
    ASSUME NEW kn, NEW td, NEW sl, NEW sup, NEW hm, NEW hd, NEW t, NEW x, NEW Q,
           About(kn, td, sl, sup, hm, hd, t, x, Q),
           ~Drops(x), x[1] # "homed", ~IsMount(x),
           NEW kn2, NEW td2, NEW sl2, NEW hd2, NEW new, NEW h2,
           Leaves(td, td2, hd, hd2, t, kn2, new, h2),
           Calm(new, Len(h2)), Mounts(new) = Mounts(Q),
           SlotInv(sl2), Slotwise(sl, sl2, <<x>> \o Q, new, hd[t], h2)
    PROVE  IInvOf(kn2, td2, sl2, sup, hm, hd2)
<1>1. /\ IInvOf(kn, td, sl, sup, hm, hd) /\ t \in Tasks /\ kn \in {t, None}
      /\ x \in Ops /\ Q \in Seq(Ops) /\ td[t] = <<x>> \o Q
  BY DEF About
<1>2. /\ kn2 \in {t, None} /\ Differ(td, td2, t) /\ Differ(hd, hd2, t)
      /\ Lists(td2, Ops) /\ Lists(hd2, Slots) /\ td2[t] = new /\ hd2[t] = h2
  BY DEF Leaves
<1>3. Stack(<<x>> \o Q, hd[t], sup, kn, t)
  BY <1>1 DEF IInvOf
<1>4. ~HasKind(Q, "homed")
  BY <1>1, <1>3, CalmTail DEF Calm
<1>5. ~HasKind(<<x>> \o Q, "homed")
  BY <1>1, <1>4, HasAhead
<1>6. SameHomed(<<x>> \o Q, new)
  BY <1>5 DEF SameHomed, Calm, HasKind, Has
<1>7. h2 \in Seq(Slots)
  BY <1>1, <1>2 DEF Lists
<1>8. Stack(new, h2, sup, kn2, t)
  BY <1>7, CalmStack
<1>9. Mounts(new) = Mounts(<<x>> \o Q)
  <2>1. Mounts(<<x>> \o Q) = (IF IsMount(x) THEN {x} ELSE {}) \cup Mounts(Q)
    BY <1>1, MountsAhead
  <2> QED
    BY <2>1
<1>10. Executes(kn, kn2, t) /\ Goes(td, td2, hd, hd2, t)
  BY <1>1, <1>2 DEF Executes, Goes
<1>11. FillsBalance(td, td2, sl, sl2, t) /\ CountsTally(td, td2, sl, sl2, hd, hd2, t)
  BY <1>1, <1>2 DEF Slotwise, FillsBalance, CountsTally
<1>12. Stack(td2[t], hd2[t], sup, kn2, t) /\ Mounts(td2[t]) = Mounts(td[t]) /\ SameHomed(td[t], td2[t])
  BY <1>1, <1>2, <1>6, <1>8, <1>9
<1> QED
  BY <1>1, <1>10, <1>11, <1>12, QuietStep

-----------------------------------------------------------------------------
(* Changes of one slot.                                                    *)

Alone(sl, i, r) == \A j \in Slots \ {i} : ~SameInode(r, sl[j])
Becomes(sl, sl2, i, r) == sl2 = [sl EXCEPT ![i] = r]

LEMMA PutSlot ==
    ASSUME NEW sl, SlotInv(sl), NEW i \in Slots, NEW r \in SlotRec, SlotOk(r),
           i = 1 => r.dev = Root /\ r.nr = 1, Alone(sl, i, r),
           NEW sl2, Becomes(sl, sl2, i, r)
    PROVE  SlotInv(sl2) /\ sl2[i] = r /\ \A j \in Slots : j # i => sl2[j] = sl[j]
<1>1. /\ sl \in [Slots -> SlotRec] /\ sl[1].dev = Root /\ sl[1].nr = 1
      /\ \A j \in Slots : SlotOk(sl[j])
      /\ \A j, k \in Slots : SameInode(sl[j], sl[k]) => j = k
  BY DEF SlotInv
<1>2. sl2 = [sl EXCEPT ![i] = r]
  BY DEF Becomes
<1>3. sl2 \in [Slots -> SlotRec] /\ sl2[i] = r /\ \A j \in Slots : j # i => sl2[j] = sl[j]
  BY <1>1, <1>2
<1>4. \A j \in Slots : SlotOk(sl2[j])
  BY <1>1, <1>3
<1>5. sl2[1].dev = Root /\ sl2[1].nr = 1
  <2>1. CASE i = 1
    BY <1>3, <2>1
  <2>2. CASE i # 1
    BY <1>1, <1>3, <2>2, InodeAssumption
  <2> QED
    BY <2>1, <2>2
<1>6. ASSUME NEW j \in Slots, NEW k \in Slots, SameInode(sl2[j], sl2[k])
      PROVE  j = k
  <2>1. CASE j = i /\ k # i
    BY <1>3, <1>6, <2>1 DEF Alone
  <2>2. CASE j # i /\ k = i
    <3>1. SameInode(sl[j], r)
      BY <1>3, <1>6, <2>2
    <3>2. SameInode(r, sl[j])
      BY <3>1 DEF SameInode, Listed
    <3> QED
      BY <2>2, <3>2 DEF Alone
  <2>3. CASE j # i /\ k # i
    BY <1>1, <1>3, <1>6, <2>3
  <2> QED
    BY <2>1, <2>2, <2>3
<1> QED
  BY <1>3, <1>4, <1>5, <1>6 DEF SlotInv

\* What the count and the unread block of a slot go up or down by.
CountUp(sl, sl2, i, n) == \A j \in Slots : sl2[j].count = sl[j].count + n * In(i, Only(j))
CountDown(sl, sl2, i) == \A j \in Slots : sl2[j].count + In(i, Only(j)) = sl[j].count
CountSame(sl, sl2) == \A j \in Slots : sl2[j].count = sl[j].count
UnreadUp(sl, sl2, i) == \A j \in Slots : Unread(sl2[j]) = Unread(sl[j]) + In(i, Only(j))
UnreadDown(sl, sl2, i) == \A j \in Slots : Unread(sl2[j]) + In(i, Only(j)) = Unread(sl[j])
UnreadSame(sl, sl2) == \A j \in Slots : Unread(sl2[j]) = Unread(sl[j])

LEMMA OneSlot ==
    ASSUME NEW sl, SlotInv(sl), NEW i \in Slots, NEW sl2, SlotInv(sl2),
           \A j \in Slots : j # i => sl2[j] = sl[j]
    PROVE  /\ \A n \in Nat : sl2[i].count = sl[i].count + n => CountUp(sl, sl2, i, n)
           /\ sl2[i].count + 1 = sl[i].count => CountDown(sl, sl2, i)
           /\ sl2[i].count = sl[i].count => CountSame(sl, sl2)
           /\ Unread(sl2[i]) = Unread(sl[i]) + 1 => UnreadUp(sl, sl2, i)
           /\ Unread(sl2[i]) + 1 = Unread(sl[i]) => UnreadDown(sl, sl2, i)
           /\ Unread(sl2[i]) = Unread(sl[i]) => UnreadSame(sl, sl2)
<1>1. \A j \in Slots : sl[j].count \in Nat /\ sl2[j].count \in Nat
  BY DEF SlotInv, SlotRec
<1>2. \A j \in Slots : Unread(sl[j]) \in Nat /\ Unread(sl2[j]) \in Nat
  BY DEF Unread
<1>3. \A j \in Slots : j # i => In(i, Only(j)) = 0
  BY DEF In, Only
<1>4. In(i, Only(i)) = 1
  BY DEF In, Only
<1>5. ASSUME NEW n \in Nat, sl2[i].count = sl[i].count + n, NEW j \in Slots
      PROVE  sl2[j].count = sl[j].count + n * In(i, Only(j))
  <2>1. CASE j = i
    BY <1>1, <1>4, <1>5, <2>1
  <2>2. CASE j # i
    BY <1>1, <1>3, <1>5, <2>2
  <2> QED
    BY <2>1, <2>2
<1>6. ASSUME sl2[i].count + 1 = sl[i].count, NEW j \in Slots
      PROVE  sl2[j].count + In(i, Only(j)) = sl[j].count
  <2>1. CASE j = i
    BY <1>1, <1>4, <1>6, <2>1
  <2>2. CASE j # i
    BY <1>1, <1>3, <1>6, <2>2
  <2> QED
    BY <2>1, <2>2
<1>7. ASSUME Unread(sl2[i]) = Unread(sl[i]) + 1, NEW j \in Slots
      PROVE  Unread(sl2[j]) = Unread(sl[j]) + In(i, Only(j))
  <2>1. CASE j = i
    BY <1>2, <1>4, <1>7, <2>1
  <2>2. CASE j # i
    BY <1>2, <1>3, <1>7, <2>2
  <2> QED
    BY <2>1, <2>2
<1>8. ASSUME Unread(sl2[i]) + 1 = Unread(sl[i]), NEW j \in Slots
      PROVE  Unread(sl2[j]) + In(i, Only(j)) = Unread(sl[j])
  <2>1. CASE j = i
    BY <1>2, <1>4, <1>8, <2>1
  <2>2. CASE j # i
    BY <1>2, <1>3, <1>8, <2>2
  <2> QED
    BY <2>1, <2>2
<1>9. sl2[i].count = sl[i].count => CountSame(sl, sl2)
  BY DEF CountSame
<1>10. Unread(sl2[i]) = Unread(sl[i]) => UnreadSame(sl, sl2)
  BY DEF UnreadSame
<1> QED
  BY <1>5, <1>6, <1>7, <1>8, <1>9, <1>10 DEF CountUp, CountDown, UnreadUp, UnreadDown

\* inode->count + 1, for an inode in use.
Recount(sl, sl2, i, n) == sl2 = [sl EXCEPT ![i].count = @ + n]

LEMMA PlusSlot ==
    ASSUME NEW sl, SlotInv(sl), NEW i \in Slots, sl[i].dev # None, NEW sl2, Recount(sl, sl2, i, 1)
    PROVE  SlotInv(sl2) /\ CountUp(sl, sl2, i, 1) /\ UnreadSame(sl, sl2)
<1> DEFINE r == [sl[i] EXCEPT !.count = @ + 1]
<1>1. sl[i] \in SlotRec /\ SlotOk(sl[i]) /\ sl[i].count \in Nat
  BY DEF SlotInv, SlotRec
<1>2. r \in SlotRec /\ r.dev = sl[i].dev /\ r.nr = sl[i].nr /\ r.sb = sl[i].sb /\ r.desc = sl[i].desc
      /\ r.count = sl[i].count + 1
  BY <1>1 DEF SlotRec
<1>3. Becomes(sl, sl2, i, r)
  BY DEF Becomes, Recount
<1> HIDE DEF r
<1>4. SlotOk(r)
  BY <1>1, <1>2 DEF SlotOk, Listed
<1>5. i = 1 => r.dev = Root /\ r.nr = 1
  BY <1>2 DEF SlotInv
<1>6. Alone(sl, i, r)
  BY <1>2 DEF Alone, SameInode, Listed, SlotInv
<1>7. SlotInv(sl2) /\ sl2[i] = r /\ \A j \in Slots : j # i => sl2[j] = sl[j]
  BY <1>2, <1>3, <1>4, <1>5, <1>6, PutSlot
<1>8. Unread(sl2[i]) = Unread(sl[i])
  BY <1>2, <1>7 DEF Unread, Listed
<1> QED
  BY <1>2, <1>7, <1>8, OneSlot

\* The count of an inode goes down, and the inode is freed when it was the last.
Release1(sl, sl2, i) ==
    sl2 = [sl EXCEPT ![i] = IF sl[i].count = 1 THEN Unused(sl[i].mount) ELSE [sl[i] EXCEPT !.count = @ - 1]]

LEMMA MinusSlot ==
    ASSUME NEW sl, SlotInv(sl), NEW i \in Slots, sl[i].count # 0,
           sl[i].count = 1 => i # 1 /\ Unread(sl[i]) = 0,
           NEW sl2, Release1(sl, sl2, i)
    PROVE  SlotInv(sl2) /\ CountDown(sl, sl2, i) /\ UnreadSame(sl, sl2)
<1> DEFINE r == IF sl[i].count = 1 THEN Unused(sl[i].mount) ELSE [sl[i] EXCEPT !.count = @ - 1]
<1>1. sl[i] \in SlotRec /\ SlotOk(sl[i]) /\ sl[i].count \in Nat
  BY DEF SlotInv, SlotRec
<1>2. Becomes(sl, sl2, i, r)
  BY DEF Becomes, Release1
<1>3. CASE sl[i].count = 1
  <2>1. r = Unused(sl[i].mount)
    BY <1>3
  <2> HIDE DEF r
  <2>2. r.dev = None /\ r.count = 0 /\ r.sb = None /\ r.desc = << >> /\ r.mount = sl[i].mount /\ r.nr = 0
    BY <2>1 DEF Unused
  <2>3. r \in SlotRec
    BY <1>1, <2>1 DEF SlotRec, Unused
  <2>4. SlotOk(r) /\ Alone(sl, i, r)
    BY <2>2, InodeAssumption DEF SlotOk, Alone, SameInode, Listed
  <2>5. SlotInv(sl2) /\ sl2[i] = r /\ \A j \in Slots : j # i => sl2[j] = sl[j]
    BY <1>2, <1>3, <2>3, <2>4, PutSlot
  <2>6. Unread(sl2[i]) = 0
    BY <2>2, <2>5 DEF Unread, Listed
  <2> QED
    BY <1>3, <2>2, <2>5, <2>6, OneSlot
<1>4. CASE sl[i].count # 1
  <2>1. r = [sl[i] EXCEPT !.count = @ - 1] /\ sl[i].count - 1 \in Nat /\ sl[i].count - 1 # 0
    BY <1>1, <1>4
  <2> HIDE DEF r
  <2>2. r \in SlotRec /\ r.dev = sl[i].dev /\ r.nr = sl[i].nr /\ r.sb = sl[i].sb /\ r.desc = sl[i].desc
        /\ r.count = sl[i].count - 1
    BY <1>1, <2>1 DEF SlotRec
  <2>3. SlotOk(r)
    BY <1>1, <2>1, <2>2 DEF SlotOk, Listed
  <2>4. i = 1 => r.dev = Root /\ r.nr = 1
    BY <2>2 DEF SlotInv
  <2>5. Alone(sl, i, r)
    BY <2>2 DEF Alone, SameInode, Listed, SlotInv
  <2>6. SlotInv(sl2) /\ sl2[i] = r /\ \A j \in Slots : j # i => sl2[j] = sl[j]
    BY <1>2, <2>2, <2>3, <2>4, <2>5, PutSlot
  <2>7. Unread(sl2[i]) = Unread(sl[i])
    BY <2>2, <2>6 DEF Unread, Listed
  <2>8. sl2[i].count + 1 = sl[i].count
    BY <1>1, <2>2, <2>6
  <2> QED
    BY <2>6, <2>7, <2>8, OneSlot
<1> QED
  BY <1>3, <1>4

\* get_free_inode, and what iget sets.
Takes(sl, sl2, i, d, n, s) ==
    sl2 = [sl EXCEPT ![i].dev = d, ![i].nr = n, ![i].count = @ + 1, ![i].sb = s]

LEMMA TakeSlot ==
    ASSUME NEW sl, SlotInv(sl), NEW i \in Slots, sl[i].dev = None,
           NEW d \in {Root, Disk}, NEW n \in Names, NEW s \in Supers,
           d = Root => s = 1, d = Disk => s = First,
           \A j \in Slots : ~(sl[j].dev = d /\ sl[j].nr = n),
           NEW sl2, Takes(sl, sl2, i, d, n, s)
    PROVE  SlotInv(sl2) /\ CountUp(sl, sl2, i, 1) /\ UnreadUp(sl, sl2, i)
<1> DEFINE r == [sl[i] EXCEPT !.dev = d, !.nr = n, !.count = @ + 1, !.sb = s]
<1>1. sl[i] \in SlotRec /\ SlotOk(sl[i]) /\ sl[i].count \in Nat /\ sl[1].dev = Root
  BY DEF SlotInv, SlotRec
<1>2. /\ d \in Devs /\ d # None /\ d # "pipe" /\ Root # None
  BY InodeAssumption DEF Devs
<1>3. sl[i].count = 0 /\ sl[i].desc = << >>
  BY <1>1 DEF SlotOk
<1>4. /\ r \in SlotRec /\ r.dev = d /\ r.nr = n /\ r.sb = s /\ r.desc = << >> /\ r.count = 1
  <2>1. sl[i].count + 1 = 1 /\ 1 \in Nat
    BY <1>3
  <2>2. r = [sl[i] EXCEPT !.dev = d, !.nr = n, !.count = 1, !.sb = s]
    BY <2>1
  <2>3. d \in Devs \cup {None} /\ n \in Names \cup {0} /\ s \in Supers \cup {None}
    BY <1>2
  <2>4. r \in SlotRec
    BY <1>1, <2>1, <2>2, <2>3 DEF SlotRec
  <2>5. r.dev = d /\ r.nr = n /\ r.sb = s /\ r.desc = sl[i].desc /\ r.count = 1
    BY <1>1, <2>2 DEF SlotRec
  <2> QED
    BY <1>3, <2>4, <2>5
<1>5. Becomes(sl, sl2, i, r)
  BY <1>1 DEF Becomes, Takes, SlotRec
<1> HIDE DEF r
<1>6. SlotOk(r)
  BY <1>2, <1>4 DEF SlotOk, Listed
<1>7. i # 1
  BY <1>1, <1>2
<1>8. Alone(sl, i, r)
  BY <1>4 DEF Alone, SameInode
<1>9. SlotInv(sl2) /\ sl2[i] = r /\ \A j \in Slots : j # i => sl2[j] = sl[j]
  BY <1>4, <1>5, <1>6, <1>7, <1>8, PutSlot
<1>10. Unread(sl2[i]) = 1 /\ Unread(sl[i]) = 0
  <2>1. << >> # <<d, n>>
    OBVIOUS
  <2>2. Unread(sl[i]) = 0
    BY DEF Unread, Listed
  <2>3. sl2[i].dev = d /\ sl2[i].desc = << >> /\ sl2[i].nr = n
    BY <1>4, <1>9
  <2> QED
    BY <1>2, <2>1, <2>2, <2>3 DEF Unread, Listed
<1> QED
  BY <1>3, <1>4, <1>9, <1>10, OneSlot

\* The block of the inode is there.
Reads(sl, sl2, i) == sl2 = [sl EXCEPT ![i].desc = <<sl[i].dev, sl[i].nr>>]

LEMMA ReadSlot ==
    ASSUME NEW sl, SlotInv(sl), NEW i \in Slots, Unread(sl[i]) = 1, NEW sl2, Reads(sl, sl2, i)
    PROVE  SlotInv(sl2) /\ CountSame(sl, sl2) /\ UnreadDown(sl, sl2, i)
<1> DEFINE r == [sl[i] EXCEPT !.desc = <<sl[i].dev, sl[i].nr>>]
<1>1. sl[i] \in SlotRec /\ SlotOk(sl[i]) /\ Listed(sl[i])
  BY DEF SlotInv, Unread
<1>2. /\ r \in SlotRec /\ r.dev = sl[i].dev /\ r.nr = sl[i].nr /\ r.sb = sl[i].sb /\ r.count = sl[i].count
      /\ r.desc = <<sl[i].dev, sl[i].nr>>
  BY <1>1 DEF SlotRec
<1>3. Becomes(sl, sl2, i, r)
  BY DEF Becomes, Reads
<1> HIDE DEF r
<1>4. SlotOk(r)
  BY <1>1, <1>2 DEF SlotOk, Listed
<1>5. i = 1 => r.dev = Root /\ r.nr = 1
  BY <1>2 DEF SlotInv
<1>6. Alone(sl, i, r)
  BY <1>2 DEF Alone, SameInode, Listed, SlotInv
<1>7. SlotInv(sl2) /\ sl2[i] = r /\ \A j \in Slots : j # i => sl2[j] = sl[j]
  BY <1>2, <1>3, <1>4, <1>5, <1>6, PutSlot
<1>8. Unread(sl2[i]) = 0
  BY <1>2, <1>7 DEF Unread
<1> QED
  BY <1>2, <1>7, <1>8, OneSlot

\* Something is mounted on a directory, or is no longer.
Covers(sl, sl2, i, d) == sl2 = [sl EXCEPT ![i].mount = d]

LEMMA CoverSlot ==
    ASSUME NEW sl, SlotInv(sl), NEW i \in Slots, NEW d \in {None, Root, Disk}, NEW sl2, Covers(sl, sl2, i, d)
    PROVE  SlotInv(sl2) /\ CountSame(sl, sl2) /\ UnreadSame(sl, sl2)
<1> DEFINE r == [sl[i] EXCEPT !.mount = d]
<1>1. sl[i] \in SlotRec /\ SlotOk(sl[i])
  BY DEF SlotInv
<1>2. /\ r \in SlotRec /\ r.dev = sl[i].dev /\ r.nr = sl[i].nr /\ r.sb = sl[i].sb /\ r.count = sl[i].count
      /\ r.desc = sl[i].desc
  BY <1>1 DEF SlotRec
<1>3. Becomes(sl, sl2, i, r)
  BY DEF Becomes, Covers
<1> HIDE DEF r
<1>4. SlotOk(r)
  BY <1>1, <1>2 DEF SlotOk, Listed
<1>5. i = 1 => r.dev = Root /\ r.nr = 1
  BY <1>2 DEF SlotInv
<1>6. Alone(sl, i, r)
  BY <1>2 DEF Alone, SameInode, Listed, SlotInv
<1>7. SlotInv(sl2) /\ sl2[i] = r /\ \A j \in Slots : j # i => sl2[j] = sl[j]
  BY <1>2, <1>3, <1>4, <1>5, <1>6, PutSlot
<1>8. Unread(sl2[i]) = Unread(sl[i])
  BY <1>2, <1>7 DEF Unread, Listed
<1> QED
  BY <1>2, <1>7, <1>8, OneSlot

\* Both ends of a pipe.
Pipes(sl, sl2, i) == sl2 = [sl EXCEPT ![i].dev = "pipe", ![i].count = 2, ![i].desc = << >>]

LEMMA PipeSlot ==
    ASSUME NEW sl, SlotInv(sl), NEW i \in Slots, sl[i].dev = None, NEW sl2, Pipes(sl, sl2, i)
    PROVE  SlotInv(sl2) /\ CountUp(sl, sl2, i, 2) /\ UnreadSame(sl, sl2)
<1> DEFINE r == [sl[i] EXCEPT !.dev = "pipe", !.count = 2, !.desc = << >>]
<1>1. sl[i] \in SlotRec /\ SlotOk(sl[i]) /\ sl[1].dev = Root
  BY DEF SlotInv
<1>2. "pipe" \in Devs /\ "pipe" # None /\ "pipe" # Root /\ "pipe" # Disk /\ Root # None
  BY InodeAssumption DEF Devs
<1>3. sl[i].count = 0 /\ sl[i].sb = None
  BY <1>1 DEF SlotOk, Listed
<1>4. r \in SlotRec /\ r.dev = "pipe" /\ r.sb = None /\ r.count = 2 /\ r.desc = << >>
  BY <1>1, <1>2, <1>3 DEF SlotRec
<1>5. Becomes(sl, sl2, i, r)
  BY DEF Becomes, Pipes
<1> HIDE DEF r
<1>6. SlotOk(r)
  BY <1>2, <1>4 DEF SlotOk, Listed
<1>7. i # 1
  BY <1>1, <1>2
<1>8. Alone(sl, i, r)
  BY <1>4 DEF Alone, SameInode, Listed
<1>9. SlotInv(sl2) /\ sl2[i] = r /\ \A j \in Slots : j # i => sl2[j] = sl[j]
  BY <1>4, <1>5, <1>6, <1>7, <1>8, PutSlot
<1>10. Unread(sl2[i]) = 0 /\ Unread(sl[i]) = 0
  BY <1>4, <1>9 DEF Unread, Listed
<1> QED
  BY <1>3, <1>4, <1>9, <1>10, OneSlot

-----------------------------------------------------------------------------
(* What is in use.                                                         *)

\* get_super in a table.
FoundIn(sup, d) == {s \in Supers : sup[s].dev = d}
Found(sup, d) == IF FoundIn(sup, d) = {} THEN None ELSE Min(FoundIn(sup, d))

LEMMA FoundIs ==
    ASSUME NEW sup, SuperInv(sup), NEW d
    PROVE  /\ Found(sup, d) # None => Found(sup, d) \in Supers /\ sup[Found(sup, d)].dev = d
           /\ Found(sup, d) = None => \A s \in Supers : sup[s].dev # d
           /\ Found(sup, d) # None => \A s \in Supers : sup[s].dev = d => Found(sup, d) <= s
           /\ Found(sup, Root) = 1
<1>1. Supers \subseteq Nat /\ 1 \in Supers /\ None \notin Supers
  BY InodeAssumption
<1>2. \A e : FoundIn(sup, e) \in SUBSET Nat /\ FoundIn(sup, e) \subseteq Supers
  BY <1>1 DEF FoundIn
<1>3. ASSUME NEW e, FoundIn(sup, e) # {}
      PROVE  /\ Found(sup, e) \in FoundIn(sup, e) /\ \A y \in FoundIn(sup, e) : Found(sup, e) <= y
             /\ Found(sup, e) # None
  <2>1. Min(FoundIn(sup, e)) \in FoundIn(sup, e) /\ \A y \in FoundIn(sup, e) : Min(FoundIn(sup, e)) <= y
    BY <1>2, <1>3, MinIsIn
  <2> QED
    BY <1>1, <1>2, <1>3, <2>1 DEF Found
<1>4. \A e : FoundIn(sup, e) = {} => Found(sup, e) = None
  BY DEF Found
<1>5. FoundIn(sup, Root) = {1}
  BY <1>1 DEF FoundIn, SuperInv, Others
<1>6. Found(sup, Root) = 1
  BY <1>3, <1>5
<1>7. /\ Found(sup, d) # None => Found(sup, d) \in Supers /\ sup[Found(sup, d)].dev = d
      /\ Found(sup, d) # None => \A s \in Supers : sup[s].dev = d => Found(sup, d) <= s
      /\ Found(sup, d) = None => \A s \in Supers : sup[s].dev # d
  BY <1>3, <1>4 DEF FoundIn
<1> QED
  BY <1>6, <1>7

LEMMA FirstIs ==
    ASSUME NEW s \in Others
    PROVE  First \in Others /\ First <= s /\ First \in Supers /\ First # 1 /\ First \in Nat /\ s \in Nat
<1>1. Others \in SUBSET Nat /\ Others # {}
  BY InodeAssumption DEF Others
<1>2. Min(Others) \in Others /\ Min(Others) <= s
  BY <1>1, MinIsIn
<1> QED
  BY <1>1, <1>2 DEF First, Others

\* While any super block is the disk's, the first one is.
LEMMA DiskIsFirst ==
    ASSUME NEW M, NEW sup, Phase(M, sup), NEW s \in Others, sup[s].dev = Disk
    PROVE  sup[First].dev = Disk
<1>1. First \in Others /\ Disk # None
  BY FirstIs, InodeAssumption
<1>2. CASE Idle(sup)
  BY <1>1, <1>2 DEF Idle, AllOff, Off, On
<1>3. CASE AllOff(sup, Others \ {First})
  BY <1>1, <1>3 DEF AllOff, Off
<1>4. CASE Making(M, sup)
  BY <1>1, <1>4 DEF Making, Half, On
<1> QED
  BY <1>2, <1>3, <1>4 DEF Phase

LEMMA FoundDisk ==
    ASSUME NEW M, NEW sup, SuperInv(sup), Phase(M, sup), Found(sup, Disk) # None
    PROVE  Found(sup, Disk) = First /\ First \in Others /\ sup[First].dev = Disk
<1>1. PICK s : s = Found(sup, Disk)
  OBVIOUS
<1>2. s \in Supers /\ sup[s].dev = Disk /\ \A r \in Supers : sup[r].dev = Disk => s <= r
  BY <1>1, FoundIs
<1>3. s \in Others
  BY <1>2, InodeAssumption DEF SuperInv, Others
<1>4. sup[First].dev = Disk /\ First \in Others /\ First <= s /\ First \in Supers /\ First \in Nat /\ s \in Nat
  BY <1>2, <1>3, DiskIsFirst, FirstIs
<1>5. s <= First
  BY <1>2, <1>4
<1>6. s = First
  BY <1>4, <1>5
<1> QED
  BY <1>1, <1>4, <1>6

\* Everything that refers to an inode counts.
LEMMA SumBounds ==
    ASSUME NEW n, NEW a \in Nat, NEW b \in Nat, NEW d \in Nat, NEW m \in Nat, IsSum(n, a, b, d, m)
    PROVE  n \in Nat /\ n >= a /\ n >= b /\ n >= d /\ n >= m /\ n >= a + b
BY DEF IsSum

LEMMA CountBounds ==
    ASSUME NEW kn, NEW td, NEW sl, NEW sup, NEW hm, NEW hd, IInvOf(kn, td, sl, sup, hm, hd),
           NEW i \in Slots, NEW t \in Tasks
    PROVE  /\ sl[i].count \in Nat
           /\ Occ(hd[t], Only(i)) >= 1 => sl[i].count # 0
           /\ Occ(td[t], Calls(i)) >= 1 => sl[i].count # 0
           /\ HomeSet(hm, td, i) # {} => sl[i].count # 0
           /\ SuperSet(sup, AllMounts(td), i) # {} => sl[i].count # 0
           /\ sl[i].count # 0 <=> sl[i].dev # None
<1>1. /\ Lists(td, Ops) /\ Lists(hd, Slots) /\ SlotInv(sl)
      /\ IsSum(sl[i].count, Total(hd, Only(i)), Total(td, Calls(i)),
               HomeRefs(hm, td, i), SuperRefs(sup, AllMounts(td), i))
  BY DEF IInvOf, Lists
<1>2. /\ Total(hd, Only(i)) \in Nat /\ Total(td, Calls(i)) \in Nat
      /\ Total(hd, Only(i)) >= Occ(hd[t], Only(i)) /\ Total(td, Calls(i)) >= Occ(td[t], Calls(i))
      /\ Occ(hd[t], Only(i)) \in Nat /\ Occ(td[t], Calls(i)) \in Nat
  BY <1>1, TotalIsNumber
<1>3. /\ HomeRefs(hm, td, i) \in Nat /\ SuperRefs(sup, AllMounts(td), i) \in Nat
      /\ IsFiniteSet(HomeSet(hm, td, i)) /\ IsFiniteSet(SuperSet(sup, AllMounts(td), i))
  BY RefsAreNumbers
<1>4. /\ HomeSet(hm, td, i) # {} => HomeRefs(hm, td, i) # 0
      /\ SuperSet(sup, AllMounts(td), i) # {} => SuperRefs(sup, AllMounts(td), i) # 0
  BY <1>3, FS_EmptySet DEF HomeRefs, SuperRefs
<1>5. PICK a \in Nat, b \in Nat, d \in Nat, m \in Nat :
        /\ a = Total(hd, Only(i)) /\ b = Total(td, Calls(i))
        /\ d = HomeRefs(hm, td, i) /\ m = SuperRefs(sup, AllMounts(td), i)
  BY <1>2, <1>3
<1>6. PICK n : n = sl[i].count
  OBVIOUS
<1>7. IsSum(n, a, b, d, m)
  BY <1>1, <1>5, <1>6
<1>8. n \in Nat /\ n >= a /\ n >= b /\ n >= d /\ n >= m
  BY <1>7, SumBounds
<1>9. PICK x \in Nat, y \in Nat : x = Occ(hd[t], Only(i)) /\ y = Occ(td[t], Calls(i))
  BY <1>2
<1>10. a >= x /\ b >= y
  BY <1>2, <1>5, <1>9
<1>11. (x >= 1 => n # 0) /\ (y >= 1 => n # 0) /\ (d # 0 => n # 0) /\ (m # 0 => n # 0)
  BY <1>8, <1>10
<1>12. sl[i].count # 0 <=> sl[i].dev # None
  BY <1>1 DEF SlotInv, SlotOk
<1> QED
  BY <1>4, <1>5, <1>6, <1>8, <1>9, <1>11, <1>12

LEMMA HeldInUse ==
    ASSUME NEW kn, NEW td, NEW sl, NEW sup, NEW hm, NEW hd, IInvOf(kn, td, sl, sup, hm, hd),
           NEW t \in Tasks, NEW k \in 1 .. Len(hd[t])
    PROVE  hd[t][k] \in Slots /\ sl[hd[t][k]].count # 0 /\ sl[hd[t][k]].dev # None
<1>1. hd[t] \in Seq(Slots)
  BY DEF IInvOf
<1>2. PICK i \in Slots : i = hd[t][k]
  BY <1>1
<1>3. Occ(hd[t], Only(i)) >= 1
  BY <1>1, <1>2, OccIsPositive DEF Only
<1> QED
  BY <1>2, <1>3, CountBounds

LEMMA CallInUse ==
    ASSUME NEW kn, NEW td, NEW sl, NEW sup, NEW hm, NEW hd, IInvOf(kn, td, sl, sup, hm, hd),
           NEW t \in Tasks, NEW k \in 1 .. Len(td[t]), NEW i \in Slots, td[t][k] \in Calls(i)
    PROVE  sl[i].count # 0 /\ sl[i].dev # None
<1>1. td[t] \in Seq(Ops)
  BY DEF IInvOf
<1>2. Occ(td[t], Calls(i)) >= 1
  BY <1>1, OccIsPositive
<1> QED
  BY <1>2, CountBounds

LEMMA HomeInUse ==
    ASSUME NEW kn, NEW td, NEW sl, NEW sup, NEW hm, NEW hd, IInvOf(kn, td, sl, sup, hm, hd),
           NEW t \in Tasks, NEW w \in Homes, ~Has(td[t], <<"homed", w>>)
    PROVE  hm[t][w] \in Slots /\ sl[hm[t][w]].count # 0 /\ sl[hm[t][w]].dev # None
<1>1. PICK i \in Slots : i = hm[t][w]
  BY DEF IInvOf
<1>2. <<t, w>> \in HomeSet(hm, td, i)
  BY <1>1 DEF HomeSet
<1> QED
  BY <1>1, <1>2, CountBounds

LEMMA FieldInUse ==
    ASSUME NEW kn, NEW td, NEW sl, NEW sup, NEW hm, NEW hd, IInvOf(kn, td, sl, sup, hm, hd),
           NEW t \in Tasks, kn \in {t, None}, ~HasKind(td[t], "clear"),
           NEW s \in Supers, NEW f \in Fields, sup[s].dev # None, sup[s].imount # None,
           NEW i \in Slots, sup[s][f] = i
    PROVE  sl[i].count # 0 /\ sl[i].dev # None
<1>1. CASE <<"clear", s, f>> \notin AllMounts(td)
  <2>1. <<s, f>> \in SuperSet(sup, AllMounts(td), i)
    BY <1>1 DEF SuperSet, CountsIn
  <2> QED
    BY <2>1, CountBounds
<1>2. CASE <<"clear", s, f>> \in AllMounts(td)
  <2>1. PICK u \in Tasks : <<"clear", s, f>> \in Mounts(td[u])
    BY <1>2 DEF AllMounts
  <2>2. PICK k \in 1 .. Len(td[u]) : td[u][k] = <<"clear", s, f>>
    BY <2>1 DEF Mounts
  <2>3. td[u][k][1] = "clear" /\ td[u][k][2] = s /\ td[u][k][3] = f
    BY <2>2
  <2>4. u # t
    BY <2>3 DEF HasKind
  <2>5. kn # u
    BY <2>4, InodeAssumption DEF Tasks
  <2>6. ClearLate(td[u], sup, kn, u) /\ td[u] \in Seq(Ops)
    BY DEF IInvOf, Stack
  <2>7. k = 2 /\ DropsOf(td[u][1], sup[td[u][2][2]][td[u][2][3]])
    BY <2>3, <2>5, <2>6 DEF ClearLate
  <2>8. DropsOf(td[u][1], i)
    BY <2>3, <2>7
  <2>9. td[u][1] \in Calls(i)
    BY <2>8 DEF DropsOf, Calls
  <2>10. 1 \in 1 .. Len(td[u])
    BY <2>6, <2>7, LenProperties
  <2> QED
    BY <2>9, <2>10, CallInUse
<1> QED
  BY <1>1, <1>2

-----------------------------------------------------------------------------
(* The micro-steps of iget, and of a lookup.                               *)

LEMMA Gains ==
    /\ Gain("iput") = 0 /\ Gain("drop") = 0 /\ Gain("fill") = 1 /\ Gain("enter") = 1 /\ Gain("iget") = 1
    /\ Gain("under") = -1 /\ Needs("under") = 2
    /\ \A kind \in {"iput", "drop", "fill", "enter", "iget"} : Needs(kind) = 0
BY DEF Gain, Needs

LEMMA SmallOps ==
    ASSUME NEW n \in Nat
    PROVE  /\ \A i \in Slots : Small(<<"iput", i>>, n) /\ Small(<<"fill", i>>, n)
           /\ \A m \in Supers : Small(<<"enter", m>>, n)
           /\ \A d \in Devs, k \in Names : Small(<<"iget", d, k>>, n)
           /\ n >= 2 => Small(<<"under">>, n)
<1>1. ASSUME NEW x \in Ops, x[1] \in {"iput", "fill", "enter", "iget", "under"}, x[1] = "under" => n >= 2
      PROVE  Small(x, n)
  <2>1. x[1] \notin MountKinds \cup {"homed", "chdir"} /\ ~MayEnd(x)
    BY <1>1 DEF MountKinds, MayEnd
  <2>2. n >= Needs(x[1]) /\ n + Gain(x[1]) \in Nat
    BY <1>1 DEF Needs, Gain
  <2> QED
    BY <2>1, <2>2 DEF Small
<1>2. \A i \in Slots : Small(<<"iput", i>>, n) /\ Small(<<"fill", i>>, n)
  <2> TAKE i \in Slots
  <2>1. <<"iput", i>> \in Ops /\ <<"fill", i>> \in Ops
    BY OpsOfKinds
  <2> QED
    BY <1>1, <2>1
<1>3. \A m \in Supers : Small(<<"enter", m>>, n)
  <2> TAKE m \in Supers
  <2>1. <<"enter", m>> \in Ops
    BY OpsOfKinds
  <2> QED
    BY <1>1, <2>1
<1>4. \A d \in Devs, k \in Names : Small(<<"iget", d, k>>, n)
  <2> TAKE d \in Devs, k \in Names
  <2>1. <<"iget", d, k>> \in Ops
    BY OpsOfKinds
  <2> QED
    BY <1>1, <2>1
<1>5. n >= 2 => Small(<<"under">>, n)
  <2>1. <<"under">> \in Ops
    BY OpsOfKinds
  <2> QED
    BY <1>1, <2>1
<1> QED
  BY <1>2, <1>3, <1>4, <1>5

LEMMA AboutIs ==
    ASSUME NEW kn, NEW td, NEW sl, NEW sup, NEW hm, NEW hd, NEW t, NEW x, NEW Q,
           About(kn, td, sl, sup, hm, hd, t, x, Q)
    PROVE  /\ IInvOf(kn, td, sl, sup, hm, hd) /\ t \in Tasks /\ x \in Ops /\ Q \in Seq(Ops)
           /\ hd[t] \in Seq(Slots) /\ Len(hd[t]) \in Nat /\ Len(hd[t]) >= Needs(x[1])
           /\ Len(hd[t]) + Gain(x[1]) \in Nat
           /\ ~Drops(x) => Calm(Q, Len(hd[t]) + Gain(x[1]))
           /\ SlotInv(sl) /\ SuperInv(sup) /\ Stack(<<x>> \o Q, hd[t], sup, kn, t)
           /\ Splits(<<x>> \o Q, x, Q)
           /\ \A S : Occ(Q, S) \in Nat /\ Occ(hd[t], S) \in Nat
<1>1. /\ IInvOf(kn, td, sl, sup, hm, hd) /\ t \in Tasks /\ x \in Ops /\ Q \in Seq(Ops)
      /\ td[t] = <<x>> \o Q
  BY DEF About
<1>2. Stack(<<x>> \o Q, hd[t], sup, kn, t) /\ SlotInv(sl) /\ SuperInv(sup)
  BY <1>1 DEF IInvOf
<1>3. /\ hd[t] \in Seq(Slots) /\ Len(hd[t]) \in Nat /\ Len(hd[t]) >= Needs(x[1])
      /\ Len(hd[t]) + Gain(x[1]) \in Nat
  BY <1>1, <1>2, Popped
<1>4. ~Drops(x) => Calm(Q, Len(hd[t]) + Gain(x[1]))
  BY <1>1, <1>2, CalmTail
<1>5. Splits(<<x>> \o Q, x, Q)
  BY <1>1, OccAhead DEF Splits
<1>6. \A S : Occ(Q, S) \in Nat /\ Occ(hd[t], S) \in Nat
  BY <1>1, <1>3, WhereIsFinite
<1> QED
  BY <1>1, <1>2, <1>3, <1>4, <1>5, <1>6

\* A micro-step that holds an inode: iget, fit_inode, the start of a path.
LEMMA HoldStep ==
    ASSUME NEW kn, NEW td, NEW sl, NEW sup, NEW hm, NEW hd, NEW t, NEW x, NEW Q,
           About(kn, td, sl, sup, hm, hd, t, x, Q), x[1] \in {"iget", "enter", "start"},
           NEW i \in Slots, sl[i].dev # None, NEW sl2, Recount(sl, sl2, i, 1),
           NEW kn2, NEW td2, NEW hd2, Leaves(td, td2, hd, hd2, t, kn2, Q, Append(hd[t], i))
    PROVE  IInvOf(kn2, td2, sl2, sup, hm, hd2)
<1>1. ~Drops(x) /\ x[1] # "homed" /\ ~IsMount(x) /\ x[1] # "fill" /\ x[1] \notin {"iput", "drop", "fill"}
  BY DEF Drops, IsMount, MountKinds
<1>2. /\ hd[t] \in Seq(Slots) /\ Len(hd[t]) \in Nat /\ SlotInv(sl)
      /\ Calm(Q, Len(hd[t]) + Gain(x[1]))
      /\ Splits(<<x>> \o Q, x, Q)
      /\ \A S : Occ(Q, S) \in Nat /\ Occ(hd[t], S) \in Nat
  BY <1>1, AboutIs
<1>3. SlotInv(sl2) /\ CountUp(sl, sl2, i, 1) /\ UnreadSame(sl, sl2)
  BY <1>2, PlusSlot
<1>4. Gain(x[1]) = 1
  BY DEF Gain
<1>5. /\ Len(Append(hd[t], i)) = Len(hd[t]) + 1
      /\ \A S : Occ(Append(hd[t], i), S) = Occ(hd[t], S) + In(i, S)
  BY <1>2, OneMore
<1>6. Calm(Q, Len(Append(hd[t], i)))
  BY <1>2, <1>4, <1>5
<1>7. Slotwise(sl, sl2, <<x>> \o Q, Q, hd[t], Append(hd[t], i))
  <2> SUFFICES ASSUME NEW j \in Slots
               PROVE  /\ Tally(sl[j].count, sl2[j].count, Occ(hd[t], Only(j)), Occ(Append(hd[t], i), Only(j)),
                               Occ(<<x>> \o Q, Calls(j)), Occ(Q, Calls(j)))
                      /\ Differs(Unread(sl[j]), Unread(sl2[j]), Occ(<<x>> \o Q, Fills(j)), Occ(Q, Fills(j)))
    BY DEF Slotwise
  <2>1. In(x, Calls(j)) = 0 /\ In(x, Fills(j)) = 0 /\ In(i, Only(j)) \in Nat
    BY <1>1, InIs
  <2>2. sl2[j].count = sl[j].count + 1 * In(i, Only(j)) /\ sl[j].count \in Nat
    BY <1>2, <1>3 DEF CountUp, SlotInv, SlotRec
  <2>3. Unread(sl2[j]) = Unread(sl[j])
    BY <1>3 DEF UnreadSame
  <2>4. Occ(<<x>> \o Q, Calls(j)) = Occ(Q, Calls(j)) /\ Occ(<<x>> \o Q, Fills(j)) = Occ(Q, Fills(j))
    BY <1>2, <2>1 DEF Splits
  <2>5. Occ(Append(hd[t], i), Only(j)) = Occ(hd[t], Only(j)) + In(i, Only(j))
    BY <1>5
  <2>6. Occ(hd[t], Only(j)) \in Nat /\ Occ(Q, Calls(j)) \in Nat
    BY <1>2
  <2>7. sl2[j].count = sl[j].count + In(i, Only(j))
    BY <2>1, <2>2
  <2>8. Tally(sl[j].count, sl2[j].count, Occ(hd[t], Only(j)), Occ(Append(hd[t], i), Only(j)),
              Occ(<<x>> \o Q, Calls(j)), Occ(Q, Calls(j)))
    BY <2>1, <2>2, <2>4, <2>5, <2>6, <2>7 DEF Tally
  <2> QED
    BY <2>3, <2>4, <2>8 DEF Differs
<1> QED
  BY <1>1, <1>3, <1>6, <1>7, SmallStep

\* iget has read the block of the inode.
LEMMA FillStep ==
    ASSUME NEW kn, NEW td, NEW sl, NEW sup, NEW hm, NEW hd, NEW t, NEW x, NEW Q,
           About(kn, td, sl, sup, hm, hd, t, x, Q), NEW i \in Slots, x = <<"fill", i>>,
           NEW sl2, Reads(sl, sl2, i),
           NEW kn2, NEW td2, NEW hd2, Leaves(td, td2, hd, hd2, t, kn2, Q, Append(hd[t], i))
    PROVE  IInvOf(kn2, td2, sl2, sup, hm, hd2)
<1>1. ~Drops(x) /\ x[1] # "homed" /\ ~IsMount(x) /\ Gain(x[1]) = 1
  BY DEF Drops, IsMount, MountKinds, Gain
<1>2. /\ hd[t] \in Seq(Slots) /\ Len(hd[t]) \in Nat /\ SlotInv(sl) /\ Q \in Seq(Ops) /\ t \in Tasks
      /\ Calm(Q, Len(hd[t]) + Gain(x[1])) /\ Splits(<<x>> \o Q, x, Q)
      /\ \A S : Occ(Q, S) \in Nat /\ Occ(hd[t], S) \in Nat
  BY <1>1, AboutIs
<1>3. Unread(sl[i]) = 1
  <2>1. In(x, Fills(i)) = 1 /\ Occ(<<x>> \o Q, Fills(i)) = In(x, Fills(i)) + Occ(Q, Fills(i)) /\ Occ(Q, Fills(i)) \in Nat
    BY <1>2 DEF In, Fills, Splits
  <2>2. /\ Total(td, Fills(i)) = Unread(sl[i]) /\ td[t] = <<x>> \o Q /\ Lists(td, Ops)
    BY DEF About, IInvOf, Lists
  <2>3. Total(td, Fills(i)) \in Nat /\ Total(td, Fills(i)) >= Occ(td[t], Fills(i))
    BY <1>2, <2>2, TotalIsNumber
  <2>4. Unread(sl[i]) \in {0, 1}
    BY DEF Unread
  <2>5. PICK n \in Nat : n = Occ(Q, Fills(i))
    BY <2>1
  <2>6. Occ(td[t], Fills(i)) = 1 + n
    BY <2>1, <2>2, <2>5
  <2> QED
    BY <2>2, <2>3, <2>4, <2>6
<1>4. SlotInv(sl2) /\ CountSame(sl, sl2) /\ UnreadDown(sl, sl2, i)
  BY <1>2, <1>3, ReadSlot
<1>5. /\ Len(Append(hd[t], i)) = Len(hd[t]) + 1
      /\ \A S : Occ(Append(hd[t], i), S) = Occ(hd[t], S) + In(i, S)
  BY <1>2, OneMore
<1>6. Calm(Q, Len(Append(hd[t], i)))
  BY <1>1, <1>2, <1>5
<1>7. Slotwise(sl, sl2, <<x>> \o Q, Q, hd[t], Append(hd[t], i))
  <2> SUFFICES ASSUME NEW j \in Slots
               PROVE  /\ Tally(sl[j].count, sl2[j].count, Occ(hd[t], Only(j)), Occ(Append(hd[t], i), Only(j)),
                               Occ(<<x>> \o Q, Calls(j)), Occ(Q, Calls(j)))
                      /\ Differs(Unread(sl[j]), Unread(sl2[j]), Occ(<<x>> \o Q, Fills(j)), Occ(Q, Fills(j)))
    BY DEF Slotwise
  <2>1. In(x, Calls(j)) = In(i, Only(j)) /\ In(x, Fills(j)) = In(i, Only(j)) /\ In(i, Only(j)) \in Nat
    BY InIs
  <2>2. sl2[j].count = sl[j].count /\ sl[j].count \in Nat
    BY <1>2, <1>4 DEF CountSame, SlotInv, SlotRec
  <2>3. Unread(sl2[j]) + In(i, Only(j)) = Unread(sl[j]) /\ Unread(sl2[j]) \in Nat
    BY <1>4 DEF UnreadDown, Unread
  <2>4. /\ Occ(<<x>> \o Q, Calls(j)) = In(x, Calls(j)) + Occ(Q, Calls(j))
        /\ Occ(<<x>> \o Q, Fills(j)) = In(x, Fills(j)) + Occ(Q, Fills(j))
    BY <1>2 DEF Splits
  <2>5. Occ(Append(hd[t], i), Only(j)) = Occ(hd[t], Only(j)) + In(i, Only(j))
    BY <1>5
  <2>6. Occ(hd[t], Only(j)) \in Nat /\ Occ(Q, Calls(j)) \in Nat /\ Occ(Q, Fills(j)) \in Nat
    BY <1>2
  <2>7. Tally(sl[j].count, sl2[j].count, Occ(hd[t], Only(j)), Occ(Append(hd[t], i), Only(j)),
              Occ(<<x>> \o Q, Calls(j)), Occ(Q, Calls(j)))
    BY <2>1, <2>2, <2>4, <2>5, <2>6 DEF Tally
  <2>8. Differs(Unread(sl[j]), Unread(sl2[j]), Occ(<<x>> \o Q, Fills(j)), Occ(Q, Fills(j)))
    BY <2>1, <2>3, <2>4, <2>6 DEF Differs
  <2> QED
    BY <2>7, <2>8
<1> QED
  BY <1>1, <1>4, <1>6, <1>7, SmallStep

\* The inode of iget is a mount point: it is dropped, and the root entered.
LEMMA CrossStep ==
    ASSUME NEW kn, NEW td, NEW sl, NEW sup, NEW hm, NEW hd, NEW t, NEW x, NEW Q,
           About(kn, td, sl, sup, hm, hd, t, x, Q), x[1] = "iget",
           NEW i \in Slots, sl[i].dev # None, NEW m \in Supers, NEW sl2, Recount(sl, sl2, i, 1),
           NEW kn2, NEW td2, NEW hd2,
           Leaves(td, td2, hd, hd2, t, kn2, <<<<"iput", i>>>> \o (<<<<"enter", m>>>> \o Q), hd[t])
    PROVE  IInvOf(kn2, td2, sl2, sup, hm, hd2)
<1> DEFINE y == <<"iput", i>>
           z == <<"enter", m>>
<1>1. ~Drops(x) /\ x[1] # "homed" /\ ~IsMount(x) /\ Gain(x[1]) = 1 /\ x[1] # "fill" /\ x[1] \notin {"iput", "drop", "fill"}
  BY DEF Drops, IsMount, MountKinds, Gain
<1>2. /\ hd[t] \in Seq(Slots) /\ Len(hd[t]) \in Nat /\ SlotInv(sl) /\ Q \in Seq(Ops)
      /\ Calm(Q, Len(hd[t]) + Gain(x[1])) /\ Splits(<<x>> \o Q, x, Q)
      /\ \A S : Occ(Q, S) \in Nat /\ Occ(hd[t], S) \in Nat
  BY <1>1, AboutIs
<1>3. SlotInv(sl2) /\ CountUp(sl, sl2, i, 1) /\ UnreadSame(sl, sl2)
  BY <1>2, PlusSlot
<1>4. Small(z, Len(hd[t])) /\ Gain(z[1]) = 1
  <2>1. Small(<<"enter", m>>, Len(hd[t]))
    BY <1>2, SmallOps
  <2> QED
    BY <2>1, Gains
<1>5. Calm(<<z>> \o Q, Len(hd[t])) /\ Mounts(<<z>> \o Q) = Mounts(Q) /\ Splits(<<z>> \o Q, z, Q)
  BY <1>1, <1>2, <1>4, SmallAhead
<1>6. Small(y, Len(hd[t])) /\ Gain(y[1]) = 0 /\ Len(hd[t]) + 0 = Len(hd[t])
  <2>1. Small(<<"iput", i>>, Len(hd[t]))
    BY <1>2, SmallOps
  <2>2. Len(hd[t]) + 0 = Len(hd[t])
    BY <1>2
  <2> QED
    BY <2>1, <2>2, Gains
<1> DEFINE q == <<z>> \o Q
           new == <<y>> \o q
<1>7. Calm(q, Len(hd[t]) + Gain(y[1]))
  BY <1>5, <1>6
<1> HIDE DEF q
<1>8. Calm(new, Len(hd[t])) /\ Mounts(new) = Mounts(q) /\ Splits(new, y, q)
  BY <1>6, <1>7, SmallAhead
<1>9. Slotwise(sl, sl2, <<x>> \o Q, new, hd[t], hd[t])
  <2> SUFFICES ASSUME NEW j \in Slots
               PROVE  /\ Tally(sl[j].count, sl2[j].count, Occ(hd[t], Only(j)), Occ(hd[t], Only(j)),
                               Occ(<<x>> \o Q, Calls(j)), Occ(new, Calls(j)))
                      /\ Differs(Unread(sl[j]), Unread(sl2[j]), Occ(<<x>> \o Q, Fills(j)), Occ(new, Fills(j)))
    BY DEF Slotwise
  <2>1. /\ In(x, Calls(j)) = 0 /\ In(x, Fills(j)) = 0 /\ In(i, Only(j)) \in Nat
        /\ In(z, Calls(j)) = 0 /\ In(z, Fills(j)) = 0
        /\ In(y, Calls(j)) = In(i, Only(j)) /\ In(y, Fills(j)) = 0
    BY <1>1, InIs
  <2>2. sl2[j].count = sl[j].count + 1 * In(i, Only(j)) /\ sl[j].count \in Nat
    BY <1>2, <1>3 DEF CountUp, SlotInv, SlotRec
  <2>3. Unread(sl2[j]) = Unread(sl[j])
    BY <1>3 DEF UnreadSame
  <2>4. /\ Occ(<<x>> \o Q, Calls(j)) = In(x, Calls(j)) + Occ(Q, Calls(j))
        /\ Occ(<<x>> \o Q, Fills(j)) = In(x, Fills(j)) + Occ(Q, Fills(j))
        /\ Occ(q, Calls(j)) = In(z, Calls(j)) + Occ(Q, Calls(j))
        /\ Occ(q, Fills(j)) = In(z, Fills(j)) + Occ(Q, Fills(j))
        /\ Occ(new, Calls(j)) = In(y, Calls(j)) + Occ(q, Calls(j))
        /\ Occ(new, Fills(j)) = In(y, Fills(j)) + Occ(q, Fills(j))
    BY <1>2, <1>5, <1>8 DEF Splits, q
  <2>6. Occ(hd[t], Only(j)) \in Nat /\ Occ(Q, Calls(j)) \in Nat /\ Occ(Q, Fills(j)) \in Nat
    BY <1>2
  <2>7. Tally(sl[j].count, sl2[j].count, Occ(hd[t], Only(j)), Occ(hd[t], Only(j)),
              Occ(<<x>> \o Q, Calls(j)), Occ(new, Calls(j)))
    BY <2>1, <2>2, <2>4, <2>6 DEF Tally
  <2>8. Occ(<<x>> \o Q, Fills(j)) = Occ(new, Fills(j))
    BY <2>1, <2>4, <2>6
  <2> QED
    BY <2>3, <2>7, <2>8 DEF Differs
<1>10. Mounts(new) = Mounts(Q)
  BY <1>5, <1>8 DEF q
<1>11. Leaves(td, td2, hd, hd2, t, kn2, new, hd[t])
  BY DEF q
<1> QED
  BY <1>1, <1>3, <1>8, <1>9, <1>10, <1>11, SmallStep

\* The inode of iget is not in the table.
LEMMA TakeStep ==
    ASSUME NEW kn, NEW td, NEW sl, NEW sup, NEW hm, NEW hd, NEW t, NEW x, NEW Q,
           About(kn, td, sl, sup, hm, hd, t, x, Q), x[1] = "iget",
           NEW i \in Slots, sl[i].dev = None,
           NEW d \in {Root, Disk}, NEW n \in Names, NEW s \in Supers,
           d = Root => s = 1, d = Disk => s = First,
           \A j \in Slots : ~(sl[j].dev = d /\ sl[j].nr = n),
           NEW sl2, Takes(sl, sl2, i, d, n, s),
           NEW kn2, NEW td2, NEW hd2, Leaves(td, td2, hd, hd2, t, kn2, <<<<"fill", i>>>> \o Q, hd[t])
    PROVE  IInvOf(kn2, td2, sl2, sup, hm, hd2)
<1> DEFINE y == <<"fill", i>>
           new == <<y>> \o Q
<1>1. ~Drops(x) /\ x[1] # "homed" /\ ~IsMount(x) /\ Gain(x[1]) = 1 /\ x[1] # "fill" /\ x[1] \notin {"iput", "drop", "fill"}
  BY DEF Drops, IsMount, MountKinds, Gain
<1>2. /\ hd[t] \in Seq(Slots) /\ Len(hd[t]) \in Nat /\ SlotInv(sl) /\ Q \in Seq(Ops)
      /\ Calm(Q, Len(hd[t]) + Gain(x[1])) /\ Splits(<<x>> \o Q, x, Q)
      /\ \A S : Occ(Q, S) \in Nat /\ Occ(hd[t], S) \in Nat
  BY <1>1, AboutIs
<1>3. SlotInv(sl2) /\ CountUp(sl, sl2, i, 1) /\ UnreadUp(sl, sl2, i)
  BY <1>2, TakeSlot
<1>4. Small(y, Len(hd[t])) /\ Gain(y[1]) = 1
  BY <1>2, SmallOps, Gains
<1>5. Calm(new, Len(hd[t])) /\ Mounts(new) = Mounts(Q) /\ Splits(new, y, Q)
  BY <1>1, <1>2, <1>4, SmallAhead
<1>6. Slotwise(sl, sl2, <<x>> \o Q, new, hd[t], hd[t])
  <2> SUFFICES ASSUME NEW j \in Slots
               PROVE  /\ Tally(sl[j].count, sl2[j].count, Occ(hd[t], Only(j)), Occ(hd[t], Only(j)),
                               Occ(<<x>> \o Q, Calls(j)), Occ(new, Calls(j)))
                      /\ Differs(Unread(sl[j]), Unread(sl2[j]), Occ(<<x>> \o Q, Fills(j)), Occ(new, Fills(j)))
    BY DEF Slotwise
  <2>1. /\ In(x, Calls(j)) = 0 /\ In(x, Fills(j)) = 0 /\ In(i, Only(j)) \in Nat
        /\ In(y, Calls(j)) = In(i, Only(j)) /\ In(y, Fills(j)) = In(i, Only(j))
    BY <1>1, InIs
  <2>2. sl2[j].count = sl[j].count + 1 * In(i, Only(j)) /\ sl[j].count \in Nat
    BY <1>2, <1>3 DEF CountUp, SlotInv, SlotRec
  <2>3. Unread(sl2[j]) = Unread(sl[j]) + In(i, Only(j)) /\ Unread(sl[j]) \in Nat
    BY <1>3 DEF UnreadUp, Unread
  <2>4. /\ Occ(<<x>> \o Q, Calls(j)) = In(x, Calls(j)) + Occ(Q, Calls(j))
        /\ Occ(<<x>> \o Q, Fills(j)) = In(x, Fills(j)) + Occ(Q, Fills(j))
        /\ Occ(new, Calls(j)) = In(y, Calls(j)) + Occ(Q, Calls(j))
        /\ Occ(new, Fills(j)) = In(y, Fills(j)) + Occ(Q, Fills(j))
    BY <1>2, <1>5 DEF Splits
  <2>5. Occ(hd[t], Only(j)) \in Nat /\ Occ(Q, Calls(j)) \in Nat /\ Occ(Q, Fills(j)) \in Nat
    BY <1>2
  <2>6. Tally(sl[j].count, sl2[j].count, Occ(hd[t], Only(j)), Occ(hd[t], Only(j)),
              Occ(<<x>> \o Q, Calls(j)), Occ(new, Calls(j)))
    BY <2>1, <2>2, <2>4, <2>5 DEF Tally
  <2>7. Differs(Unread(sl[j]), Unread(sl2[j]), Occ(<<x>> \o Q, Fills(j)), Occ(new, Fills(j)))
    BY <2>1, <2>3, <2>4, <2>5 DEF Differs
  <2> QED
    BY <2>6, <2>7
<1> QED
  BY <1>1, <1>3, <1>5, <1>6, SmallStep

\* A micro-step that changes no inode.
LEMMA PassStep ==
    ASSUME NEW kn, NEW td, NEW sl, NEW sup, NEW hm, NEW hd, NEW t, NEW x, NEW Q,
           About(kn, td, sl, sup, hm, hd, t, x, Q), x[1] = "parent",
           NEW kn2, NEW td2, NEW hd2, Leaves(td, td2, hd, hd2, t, kn2, Q, hd[t])
    PROVE  IInvOf(kn2, td2, sl, sup, hm, hd2)
<1>1. ~Drops(x) /\ x[1] # "homed" /\ ~IsMount(x) /\ Gain(x[1]) = 0 /\ x[1] # "fill" /\ x[1] \notin {"iput", "drop", "fill"}
  BY DEF Drops, IsMount, MountKinds, Gain
<1>2. /\ hd[t] \in Seq(Slots) /\ Len(hd[t]) \in Nat /\ SlotInv(sl) /\ Q \in Seq(Ops)
      /\ Calm(Q, Len(hd[t]) + Gain(x[1])) /\ Splits(<<x>> \o Q, x, Q)
      /\ \A S : Occ(Q, S) \in Nat /\ Occ(hd[t], S) \in Nat
  BY <1>1, AboutIs
<1>3. Calm(Q, Len(hd[t]))
  BY <1>1, <1>2
<1>4. \A j \in Slots : In(x, Calls(j)) = 0 /\ In(x, Fills(j)) = 0
  BY <1>1, InIs
<1>5. \A j \in Slots : Occ(<<x>> \o Q, Calls(j)) = Occ(Q, Calls(j)) /\ Occ(<<x>> \o Q, Fills(j)) = Occ(Q, Fills(j))
  <2> TAKE j \in Slots
  <2>1. /\ Occ(<<x>> \o Q, Calls(j)) = In(x, Calls(j)) + Occ(Q, Calls(j)) /\ Occ(Q, Calls(j)) \in Nat
        /\ Occ(<<x>> \o Q, Fills(j)) = In(x, Fills(j)) + Occ(Q, Fills(j)) /\ Occ(Q, Fills(j)) \in Nat
    BY <1>2 DEF Splits
  <2> QED
    BY <1>4, <2>1
<1>6. Slotwise(sl, sl, <<x>> \o Q, Q, hd[t], hd[t])
  BY <1>5 DEF Slotwise, Tally, Differs
<1> QED
  BY <1>1, <1>2, <1>3, <1>6, SmallStep

\* What is left is an iput of i, and h2 instead of the inodes of the task:
\* for iputs of an inode that the task no longer holds, or another that it now does.
LEMMA PutAhead ==
    ASSUME NEW Q, NEW n \in Nat, Calm(Q, n), NEW i \in Slots
    PROVE  /\ Calm(<<<<"iput", i>>>> \o Q, n) /\ Mounts(<<<<"iput", i>>>> \o Q) = Mounts(Q)
           /\ Splits(<<<<"iput", i>>>> \o Q, <<"iput", i>>, Q)
<1> DEFINE y == <<"iput", i>>
<1>1. Small(y, n)
  BY SmallOps
<1>2. n + Gain(y[1]) = n
  BY Gains
<1>3. Calm(Q, n + Gain(y[1]))
  BY <1>2
<1> HIDE DEF y
<1>4. Calm(<<y>> \o Q, n) /\ Mounts(<<y>> \o Q) = Mounts(Q) /\ Splits(<<y>> \o Q, y, Q)
  BY <1>1, <1>3, SmallAhead
<1> QED
  BY <1>4 DEF y

\* ".." of a root: the directory is dropped, and the mount point held instead.
LEMMA UpStep ==
    ASSUME NEW kn, NEW td, NEW sl, NEW sup, NEW hm, NEW hd, NEW t, NEW x, NEW Q,
           About(kn, td, sl, sup, hm, hd, t, x, Q), x[1] = "parent",
           NEW i \in Slots, i = hd[t][Len(hd[t])],
           NEW up \in Slots, sl[up].dev # None, NEW sl2, Recount(sl, sl2, up, 1),
           NEW kn2, NEW td2, NEW hd2,
           Leaves(td, td2, hd, hd2, t, kn2, <<<<"iput", i>>>> \o Q, Append(Cut(hd[t], 1), up))
    PROVE  IInvOf(kn2, td2, sl2, sup, hm, hd2)
<1> DEFINE y == <<"iput", i>>
           new == <<y>> \o Q
<1>1. ~Drops(x) /\ x[1] # "homed" /\ ~IsMount(x) /\ Gain(x[1]) = 0 /\ Needs(x[1]) = 1 /\ x[1] # "fill"
      /\ x[1] \notin {"iput", "drop", "fill"}
  BY DEF Drops, IsMount, MountKinds, Gain, Needs
<1>2. /\ hd[t] \in Seq(Slots) /\ Len(hd[t]) \in Nat /\ SlotInv(sl) /\ Q \in Seq(Ops)
      /\ Calm(Q, Len(hd[t]) + Gain(x[1])) /\ Splits(<<x>> \o Q, x, Q) /\ Len(hd[t]) >= Needs(x[1])
      /\ \A S : Occ(Q, S) \in Nat /\ Occ(hd[t], S) \in Nat
  BY <1>1, AboutIs
<1>3. SlotInv(sl2) /\ CountUp(sl, sl2, up, 1) /\ UnreadSame(sl, sl2)
  BY <1>2, PlusSlot
<1>4. Calm(Q, Len(hd[t]))
  BY <1>1, <1>2
<1>5. Calm(new, Len(hd[t])) /\ Mounts(new) = Mounts(Q) /\ Splits(new, y, Q)
  BY <1>2, <1>4, PutAhead
<1>6. PICK g \in Seq(Slots) : g = Cut(hd[t], 1) /\ Len(g) = Len(hd[t]) - 1
  <2>1. 1 \in 0 .. Len(hd[t])
    BY <1>1, <1>2
  <2> QED
    BY <1>2, <2>1, CutIs
<1>7. \A S : Occ(g, S) + In(i, S) = Occ(hd[t], S)
  <2>1. 0 \in 0 .. Len(hd[t]) - 1 /\ Len(hd[t]) - 0 = Len(hd[t]) /\ 0 + 1 = 1
    BY <1>1, <1>2
  <2>2. \A S : Occ(Cut(hd[t], 0 + 1), S) + In(hd[t][Len(hd[t]) - 0], S) = Occ(Cut(hd[t], 0), S)
    BY <1>2, <2>1, CutOne
  <2>3. Cut(hd[t], 0) = hd[t]
    BY <1>2, CutNone
  <2> QED
    BY <1>6, <2>1, <2>2, <2>3
<1>8. Len(Append(g, up)) = Len(hd[t]) /\ \A S : Occ(Append(g, up), S) = Occ(g, S) + In(up, S)
  <2>1. Len(Append(g, up)) = Len(g) + 1 /\ \A S : Occ(Append(g, up), S) = Occ(g, S) + In(up, S)
    BY OneMore
  <2> QED
    BY <1>2, <1>6, <2>1
<1> DEFINE h2 == Append(g, up)
<1>9. Calm(new, Len(h2))
  BY <1>5, <1>8
<1>10. Slotwise(sl, sl2, <<x>> \o Q, new, hd[t], h2)
  <2> SUFFICES ASSUME NEW j \in Slots
               PROVE  /\ Tally(sl[j].count, sl2[j].count, Occ(hd[t], Only(j)), Occ(h2, Only(j)),
                               Occ(<<x>> \o Q, Calls(j)), Occ(new, Calls(j)))
                      /\ Differs(Unread(sl[j]), Unread(sl2[j]), Occ(<<x>> \o Q, Fills(j)), Occ(new, Fills(j)))
    BY DEF Slotwise
  <2>1. /\ In(x, Calls(j)) = 0 /\ In(x, Fills(j)) = 0 /\ In(i, Only(j)) \in Nat /\ In(up, Only(j)) \in Nat
        /\ In(y, Calls(j)) = In(i, Only(j)) /\ In(y, Fills(j)) = 0
    BY <1>1, InIs
  <2>2. sl2[j].count = sl[j].count + 1 * In(up, Only(j)) /\ sl[j].count \in Nat
    BY <1>2, <1>3 DEF CountUp, SlotInv, SlotRec
  <2>3. Unread(sl2[j]) = Unread(sl[j]) /\ Unread(sl[j]) \in Nat
    BY <1>3 DEF UnreadSame, Unread
  <2>4. /\ Occ(<<x>> \o Q, Calls(j)) = In(x, Calls(j)) + Occ(Q, Calls(j))
        /\ Occ(<<x>> \o Q, Fills(j)) = In(x, Fills(j)) + Occ(Q, Fills(j))
        /\ Occ(new, Calls(j)) = In(y, Calls(j)) + Occ(Q, Calls(j))
        /\ Occ(new, Fills(j)) = In(y, Fills(j)) + Occ(Q, Fills(j))
    BY <1>2, <1>5 DEF Splits
  <2>5. Occ(hd[t], Only(j)) \in Nat /\ Occ(Q, Calls(j)) \in Nat /\ Occ(Q, Fills(j)) \in Nat
    BY <1>2
  <2>6. Occ(h2, Only(j)) = Occ(g, Only(j)) + In(up, Only(j)) /\ Occ(g, Only(j)) + In(i, Only(j)) = Occ(hd[t], Only(j))
        /\ Occ(g, Only(j)) \in Nat
    BY <1>7, <1>8, WhereIsFinite
  <2>7. Tally(sl[j].count, sl2[j].count, Occ(hd[t], Only(j)), Occ(h2, Only(j)),
              Occ(<<x>> \o Q, Calls(j)), Occ(new, Calls(j)))
    BY <2>1, <2>2, <2>4, <2>5, <2>6 DEF Tally
  <2>8. Differs(Unread(sl[j]), Unread(sl2[j]), Occ(<<x>> \o Q, Fills(j)), Occ(new, Fills(j)))
    BY <2>1, <2>3, <2>4, <2>5 DEF Differs
  <2> QED
    BY <2>7, <2>8
<1>11. Leaves(td, td2, hd, hd2, t, kn2, new, h2)
  BY <1>6
<1> QED
  BY <1>1, <1>3, <1>5, <1>9, <1>10, <1>11, SmallStep

-----------------------------------------------------------------------------
(* Micro-steps that leave inode_table alone.                               *)

\* A sequence that has an i less than another.
Sheds(h, g, i) == \A S : Occ(g, S) + In(i, S) = Occ(h, S)

LEMMA CutTop ==
    ASSUME NEW h \in Seq(Slots), Len(h) >= 1
    PROVE  /\ Cut(h, 1) \in Seq(Slots) /\ Len(Cut(h, 1)) = Len(h) - 1 /\ Sheds(h, Cut(h, 1), h[Len(h)])
           /\ h[Len(h)] \in Slots
<1>1. Len(h) \in Nat
  BY LenProperties
<1>2. 1 \in 0 .. Len(h) /\ 0 \in 0 .. Len(h) - 1 /\ Len(h) - 0 = Len(h) /\ 0 + 1 = 1 /\ Len(h) \in 1 .. Len(h)
  BY <1>1
<1>3. \A S : Occ(Cut(h, 0 + 1), S) + In(h[Len(h) - 0], S) = Occ(Cut(h, 0), S)
  BY <1>2, CutOne
<1>4. Cut(h, 0) = h
  BY CutNone
<1>5. Sheds(h, Cut(h, 1), h[Len(h)])
  BY <1>2, <1>3, <1>4 DEF Sheds
<1>6. Cut(h, 1) \in Seq(Slots) /\ Len(Cut(h, 1)) = Len(h) - 1
  BY <1>2, CutIs
<1>7. h[Len(h)] \in Slots
  BY <1>2
<1> QED
  BY <1>5, <1>6, <1>7

LEMMA CutMore ==
    ASSUME NEW h \in Seq(Slots), NEW n \in {1, 2}, Len(h) >= n + 1
    PROVE  /\ Cut(h, n + 1) \in Seq(Slots) /\ Len(Cut(h, n + 1)) = Len(h) - (n + 1)
           /\ Sheds(Cut(h, n), Cut(h, n + 1), h[Len(h) - n]) /\ h[Len(h) - n] \in Slots
<1>1. Len(h) \in Nat
  BY LenProperties
<1>2. n + 1 \in 0 .. Len(h) /\ n \in 0 .. Len(h) - 1 /\ Len(h) - n \in 1 .. Len(h)
  BY <1>1
<1>3. \A S : Occ(Cut(h, n + 1), S) + In(h[Len(h) - n], S) = Occ(Cut(h, n), S)
  BY <1>2, CutOne
<1>4. Sheds(Cut(h, n), Cut(h, n + 1), h[Len(h) - n])
  BY <1>3 DEF Sheds
<1>5. Cut(h, n + 1) \in Seq(Slots) /\ Len(Cut(h, n + 1)) = Len(h) - (n + 1)
  BY <1>2, CutIs
<1>6. h[Len(h) - n] \in Slots
  BY <1>2
<1> QED
  BY <1>4, <1>5, <1>6

\* The lists and inodes before and after refer to an inode as often.
Even(old, new, h, h2) ==
    \A i \in Slots :
        /\ Occ(h, Only(i)) + Occ(old, Calls(i)) = Occ(h2, Only(i)) + Occ(new, Calls(i))
        /\ Occ(new, Fills(i)) = Occ(old, Fills(i))

LEMMA EvenSlots ==
    ASSUME NEW sl, SlotInv(sl), NEW old \in Seq(Ops), NEW new \in Seq(Ops), NEW h \in Seq(Slots),
           NEW h2 \in Seq(Slots), Even(old, new, h, h2)
    PROVE  Slotwise(sl, sl, old, new, h, h2)
<1> SUFFICES ASSUME NEW j \in Slots
             PROVE  /\ Tally(sl[j].count, sl[j].count, Occ(h, Only(j)), Occ(h2, Only(j)),
                             Occ(old, Calls(j)), Occ(new, Calls(j)))
                    /\ Differs(Unread(sl[j]), Unread(sl[j]), Occ(old, Fills(j)), Occ(new, Fills(j)))
  BY DEF Slotwise
<1>1. /\ Occ(h, Only(j)) + Occ(old, Calls(j)) = Occ(h2, Only(j)) + Occ(new, Calls(j))
      /\ Occ(new, Fills(j)) = Occ(old, Fills(j))
  BY DEF Even
<1>2. /\ Occ(h, Only(j)) \in Nat /\ Occ(h2, Only(j)) \in Nat
      /\ Occ(old, Calls(j)) \in Nat /\ Occ(new, Calls(j)) \in Nat
  BY WhereIsFinite
<1>3. sl[j].count \in Nat
  BY DEF SlotInv, SlotRec
<1>4. Tally(sl[j].count, sl[j].count, Occ(h, Only(j)), Occ(h2, Only(j)), Occ(old, Calls(j)), Occ(new, Calls(j)))
  <2>1. PICK n \in Nat : n = sl[j].count
    BY <1>3
  <2>2. PICK a \in Nat, a2 \in Nat, b \in Nat, b2 \in Nat :
          /\ a = Occ(h, Only(j)) /\ a2 = Occ(h2, Only(j))
          /\ b = Occ(old, Calls(j)) /\ b2 = Occ(new, Calls(j))
    BY <1>2
  <2>3. a + b = a2 + b2
    BY <1>1, <2>2
  <2>4. n + a + b = n + a2 + b2
    BY <2>3
  <2> QED
    BY <2>1, <2>2, <2>4 DEF Tally
<1> QED
  BY <1>1, <1>4 DEF Differs

\* Micro-steps that refer to no inode.
LEMMA PlainSplit ==
    ASSUME NEW q \in Seq(Ops), NEW Q \in Seq(Ops), NEW x, Splits(q, x, Q), x[1] \notin {"iput", "drop", "fill"}
    PROVE  \A i \in Slots : Occ(q, Calls(i)) = Occ(Q, Calls(i)) /\ Occ(q, Fills(i)) = Occ(Q, Fills(i))
<1> SUFFICES ASSUME NEW i \in Slots
             PROVE  Occ(q, Calls(i)) = Occ(Q, Calls(i)) /\ Occ(q, Fills(i)) = Occ(Q, Fills(i))
  OBVIOUS
<1>1. In(x, Calls(i)) = 0 /\ In(x, Fills(i)) = 0
  BY InIs
<1>2. Occ(q, Calls(i)) = In(x, Calls(i)) + Occ(Q, Calls(i)) /\ Occ(q, Fills(i)) = In(x, Fills(i)) + Occ(Q, Fills(i))
  BY DEF Splits
<1>3. Occ(Q, Calls(i)) \in Nat /\ Occ(Q, Fills(i)) \in Nat
  BY WhereIsFinite
<1> QED
  BY <1>1, <1>2, <1>3

LEMMA PutSplit ==
    ASSUME NEW q \in Seq(Ops), NEW Q \in Seq(Ops), NEW j, Splits(q, <<"iput", j>>, Q)
    PROVE  \A i \in Slots : /\ Occ(q, Calls(i)) = In(j, Only(i)) + Occ(Q, Calls(i))
                            /\ Occ(q, Fills(i)) = Occ(Q, Fills(i))
<1> SUFFICES ASSUME NEW i \in Slots
             PROVE  /\ Occ(q, Calls(i)) = In(j, Only(i)) + Occ(Q, Calls(i))
                    /\ Occ(q, Fills(i)) = Occ(Q, Fills(i))
  OBVIOUS
<1> DEFINE x == <<"iput", j>>
<1>1. In(x, Calls(i)) = In(j, Only(i)) /\ In(x, Fills(i)) = 0
  BY InIs
<1>2. Occ(q, Calls(i)) = In(x, Calls(i)) + Occ(Q, Calls(i)) /\ Occ(q, Fills(i)) = In(x, Fills(i)) + Occ(Q, Fills(i))
  BY DEF Splits
<1>3. Occ(Q, Calls(i)) \in Nat /\ Occ(Q, Fills(i)) \in Nat
  BY WhereIsFinite
<1> QED
  BY <1>1, <1>2, <1>3

\* A directory is dropped, and the next one looked up.
LEMMA WalkStep ==
    ASSUME NEW kn, NEW td, NEW sl, NEW sup, NEW hm, NEW hd, NEW t, NEW x, NEW Q,
           About(kn, td, sl, sup, hm, hd, t, x, Q), x[1] = "walk",
           NEW i \in Slots, i = hd[t][Len(hd[t])], NEW d \in Devs, NEW n \in Names,
           NEW kn2, NEW td2, NEW hd2,
           Leaves(td, td2, hd, hd2, t, kn2, <<<<"iput", i>>>> \o (<<<<"iget", d, n>>>> \o Q), Cut(hd[t], 1))
    PROVE  IInvOf(kn2, td2, sl, sup, hm, hd2)
<1> DEFINE z == <<"iget", d, n>>
<1>1. ~Drops(x) /\ x[1] # "homed" /\ ~IsMount(x) /\ Gain(x[1]) = 0 /\ Needs(x[1]) = 1
      /\ x[1] \notin {"iput", "drop", "fill"}
  BY DEF Drops, IsMount, MountKinds, Gain, Needs
<1>2. /\ hd[t] \in Seq(Slots) /\ Len(hd[t]) \in Nat /\ SlotInv(sl) /\ x \in Ops /\ Q \in Seq(Ops)
      /\ Calm(Q, Len(hd[t]) + Gain(x[1])) /\ Splits(<<x>> \o Q, x, Q) /\ Len(hd[t]) >= Needs(x[1])
  BY <1>1, AboutIs
<1>3. PICK g \in Seq(Slots) : g = Cut(hd[t], 1) /\ Len(g) = Len(hd[t]) - 1 /\ Sheds(hd[t], g, i)
  BY <1>1, <1>2, CutTop
<1>4. Len(g) \in Nat /\ Len(g) + 1 = Len(hd[t]) /\ Calm(Q, Len(g) + 1)
  BY <1>1, <1>2, <1>3
<1>5. Small(z, Len(g)) /\ Gain(z[1]) = 1
  BY <1>4, SmallOps, Gains
<1> DEFINE q == <<z>> \o Q
<1>6. Calm(q, Len(g)) /\ Mounts(q) = Mounts(Q) /\ Splits(q, z, Q)
  BY <1>4, <1>5, SmallAhead
<1>7. q \in Seq(Ops)
  BY <1>6 DEF Calm, Good
<1>8. z[1] \notin {"iput", "drop", "fill"}
  OBVIOUS
<1> HIDE DEF q, z
<1> DEFINE new == <<<<"iput", i>>>> \o q
<1>9. Calm(new, Len(g)) /\ Mounts(new) = Mounts(q) /\ Splits(new, <<"iput", i>>, q)
  BY <1>4, <1>6, PutAhead
<1>10. new \in Seq(Ops) /\ <<x>> \o Q \in Seq(Ops)
  <2>1. new \in Seq(Ops)
    BY <1>9 DEF Calm, Good
  <2>2. <<x>> \o Q \in Seq(Ops)
    BY <1>2, Ahead
  <2> QED
    BY <2>1, <2>2
<1> HIDE DEF new
<1>11. Even(<<x>> \o Q, new, hd[t], g)
  <2> SUFFICES ASSUME NEW j \in Slots
               PROVE  /\ Occ(hd[t], Only(j)) + Occ(<<x>> \o Q, Calls(j)) = Occ(g, Only(j)) + Occ(new, Calls(j))
                      /\ Occ(new, Fills(j)) = Occ(<<x>> \o Q, Fills(j))
    BY DEF Even
  <2>1. Occ(<<x>> \o Q, Calls(j)) = Occ(Q, Calls(j)) /\ Occ(<<x>> \o Q, Fills(j)) = Occ(Q, Fills(j))
    BY <1>1, <1>2, <1>10, PlainSplit
  <2>2. Occ(q, Calls(j)) = Occ(Q, Calls(j)) /\ Occ(q, Fills(j)) = Occ(Q, Fills(j))
    BY <1>2, <1>6, <1>7, <1>8, PlainSplit
  <2>3. Occ(new, Calls(j)) = In(i, Only(j)) + Occ(q, Calls(j)) /\ Occ(new, Fills(j)) = Occ(q, Fills(j))
    BY <1>7, <1>9, <1>10, PutSplit
  <2>4. Occ(g, Only(j)) + In(i, Only(j)) = Occ(hd[t], Only(j))
    BY <1>3 DEF Sheds
  <2>5. Occ(g, Only(j)) \in Nat /\ In(i, Only(j)) \in Nat /\ Occ(Q, Calls(j)) \in Nat
    BY <1>2, WhereIsFinite, InIs
  <2> QED
    BY <2>1, <2>2, <2>3, <2>4, <2>5
<1>12. Slotwise(sl, sl, <<x>> \o Q, new, hd[t], g)
  BY <1>2, <1>10, <1>11, EvenSlots
<1>13. Leaves(td, td2, hd, hd2, t, kn2, new, g)
  BY <1>3 DEF new, q, z
<1>14. Mounts(new) = Mounts(Q)
  BY <1>6, <1>9
<1> QED
  BY <1>1, <1>2, <1>9, <1>12, <1>13, <1>14, SmallStep

\* A small micro-step that changes no inode, only what refers to them.
LEMMA EvenStep ==
    ASSUME NEW kn, NEW td, NEW sl, NEW sup, NEW hm, NEW hd, NEW t, NEW x, NEW Q,
           About(kn, td, sl, sup, hm, hd, t, x, Q), x[1] \in {"last", "under", "chdir"},
           NEW kn2, NEW td2, NEW hd2, NEW new, NEW h2,
           Leaves(td, td2, hd, hd2, t, kn2, new, h2),
           Calm(new, Len(h2)), Mounts(new) = Mounts(Q),
           Even(Q, new, hd[t], h2)
    PROVE  IInvOf(kn2, td2, sl, sup, hm, hd2)
<1>1. ~Drops(x) /\ x[1] # "homed" /\ ~IsMount(x) /\ x[1] \notin {"iput", "drop", "fill"}
  BY DEF Drops, IsMount, MountKinds
<1>2. hd[t] \in Seq(Slots) /\ SlotInv(sl) /\ x \in Ops /\ Q \in Seq(Ops) /\ Splits(<<x>> \o Q, x, Q) /\ t \in Tasks
  BY <1>1, AboutIs
<1>3. h2 \in Seq(Slots) /\ new \in Seq(Ops) /\ <<x>> \o Q \in Seq(Ops)
  <2>1. h2 \in Seq(Slots)
    BY <1>2 DEF Leaves, Lists
  <2>2. new \in Seq(Ops)
    BY DEF Calm, Good
  <2>3. <<x>> \o Q \in Seq(Ops)
    BY <1>2, Ahead
  <2> QED
    BY <2>1, <2>2, <2>3
<1>4. Even(<<x>> \o Q, new, hd[t], h2)
  <2>1. \A j \in Slots : /\ Occ(<<x>> \o Q, Calls(j)) = Occ(Q, Calls(j))
                         /\ Occ(<<x>> \o Q, Fills(j)) = Occ(Q, Fills(j))
    BY <1>1, <1>2, <1>3, PlainSplit
  <2> QED
    BY <2>1 DEF Even
<1>5. Slotwise(sl, sl, <<x>> \o Q, new, hd[t], h2)
  BY <1>2, <1>3, <1>4, EvenSlots
<1> QED
  BY <1>1, <1>2, <1>5, SmallStep

\* The last directory of a path is dropped after its entry has been looked up.
LEMMA LastStep ==
    ASSUME NEW kn, NEW td, NEW sl, NEW sup, NEW hm, NEW hd, NEW t, NEW x, NEW Q,
           About(kn, td, sl, sup, hm, hd, t, x, Q), x[1] = "last", NEW d \in Devs, NEW n \in Names,
           NEW kn2, NEW td2, NEW hd2,
           Leaves(td, td2, hd, hd2, t, kn2, <<<<"iget", d, n>>>> \o (<<<<"under">>>> \o Q), hd[t])
    PROVE  IInvOf(kn2, td2, sl, sup, hm, hd2)
<1> DEFINE y == <<"iget", d, n>>
           z == <<"under">>
           h == hd[t]
<1>1. ~Drops(x) /\ Gain(x[1]) = 0 /\ Needs(x[1]) = 1
  BY DEF Drops, Gain, Needs
<1>2. /\ h \in Seq(Slots) /\ Len(h) \in Nat /\ Q \in Seq(Ops)
      /\ Calm(Q, Len(h) + Gain(x[1])) /\ Len(h) >= Needs(x[1])
  BY <1>1, AboutIs
<1>3. Len(h) + 1 \in Nat /\ Len(h) + 1 >= 2 /\ (Len(h) + 1) + -1 = Len(h) /\ Calm(Q, Len(h))
  BY <1>1, <1>2
<1>4. Small(z, Len(h) + 1) /\ Gain(z[1]) = -1
  BY <1>3, SmallOps, Gains
<1>5. Small(y, Len(h)) /\ Gain(y[1]) = 1
  BY <1>2, SmallOps, Gains
<1> DEFINE q == <<z>> \o Q
<1>6. Calm(q, Len(h) + 1) /\ Mounts(q) = Mounts(Q) /\ Splits(q, z, Q)
  BY <1>3, <1>4, SmallAhead
<1>7. y[1] \notin {"iput", "drop", "fill"} /\ z[1] \notin {"iput", "drop", "fill"}
  OBVIOUS
<1> HIDE DEF q, z, y
<1> DEFINE new == <<y>> \o q
<1>8. Calm(new, Len(h)) /\ Mounts(new) = Mounts(q) /\ Splits(new, y, q)
  BY <1>5, <1>6, SmallAhead
<1>9. q \in Seq(Ops) /\ new \in Seq(Ops)
  BY <1>6, <1>8 DEF Calm, Good
<1> HIDE DEF new
<1>10. Even(Q, new, h, h)
  <2>1. \A j \in Slots : Occ(q, Calls(j)) = Occ(Q, Calls(j)) /\ Occ(q, Fills(j)) = Occ(Q, Fills(j))
    BY <1>2, <1>6, <1>7, <1>9, PlainSplit
  <2>2. \A j \in Slots : Occ(new, Calls(j)) = Occ(q, Calls(j)) /\ Occ(new, Fills(j)) = Occ(q, Fills(j))
    BY <1>7, <1>8, <1>9, PlainSplit
  <2> QED
    BY <2>1, <2>2 DEF Even
<1>11. Leaves(td, td2, hd, hd2, t, kn2, new, h)
  BY DEF new, q, z, y
<1>12. Mounts(new) = Mounts(Q)
  BY <1>6, <1>8
<1> HIDE DEF h
<1>13. x[1] \in {"last", "under", "chdir"} /\ Even(Q, new, hd[t], h)
  BY <1>10 DEF h
<1> QED
  BY <1>8, <1>11, <1>12, <1>13, EvenStep

\* An inode is no longer a local of the call, and dropped.
LEMMA LetGo ==
    ASSUME NEW Q \in Seq(Ops), NEW h \in Seq(Slots), NEW g \in Seq(Slots), NEW i \in Slots,
           Sheds(h, g, i), Calm(Q, Len(g))
    PROVE  /\ Calm(<<<<"iput", i>>>> \o Q, Len(g)) /\ Mounts(<<<<"iput", i>>>> \o Q) = Mounts(Q)
           /\ Even(Q, <<<<"iput", i>>>> \o Q, h, g)
<1> DEFINE new == <<<<"iput", i>>>> \o Q
<1>1. Len(g) \in Nat
  BY LenProperties
<1>2. Calm(new, Len(g)) /\ Mounts(new) = Mounts(Q) /\ Splits(new, <<"iput", i>>, Q)
  BY <1>1, PutAhead
<1>3. new \in Seq(Ops)
  BY <1>2 DEF Calm, Good
<1> HIDE DEF new
<1>4. Even(Q, new, h, g)
  <2> SUFFICES ASSUME NEW j \in Slots
               PROVE  /\ Occ(h, Only(j)) + Occ(Q, Calls(j)) = Occ(g, Only(j)) + Occ(new, Calls(j))
                      /\ Occ(new, Fills(j)) = Occ(Q, Fills(j))
    BY DEF Even
  <2>1. Occ(new, Calls(j)) = In(i, Only(j)) + Occ(Q, Calls(j)) /\ Occ(new, Fills(j)) = Occ(Q, Fills(j))
    BY <1>2, <1>3, PutSplit
  <2>2. Occ(g, Only(j)) + In(i, Only(j)) = Occ(h, Only(j))
    BY DEF Sheds
  <2>3. Occ(g, Only(j)) \in Nat /\ In(i, Only(j)) \in Nat /\ Occ(Q, Calls(j)) \in Nat
    BY WhereIsFinite, InIs
  <2> QED
    BY <2>1, <2>2, <2>3
<1> QED
  BY <1>2, <1>4 DEF new

\* namei drops the directory; chdir the inode it does not take.
LEMMA LetGoStep ==
    ASSUME NEW kn, NEW td, NEW sl, NEW sup, NEW hm, NEW hd, NEW t, NEW x, NEW Q,
           About(kn, td, sl, sup, hm, hd, t, x, Q), x[1] \in {"under", "chdir"},
           NEW g \in Seq(Slots), NEW i \in Slots, Sheds(hd[t], g, i), Len(g) = Len(hd[t]) - 1,
           NEW kn2, NEW td2, NEW hd2, Leaves(td, td2, hd, hd2, t, kn2, <<<<"iput", i>>>> \o Q, g)
    PROVE  IInvOf(kn2, td2, sl, sup, hm, hd2)
<1>1. ~Drops(x) /\ Gain(x[1]) = -1
  BY DEF Drops, Gain
<1>2. hd[t] \in Seq(Slots) /\ Len(hd[t]) \in Nat /\ Q \in Seq(Ops) /\ Calm(Q, Len(hd[t]) + Gain(x[1]))
  BY <1>1, AboutIs
<1>3. Len(hd[t]) + Gain(x[1]) = Len(g)
  BY <1>1, <1>2
<1>4. /\ Calm(<<<<"iput", i>>>> \o Q, Len(g)) /\ Mounts(<<<<"iput", i>>>> \o Q) = Mounts(Q)
      /\ Even(Q, <<<<"iput", i>>>> \o Q, hd[t], g)
  BY <1>2, <1>3, LetGo
<1> QED
  BY <1>4, EvenStep

-----------------------------------------------------------------------------
(* iput, and a change of directory.                                        *)

LEMMA OneGone ==
    ASSUME NEW n \in Nat, NEW n2 \in Nat, NEW a \in Nat, NEW b \in Nat, NEW z \in Nat, n2 + z = n
    PROVE  n2 + a + (z + b) = n + a + b
OBVIOUS

LEMMA PlacesFinite ==
    ASSUME NEW X, NEW f, Lists(f, X), NEW t \in Tasks, NEW S
    PROVE  IsFiniteSet(Places(f, S))
<1>1. f \in [Tasks -> Seq(X)]
  BY DEF Lists
<1>2. IsFiniteSet(AtTask(f, t, S))
  BY <1>1, AtTaskIs DEF AtTask
<1>3. IsFiniteSet(Elsewhere(f, t, S))
  BY <1>1, ElsewhereIsFinite
<1>4. Places(f, S) = Elsewhere(f, t, S) \cup AtTask(f, t, S)
  <2>1. Places(f, S) = UNION {AtTask(f, u, S) : u \in Tasks}
    BY <1>1, PlacesAre
  <2> QED
    BY <2>1 DEF Elsewhere
<1> QED
  BY <1>2, <1>3, <1>4, FS_Union

\* The last reference to an inode is no read of its block.
LEMMA LastIsRead ==
    ASSUME NEW kn, NEW td, NEW sl, NEW sup, NEW hm, NEW hd, NEW t, NEW x, NEW Q,
           About(kn, td, sl, sup, hm, hd, t, x, Q), NEW i \in Slots, x = <<"drop", i>>
    PROVE  sl[i].count # 0 /\ (sl[i].count = 1 => Unread(sl[i]) = 0)
<1>1. /\ IInvOf(kn, td, sl, sup, hm, hd) /\ t \in Tasks /\ x \in Ops /\ Q \in Seq(Ops)
      /\ td[t] = <<x>> \o Q
  BY DEF About
<1>2. /\ Lists(td, Ops) /\ Lists(hd, Slots)
      /\ IsSum(sl[i].count, Total(hd, Only(i)), Total(td, Calls(i)),
               HomeRefs(hm, td, i), SuperRefs(sup, AllMounts(td), i))
      /\ Total(td, Fills(i)) = Unread(sl[i])
  BY <1>1 DEF IInvOf, Lists
<1>3. Len(td[t]) >= 1 /\ Len(td[t]) \in Nat /\ td[t][1] = x
  <2>1. Len(<<x>> \o Q) = Len(Q) + 1 /\ (<<x>> \o Q)[1] = x /\ Len(Q) \in Nat
    BY <1>1, Ahead, LenProperties
  <2> QED
    BY <1>1, <2>1
<1>4. 1 \in 1 .. Len(td[t]) /\ 1 \in DOMAIN td[t]
  <2>1. 1 \in 1 .. Len(td[t])
    BY <1>3
  <2>2. td[t] \in Seq(Ops)
    BY <1>1, <1>2 DEF Lists
  <2> QED
    BY <2>1, <2>2, LenProperties
<1>5. sl[i].count # 0
  <2>1. x \in Calls(i)
    BY DEF Calls
  <2> QED
    BY <1>1, <1>3, <1>4, <2>1, CallInUse
<1>6. ASSUME sl[i].count = 1, Unread(sl[i]) # 0
      PROVE  FALSE
  <2> DEFINE A == Places(td, Fills(i))
             B == Places(td, Calls(i))
             p == <<t, 1>>
  <2>1. p \notin A
    <3>1. x \notin Fills(i)
      BY DEF Fills
    <3> QED
      BY <1>3, <3>1 DEF Places
  <2>2. p \in B
    <3>1. x \in Calls(i)
      BY DEF Calls
    <3>2. 1 \in {k \in DOMAIN td[t] : td[t][k] \in Calls(i)}
      BY <1>3, <1>4, <3>1
    <3>3. p \in {t} \X {k \in DOMAIN td[t] : td[t][k] \in Calls(i)}
      BY <3>2
    <3> QED
      BY <1>1, <3>3 DEF Places
  <2>3. A \subseteq B
    <3>1. Fills(i) \subseteq Calls(i)
      BY DEF Fills, Calls
    <3> QED
      BY <3>1 DEF Places
  <2>4. IsFiniteSet(A) /\ IsFiniteSet(B)
    BY <1>1, <1>2, PlacesFinite
  <2> HIDE DEF A, B, p
  <2>5. A \cup {p} \subseteq B /\ IsFiniteSet(A \cup {p}) /\ Cardinality(A \cup {p}) = Cardinality(A) + 1
    BY <2>1, <2>2, <2>3, <2>4, FS_AddElement
  <2>6. Cardinality(A \cup {p}) <= Cardinality(B)
    BY <2>4, <2>5, FS_Subset
  <2>7. Cardinality(A) = 1
    <3>1. Unread(sl[i]) = 1
      BY <1>6 DEF Unread
    <3> QED
      BY <1>2, <3>1 DEF A, Total
  <2>8. Cardinality(B) \in Nat /\ Cardinality(B) >= 2
    <3>1. Cardinality(B) \in Nat
      BY <2>4, FS_CardinalityType
    <3> QED
      BY <2>5, <2>6, <2>7, <3>1
  <2>9. Total(hd, Only(i)) \in Nat /\ HomeRefs(hm, td, i) \in Nat /\ SuperRefs(sup, AllMounts(td), i) \in Nat
    BY <1>1, <1>2, TotalIsNumber, RefsAreNumbers
  <2>10. PICK a \in Nat, b \in Nat, d \in Nat, m \in Nat :
          /\ a = Total(hd, Only(i)) /\ b = Total(td, Calls(i)) /\ b >= 2
          /\ d = HomeRefs(hm, td, i) /\ m = SuperRefs(sup, AllMounts(td), i)
    BY <2>8, <2>9 DEF B, Total
  <2>11. IsSum(1, a, b, d, m)
    BY <1>2, <1>6, <2>10
  <2>12. 1 >= b
    BY <2>11, SumBounds
  <2> QED
    BY <2>10, <2>12
<1> QED
  BY <1>5, <1>6

\* A micro-step of iput: what comes after it may be a homed or a clear.
LEMMA DropsAre ==
    ASSUME NEW kn, NEW td, NEW sl, NEW sup, NEW hm, NEW hd, NEW t, NEW x, NEW Q,
           About(kn, td, sl, sup, hm, hd, t, x, Q), Drops(x)
    PROVE  /\ Before(x, Q, Len(hd[t])) /\ Good(Q, Len(hd[t])) /\ Mounts(<<x>> \o Q) = Mounts(Q)
           /\ ClearFirst(Q) /\ (HasKind(Q, "clear") => ClearOf(x, Q[1], sup))
           /\ SameHomed(<<x>> \o Q, Q) /\ Gain(x[1]) = 0
<1>1. x \in Ops /\ Q \in Seq(Ops) /\ hd[t] \in Seq(Slots) /\ Len(hd[t]) \in Nat /\ Stack(<<x>> \o Q, hd[t], sup, kn, t)
  BY AboutIs
<1>2. Gain(x[1]) = 0 /\ ~IsMount(x) /\ x[1] # "homed"
  BY DEF Drops, Gain, IsMount, MountKinds
<1>3. /\ Before(x, Q, Len(hd[t])) /\ Good(Q, Len(hd[t]) + Gain(x[1]))
      /\ ClearFirst(Q) /\ (HasKind(Q, "clear") => ClearOf(x, Q[1], sup))
  BY <1>1, Popped
<1>4. Good(Q, Len(hd[t]))
  <2>1. Len(hd[t]) + Gain(x[1]) = Len(hd[t])
    BY <1>1, <1>2
  <2> QED
    BY <1>3, <2>1
<1>5. Mounts(<<x>> \o Q) = Mounts(Q)
  <2>1. Mounts(<<x>> \o Q) = (IF IsMount(x) THEN {x} ELSE {}) \cup Mounts(Q)
    BY <1>1, MountsAhead
  <2> QED
    BY <1>2, <2>1
<1>6. SameHomed(<<x>> \o Q, Q)
  <2> SUFFICES ASSUME NEW w \in Homes
               PROVE  Has(Q, <<"homed", w>>) <=> Has(<<x>> \o Q, <<"homed", w>>)
    BY DEF SameHomed
  <2>1. Has(<<x>> \o Q, <<"homed", w>>) <=> x = <<"homed", w>> \/ Has(Q, <<"homed", w>>)
    BY <1>1, HasAhead
  <2> QED
    BY <1>2, <2>1
<1> QED
  BY <1>2, <1>3, <1>4, <1>5, <1>6

LEMMA IputStep ==
    ASSUME NEW kn, NEW td, NEW sl, NEW sup, NEW hm, NEW hd, NEW t, NEW x, NEW Q,
           About(kn, td, sl, sup, hm, hd, t, x, Q), NEW i \in Slots, x = <<"iput", i>>,
           NEW kn2, NEW td2, NEW hd2, Leaves(td, td2, hd, hd2, t, kn2, <<<<"drop", i>>>> \o Q, hd[t])
    PROVE  IInvOf(kn2, td2, sl, sup, hm, hd2)
<1> DEFINE y == <<"drop", i>>
           new == <<y>> \o Q
           h == hd[t]
<1>1. /\ IInvOf(kn, td, sl, sup, hm, hd) /\ t \in Tasks /\ x \in Ops /\ Q \in Seq(Ops) /\ h \in Seq(Slots)
      /\ Len(h) \in Nat /\ SlotInv(sl) /\ Splits(<<x>> \o Q, x, Q)
      /\ \A S : Occ(Q, S) \in Nat /\ Occ(h, S) \in Nat
  BY AboutIs
<1>2. Drops(x) /\ Drops(y) /\ y \in Ops
  BY OpsOfKinds DEF Drops
<1>3. /\ Before(x, Q, Len(h)) /\ Good(Q, Len(h)) /\ Mounts(<<x>> \o Q) = Mounts(Q)
      /\ ClearFirst(Q) /\ (HasKind(Q, "clear") => ClearOf(x, Q[1], sup))
      /\ SameHomed(<<x>> \o Q, Q)
  BY <1>2, DropsAre
<1>4. Before(y, Q, Len(h)) /\ Len(h) + Gain(y[1]) = Len(h)
  <2>1. Needs(y[1]) = 0 /\ Gain(y[1]) = 0 /\ ~IsMount(y) /\ ~MayEnd(y) /\ y[1] \notin Finals
    BY DEF Needs, Gain, IsMount, MountKinds, MayEnd, Finals
  <2>2. Len(h) >= 0 /\ Len(h) + 0 = Len(h)
    BY <1>1
  <2> HIDE DEF y, h
  <2> QED
    BY <1>1, <1>2, <1>3, <2>1, <2>2 DEF Before, Above
<1>5. Good(new, Len(h))
  <2>1. Good(Q, Len(h) + Gain(y[1]))
    BY <1>3, <1>4
  <2> HIDE DEF y, h
  <2> QED
    BY <1>1, <1>2, <1>4, <2>1, GoodAhead
<1>6. HasKind(Q, "clear") => ClearOf(y, Q[1], sup)
  BY <1>3 DEF ClearOf, DropsOf
<1>7. ClearLate(new, sup, kn2, t)
  <2>1. y[1] # "clear"
    OBVIOUS
  <2> HIDE DEF y
  <2> QED
    BY <1>1, <1>2, <1>3, <1>6, <2>1, ClearAhead
<1>8. Stack(new, h, sup, kn2, t)
  BY <1>1, <1>5, <1>7 DEF Stack
<1>9. Mounts(new) = Mounts(Q)
  <2>1. Mounts(new) = (IF IsMount(y) THEN {y} ELSE {}) \cup Mounts(Q)
    BY <1>1, <1>2, MountsAhead
  <2>2. ~IsMount(y)
    BY DEF IsMount, MountKinds
  <2> QED
    BY <2>1, <2>2
<1>10. SameHomed(<<x>> \o Q, new)
  <2> SUFFICES ASSUME NEW w \in Homes
               PROVE  Has(new, <<"homed", w>>) <=> Has(<<x>> \o Q, <<"homed", w>>)
    BY DEF SameHomed
  <2>1. Has(new, <<"homed", w>>) <=> y = <<"homed", w>> \/ Has(Q, <<"homed", w>>)
    BY <1>1, <1>2, HasAhead
  <2>2. Has(Q, <<"homed", w>>) <=> Has(<<x>> \o Q, <<"homed", w>>)
    BY <1>3 DEF SameHomed
  <2> QED
    BY <2>1, <2>2
<1>11. Splits(new, y, Q)
  BY <1>1, <1>2, OccAhead DEF Splits
<1>12. Even(<<x>> \o Q, new, h, h)
  <2> SUFFICES ASSUME NEW j \in Slots
               PROVE  /\ Occ(<<x>> \o Q, Calls(j)) = Occ(new, Calls(j))
                      /\ Occ(new, Fills(j)) = Occ(<<x>> \o Q, Fills(j))
    BY DEF Even
  <2>1. In(x, Calls(j)) = In(y, Calls(j)) /\ In(x, Fills(j)) = 0 /\ In(y, Fills(j)) = 0
    BY InIs
  <2> QED
    BY <1>1, <1>11, <2>1 DEF Splits
<1>13. new \in Seq(Ops) /\ <<x>> \o Q \in Seq(Ops)
  BY <1>1, <1>2, Ahead
<1>14. Slotwise(sl, sl, <<x>> \o Q, new, h, h)
  <2> HIDE DEF new, h
  <2> QED
    BY <1>1, <1>12, <1>13, EvenSlots
<1>15. td2[t] = new /\ hd2[t] = h /\ td[t] = <<x>> \o Q
  BY DEF Leaves, About
<1>16. Executes(kn, kn2, t) /\ Goes(td, td2, hd, hd2, t)
  BY DEF Leaves, About, Executes, Goes
<1>17. FillsBalance(td, td2, sl, sl, t) /\ CountsTally(td, td2, sl, sl, hd, hd2, t)
  BY <1>14, <1>15 DEF Slotwise, FillsBalance, CountsTally
<1>18. Stack(td2[t], hd2[t], sup, kn2, t) /\ Mounts(td2[t]) = Mounts(td[t]) /\ SameHomed(td[t], td2[t])
  BY <1>3, <1>8, <1>9, <1>10, <1>15
<1> QED
  BY <1>1, <1>16, <1>17, <1>18, QuietStep

LEMMA DropStep ==
    ASSUME NEW kn, NEW td, NEW sl, NEW sup, NEW hm, NEW hd, NEW t, NEW x, NEW Q,
           About(kn, td, sl, sup, hm, hd, t, x, Q), NEW i \in Slots, x = <<"drop", i>>,
           sl[i].count = 1 => i # 1, NEW sl2, Release1(sl, sl2, i),
           NEW kn2, kn2 = t \/ Q = << >>,
           NEW td2, NEW hd2, Leaves(td, td2, hd, hd2, t, kn2, Q, hd[t])
    PROVE  IInvOf(kn2, td2, sl2, sup, hm, hd2)
<1> DEFINE h == hd[t]
<1>1. /\ IInvOf(kn, td, sl, sup, hm, hd) /\ t \in Tasks /\ x \in Ops /\ Q \in Seq(Ops) /\ h \in Seq(Slots)
      /\ Len(h) \in Nat /\ SlotInv(sl) /\ Splits(<<x>> \o Q, x, Q)
      /\ \A S : Occ(Q, S) \in Nat /\ Occ(h, S) \in Nat
  BY AboutIs
<1>2. Drops(x)
  BY DEF Drops
<1>3. /\ Good(Q, Len(h)) /\ Mounts(<<x>> \o Q) = Mounts(Q) /\ ClearFirst(Q) /\ SameHomed(<<x>> \o Q, Q)
  BY <1>2, DropsAre
<1>4. sl[i].count # 0 /\ (sl[i].count = 1 => Unread(sl[i]) = 0)
  BY LastIsRead
<1>5. SlotInv(sl2) /\ CountDown(sl, sl2, i) /\ UnreadSame(sl, sl2)
  BY <1>1, <1>4, MinusSlot
<1>6. ClearLate(Q, sup, kn2, t)
  <2>1. CASE kn2 = t
    BY <1>1, <1>3, <2>1, ClearAhead
  <2>2. CASE Q = << >>
    <3>1. Len(Q) = 0
      BY <2>2
    <3> QED
      BY <3>1 DEF ClearLate
  <2> QED
    BY <2>1, <2>2
<1>7. Stack(Q, h, sup, kn2, t)
  BY <1>1, <1>3, <1>6 DEF Stack
<1>8. Slotwise(sl, sl2, <<x>> \o Q, Q, h, h)
  <2> SUFFICES ASSUME NEW j \in Slots
               PROVE  /\ Tally(sl[j].count, sl2[j].count, Occ(h, Only(j)), Occ(h, Only(j)),
                               Occ(<<x>> \o Q, Calls(j)), Occ(Q, Calls(j)))
                      /\ Differs(Unread(sl[j]), Unread(sl2[j]), Occ(<<x>> \o Q, Fills(j)), Occ(Q, Fills(j)))
    BY DEF Slotwise
  <2>1. In(x, Calls(j)) = In(i, Only(j)) /\ In(x, Fills(j)) = 0 /\ In(i, Only(j)) \in Nat
    BY InIs
  <2>2. sl2[j].count + In(i, Only(j)) = sl[j].count /\ sl[j].count \in Nat /\ sl2[j].count \in Nat
    BY <1>1, <1>5 DEF CountDown, SlotInv, SlotRec
  <2>3. Unread(sl2[j]) = Unread(sl[j]) /\ Unread(sl[j]) \in Nat
    BY <1>5 DEF UnreadSame, Unread
  <2>4. /\ Occ(<<x>> \o Q, Calls(j)) = In(x, Calls(j)) + Occ(Q, Calls(j))
        /\ Occ(<<x>> \o Q, Fills(j)) = In(x, Fills(j)) + Occ(Q, Fills(j))
    BY <1>1 DEF Splits
  <2>5. Occ(h, Only(j)) \in Nat /\ Occ(Q, Calls(j)) \in Nat /\ Occ(Q, Fills(j)) \in Nat
    BY <1>1
  <2> HIDE DEF h
  <2>6. Tally(sl[j].count, sl2[j].count, Occ(h, Only(j)), Occ(h, Only(j)),
              Occ(<<x>> \o Q, Calls(j)), Occ(Q, Calls(j)))
    <3>1. PICK n \in Nat, n2 \in Nat, a \in Nat, b \in Nat, z \in Nat :
            /\ n = sl[j].count /\ n2 = sl2[j].count /\ a = Occ(h, Only(j)) /\ b = Occ(Q, Calls(j))
            /\ z = In(i, Only(j))
      BY <2>1, <2>2, <2>5
    <3>2. Occ(<<x>> \o Q, Calls(j)) = z + b
      BY <2>1, <2>4, <3>1
    <3>3. n2 + z = n
      BY <2>2, <3>1
    <3>4. n2 + a + (z + b) = n + a + b
      BY <3>3, OneGone
    <3> QED
      BY <3>1, <3>2, <3>4 DEF Tally
  <2>7. Differs(Unread(sl[j]), Unread(sl2[j]), Occ(<<x>> \o Q, Fills(j)), Occ(Q, Fills(j)))
    BY <2>1, <2>3, <2>4, <2>5 DEF Differs
  <2> QED
    BY <2>6, <2>7
<1>9. td2[t] = Q /\ hd2[t] = h /\ td[t] = <<x>> \o Q
  BY DEF Leaves, About
<1>10. Executes(kn, kn2, t) /\ Goes(td, td2, hd, hd2, t)
  BY DEF Leaves, About, Executes, Goes
<1>11. FillsBalance(td, td2, sl, sl2, t) /\ CountsTally(td, td2, sl, sl2, hd, hd2, t)
  BY <1>8, <1>9 DEF Slotwise, FillsBalance, CountsTally
<1>12. Stack(td2[t], hd2[t], sup, kn2, t) /\ Mounts(td2[t]) = Mounts(td[t]) /\ SameHomed(td[t], td2[t])
  BY <1>3, <1>7, <1>9
<1> QED
  BY <1>1, <1>5, <1>10, <1>11, <1>12, QuietStep

-----------------------------------------------------------------------------
(* A change of directory.                                                  *)

HomeIn(hm, td, t, w, i) == In(<<t, w>>, HomeSet(hm, td, i))
HomesDiffer(hm, hm2, t, w) ==
    \A x \in Tasks \X Homes : x # <<t, w>> => hm2[x[1]][x[2]] = hm[x[1]][x[2]]
HomedDiffer(old, new, w) == \A v \in Homes \ {w} : Has(new, <<"homed", v>>) <=> Has(old, <<"homed", v>>)

LEMMA HomeChange ==
    ASSUME NEW td, NEW t, NEW td2, Differ(td, td2, t), NEW hm, NEW hm2, NEW w, HomesDiffer(hm, hm2, t, w),
           HomedDiffer(td[t], td2[t], w), NEW i
    PROVE  /\ HomeRefs(hm2, td2, i) + HomeIn(hm, td, t, w, i) = HomeRefs(hm, td, i) + HomeIn(hm2, td2, t, w, i)
           /\ HomeRefs(hm, td, i) \in Nat /\ HomeRefs(hm2, td2, i) \in Nat
<1> DEFINE A == HomeSet(hm, td, i)
           B == HomeSet(hm2, td2, i)
           p == <<t, w>>
<1>1. IsFiniteSet(A)
  BY RefsAreNumbers
<1>2. ASSUME NEW x \in Tasks \X Homes, x # p
      PROVE  x \in A <=> x \in B
  <2>1. x[1] \in Tasks /\ x[2] \in Homes /\ x = <<x[1], x[2]>>
    OBVIOUS
  <2>2. hm2[x[1]][x[2]] = hm[x[1]][x[2]]
    BY <1>2 DEF HomesDiffer
  <2>3. Has(td2[x[1]], <<"homed", x[2]>>) <=> Has(td[x[1]], <<"homed", x[2]>>)
    <3>1. CASE x[1] = t
      <4>1. x[2] # w
        BY <1>2, <2>1, <3>1
      <4> QED
        BY <2>1, <3>1, <4>1 DEF HomedDiffer
    <3>2. CASE x[1] # t
      BY <2>1, <3>2 DEF Differ
    <3> QED
      BY <3>1, <3>2
  <2> QED
    BY <2>2, <2>3 DEF HomeSet
<1>3. \A x : x \in A \/ x \in B => x \in Tasks \X Homes
  BY DEF HomeSet
<1>4. \A x : x # p => (x \in A <=> x \in B)
  BY <1>2, <1>3
<1> HIDE DEF A, B, p
<1>5. Cardinality(A) \in Nat /\ Cardinality(B) \in Nat /\ Cardinality(B) + In(p, A) = Cardinality(A) + In(p, B)
  BY <1>1, <1>4, PointChange
<1> QED
  BY <1>5 DEF A, B, p, HomeRefs, HomeIn

\* The lists, the inodes of the task and the directory refer to an inode as often.
EvenHome(hm, hm2, td, td2, hd, hd2, t, w) ==
    \A i \in Slots :
        /\ Occ(hd[t], Only(i)) + Occ(td[t], Calls(i)) + HomeIn(hm, td, t, w, i)
           = Occ(hd2[t], Only(i)) + Occ(td2[t], Calls(i)) + HomeIn(hm2, td2, t, w, i)
        /\ Occ(td2[t], Fills(i)) = Occ(td[t], Fills(i))

LEMMA HomeSums ==
    ASSUME NEW n, NEW a \in Nat, NEW a2 \in Nat, NEW b \in Nat, NEW b2 \in Nat, NEW z \in Nat, NEW z2 \in Nat,
           NEW d \in Nat, NEW d2 \in Nat, NEW m \in Nat, n \in Nat,
           a + b + z = a2 + b2 + z2, d2 + z = d + z2
    PROVE  Balance(n, n, a, a2, b, b2, d, d2, m, m)
BY DEF Balance

LEMMA HomeStep ==
    ASSUME NEW kn, NEW td, NEW sl, NEW sup, NEW hm, NEW hd, IInvOf(kn, td, sl, sup, hm, hd),
           NEW t \in Tasks, NEW kn2, NEW td2, NEW hd2, NEW hm2, NEW w,
           Executes(kn, kn2, t), Goes(td, td2, hd, hd2, t), Stack(td2[t], hd2[t], sup, kn2, t),
           Mounts(td2[t]) = Mounts(td[t]), HomesOk(hm2), HomesDiffer(hm, hm2, t, w),
           HomedDiffer(td[t], td2[t], w), EvenHome(hm, hm2, td, td2, hd, hd2, t, w)
    PROVE  IInvOf(kn2, td2, sl, sup, hm2, hd2)
<1>1. /\ Lists(td, Ops) /\ Lists(hd, Slots)
      /\ SlotInv(sl) /\ \A u \in Tasks \ Mounters : Mounts(td[u]) = {}
      /\ SuperInv(sup) /\ Phase(AllMounts(td), sup)
  BY DEF IInvOf, Lists
<1>2. Lists(td2, Ops) /\ Lists(hd2, Slots) /\ Differ(td, td2, t)
  BY DEF Goes
<1>3. AllMounts(td2) = AllMounts(td)
  BY <1>2, SameMounts
<1>4. ASSUME NEW i \in Slots
      PROVE  Balance(sl[i].count, sl[i].count, Occ(hd[t], Only(i)), Occ(hd2[t], Only(i)),
                Occ(td[t], Calls(i)), Occ(td2[t], Calls(i)), HomeRefs(hm, td, i), HomeRefs(hm2, td2, i),
                SuperRefs(sup, AllMounts(td), i), SuperRefs(sup, AllMounts(td2), i))
  <2>1. Occ(hd[t], Only(i)) + Occ(td[t], Calls(i)) + HomeIn(hm, td, t, w, i)
           = Occ(hd2[t], Only(i)) + Occ(td2[t], Calls(i)) + HomeIn(hm2, td2, t, w, i)
    BY DEF EvenHome
  <2>2. /\ Occ(td[t], Calls(i)) \in Nat /\ Occ(td2[t], Calls(i)) \in Nat
        /\ Occ(hd[t], Only(i)) \in Nat /\ Occ(hd2[t], Only(i)) \in Nat
    BY <1>1, <1>2, TotalIsNumber
  <2>3. /\ HomeRefs(hm2, td2, i) + HomeIn(hm, td, t, w, i) = HomeRefs(hm, td, i) + HomeIn(hm2, td2, t, w, i)
        /\ HomeRefs(hm, td, i) \in Nat /\ HomeRefs(hm2, td2, i) \in Nat
    BY <1>2, HomeChange
  <2>4. HomeIn(hm, td, t, w, i) \in Nat /\ HomeIn(hm2, td2, t, w, i) \in Nat
    BY InIs DEF HomeIn
  <2>5. sl[i].count \in Nat /\ SuperRefs(sup, AllMounts(td), i) \in Nat
    BY <1>1, RefsAreNumbers DEF SlotInv, SlotRec
  <2>6. Balance(sl[i].count, sl[i].count, Occ(hd[t], Only(i)), Occ(hd2[t], Only(i)),
                Occ(td[t], Calls(i)), Occ(td2[t], Calls(i)), HomeRefs(hm, td, i), HomeRefs(hm2, td2, i),
                SuperRefs(sup, AllMounts(td), i), SuperRefs(sup, AllMounts(td), i))
    BY <2>1, <2>2, <2>3, <2>4, <2>5, HomeSums
  <2> QED
    BY <1>3, <2>6
<1>5. KeepsOut(td2, t) /\ NoneClears(td, sup, sup, t)
  BY <1>1 DEF KeepsOut, NoneClears
<1>6. Phase(AllMounts(td2), sup)
  BY <1>1, <1>3
<1>7. CountsBalance(td, td2, sl, sl, sup, sup, hm, hm2, hd, hd2, t)
  BY <1>4 DEF CountsBalance
<1>8. FillsBalance(td, td2, sl, sl, t)
  BY DEF FillsBalance, EvenHome, Differs
<1> QED
  BY <1>1, <1>5, <1>6, <1>7, <1>8, Moves

LEMMA ChdirStep ==
    ASSUME NEW kn, NEW td, NEW sl, NEW sup, NEW hm, NEW hd, NEW t, NEW x, NEW Q,
           About(kn, td, sl, sup, hm, hd, t, x, Q), NEW w \in Homes, x = <<"chdir", w>>,
           NEW kn2, NEW td2, NEW hd2,
           Leaves(td, td2, hd, hd2, t, kn2, <<<<"iput", hm[t][w]>>>> \o (<<<<"homed", w>>>> \o Q), hd[t])
    PROVE  IInvOf(kn2, td2, sl, sup, hm, hd2)
<1> DEFINE h == hd[t]
           y == <<"iput", hm[t][w]>>
           z == <<"homed", w>>
           one == <<z>> \o Q
           new == <<y>> \o one
           old == <<x>> \o Q
<1>1. x[1] = "chdir" /\ ~Drops(x) /\ Gain(x[1]) = -1 /\ Needs(x[1]) = 1 /\ x[1] \in Finals
      /\ ~IsMount(x)
  BY DEF Drops, Gain, Needs, Finals, IsMount, MountKinds
<1>2. /\ IInvOf(kn, td, sl, sup, hm, hd) /\ t \in Tasks /\ Q \in Seq(Ops) /\ h \in Seq(Slots) /\ Len(h) \in Nat
      /\ Len(h) >= 1 /\ Len(h) + -1 \in Nat /\ Stack(<<x>> \o Q, h, sup, kn, t) /\ x \in Ops
  BY <1>1, AboutIs
<1>3. /\ Calm(Q, Len(h) + -1) /\ Mounts(Q) = {} /\ ~HasKind(Q, "homed") /\ ~HasKind(Q, "clear")
      /\ \A S : Occ(Q, S) = 0
      /\ \A v : ~Has(Q, v)
  <2>1. Q = << >>
    BY <1>1, <1>2, Popped DEF Before
  <2> QED
    BY <1>2, <2>1, NothingLeft, CalmNothing DEF Has
<1>4. y \in Ops /\ z \in Ops
  <2>1. hm[t][w] \in Slots
    BY <1>2 DEF IInvOf
  <2> QED
    BY <2>1, OpsOfKinds
<1>5. td[t] = old /\ td2[t] = new /\ hd2[t] = h
  BY DEF About, Leaves
<1>6. one \in Seq(Ops) /\ new \in Seq(Ops) /\ old \in Seq(Ops)
  BY <1>2, <1>4, Ahead
<1>7. Stack(new, h, sup, kn2, t)
  <2>1. Good(one, Len(h))
    <3>1. Needs(z[1]) = 1 /\ Gain(z[1]) = -1 /\ ~IsMount(z) /\ ~MayEnd(z) /\ z[1] \notin Finals
      BY DEF Needs, Gain, IsMount, MountKinds, MayEnd, Finals
    <3>2. Good(Q, Len(h) + Gain(z[1]))
      BY <1>3, <3>1 DEF Calm
    <3>3. HomedFirst(Q)
      BY <1>3 DEF HomedFirst, HasKind
    <3>4. Before(z, Q, Len(h))
      BY <1>2, <1>3, <1>4, <3>1, <3>3 DEF Before, Above
    <3> HIDE DEF z, h
    <3> QED
      BY <1>2, <1>4, <1>6, <3>2, <3>4, GoodAhead
  <2>2. Needs(y[1]) = 0 /\ Gain(y[1]) = 0 /\ ~IsMount(y) /\ ~MayEnd(y) /\ y[1] \notin Finals /\ Drops(y)
    BY DEF Needs, Gain, IsMount, MountKinds, MayEnd, Finals, Drops
  <2>3. HomedFirst(one)
    <3> HIDE DEF z
    <3> QED
      BY <1>2, <1>3, <1>4, HomedAhead
  <2>4. Len(h) + 0 = Len(h) /\ Len(h) >= 0
    BY <1>2
  <2>5. Before(y, one, Len(h))
    <3> HIDE DEF one, y, h
    <3> QED
      BY <1>2, <1>4, <2>2, <2>3, <2>4 DEF Before, Above
  <2>6. Good(new, Len(h))
    <3>1. Good(one, Len(h) + Gain(y[1]))
      BY <2>1, <2>2, <2>4
    <3> HIDE DEF one, y, h
    <3> QED
      BY <1>2, <1>4, <1>6, <2>5, <3>1, GoodAhead
  <2>7. ClearLate(new, sup, kn2, t)
    <3>1. y[1] # "clear" /\ z[1] # "clear"
      OBVIOUS
    <3>2. ~HasKind(one, "clear")
      <4> HIDE DEF z, y
      <4> QED
        BY <1>2, <1>3, <1>4, <3>1, HasAhead
    <3>3. ~HasKind(new, "clear")
      <4> HIDE DEF one, y
      <4> QED
        BY <1>4, <1>6, <3>1, <3>2, HasAhead
    <3> HIDE DEF new
    <3> QED
      BY <3>3 DEF ClearLate, HasKind
  <2> HIDE DEF new
  <2> QED
    BY <1>2, <2>6, <2>7 DEF Stack
<1>8. Mounts(new) = {} /\ Mounts(old) = {}
  <2>1. ~IsMount(y) /\ ~IsMount(z)
    BY DEF IsMount, MountKinds
  <2>2. Mounts(one) = {}
    <3> HIDE DEF z
    <3> QED
      BY <1>2, <1>3, <1>4, <2>1, MountsAhead
  <2>3. Mounts(new) = {}
    <3> HIDE DEF one, y
    <3> QED
      BY <1>4, <1>6, <2>1, <2>2, MountsAhead
  <2>4. Mounts(old) = (IF IsMount(x) THEN {x} ELSE {}) \cup Mounts(Q)
    BY <1>2, MountsAhead
  <2>5. Mounts(old) = {}
    BY <1>1, <1>3, <2>4
  <2> QED
    BY <2>3, <2>5
<1>9. /\ \A v : Has(new, <<"homed", v>>) <=> v = w
      /\ \A v : ~Has(old, <<"homed", v>>)
  <2> SUFFICES ASSUME NEW v
               PROVE  (Has(new, <<"homed", v>>) <=> v = w) /\ ~Has(old, <<"homed", v>>)
    OBVIOUS
  <2>1. /\ y # <<"homed", v>> /\ (z = <<"homed", v>> <=> v = w) /\ x # <<"homed", v>>
    OBVIOUS
  <2>2. Has(one, <<"homed", v>>) <=> v = w
    <3> HIDE DEF z
    <3> QED
      BY <1>2, <1>3, <1>4, <2>1, HasAhead
  <2>3. Has(new, <<"homed", v>>) <=> v = w
    <3> HIDE DEF one, y
    <3> QED
      BY <1>4, <1>6, <2>1, <2>2, HasAhead
  <2>4. ~Has(old, <<"homed", v>>)
    BY <1>2, <1>3, <2>1, HasAhead
  <2> QED
    BY <2>3, <2>4
<1>10. ASSUME NEW i \in Slots
       PROVE  /\ Occ(new, Calls(i)) = In(hm[t][w], Only(i)) /\ Occ(old, Calls(i)) = 0
              /\ Occ(new, Fills(i)) = 0 /\ Occ(old, Fills(i)) = 0
              /\ HomeIn(hm, td, t, w, i) = In(hm[t][w], Only(i)) /\ HomeIn(hm, td2, t, w, i) = 0
  <2>1. /\ In(y, Calls(i)) = In(hm[t][w], Only(i)) /\ In(z, Calls(i)) = 0 /\ In(x, Calls(i)) = 0
        /\ In(y, Fills(i)) = 0 /\ In(z, Fills(i)) = 0 /\ In(x, Fills(i)) = 0
    BY InIs
  <2>2. In(hm[t][w], Only(i)) \in Nat
    BY InIs
  <2>3. <<t, w>> \in HomeSet(hm, td, i) <=> hm[t][w] = i
    BY <1>2, <1>5, <1>9 DEF HomeSet
  <2>4. <<t, w>> \notin HomeSet(hm, td2, i)
    BY <1>5, <1>9 DEF HomeSet
  <2>5. HomeIn(hm, td, t, w, i) = In(hm[t][w], Only(i)) /\ HomeIn(hm, td2, t, w, i) = 0
    BY <2>3, <2>4 DEF HomeIn, In, Only
  <2>6. \A S : Occ(old, S) = In(x, S) + Occ(Q, S)
    BY <1>2, OccAhead
  <2>7. \A S : Occ(one, S) = In(z, S) + Occ(Q, S)
    <3> HIDE DEF z
    <3> QED
      BY <1>2, <1>4, OccAhead
  <2>8. \A S : Occ(new, S) = In(y, S) + Occ(one, S)
    <3> HIDE DEF one, y
    <3> QED
      BY <1>4, <1>6, OccAhead
  <2> HIDE DEF one, y, new, old, z
  <2>9. Occ(one, Calls(i)) = 0 /\ Occ(one, Fills(i)) = 0
    BY <1>3, <2>1, <2>7
  <2>10. Occ(old, Calls(i)) = 0 /\ Occ(old, Fills(i)) = 0
    BY <1>3, <2>1, <2>6
  <2>11. Occ(new, Calls(i)) = In(hm[t][w], Only(i)) /\ Occ(new, Fills(i)) = 0
    BY <2>1, <2>2, <2>8, <2>9
  <2> QED
    BY <2>5, <2>10, <2>11
<1>11. EvenHome(hm, hm, td, td2, hd, hd2, t, w)
  <2> SUFFICES ASSUME NEW i \in Slots
               PROVE  /\ Occ(hd[t], Only(i)) + Occ(td[t], Calls(i)) + HomeIn(hm, td, t, w, i)
                         = Occ(hd2[t], Only(i)) + Occ(td2[t], Calls(i)) + HomeIn(hm, td2, t, w, i)
                      /\ Occ(td2[t], Fills(i)) = Occ(td[t], Fills(i))
    BY DEF EvenHome
  <2>1. Occ(h, Only(i)) \in Nat /\ In(hm[t][w], Only(i)) \in Nat
    BY <1>2, WhereIsFinite, InIs
  <2> HIDE DEF new, h
  <2>2. PICK a \in Nat, b \in Nat : a = Occ(h, Only(i)) /\ b = In(hm[t][w], Only(i))
    BY <2>1
  <2>3. a + 0 + b = a + b + 0
    OBVIOUS
  <2>4. Occ(hd[t], Only(i)) = a /\ Occ(hd2[t], Only(i)) = a
    BY <1>5, <2>2 DEF h
  <2>5. /\ Occ(td[t], Calls(i)) = 0 /\ Occ(td2[t], Calls(i)) = b /\ Occ(td2[t], Fills(i)) = Occ(td[t], Fills(i))
        /\ HomeIn(hm, td, t, w, i) = b /\ HomeIn(hm, td2, t, w, i) = 0
    BY <1>5, <1>10, <2>2
  <2> QED
    BY <2>3, <2>4, <2>5
<1> HIDE DEF new, old
<1>12. HomesOk(hm) /\ HomesDiffer(hm, hm, t, w) /\ HomedDiffer(td[t], td2[t], w)
  BY <1>2, <1>5, <1>9 DEF IInvOf, HomesOk, HomesDiffer, HomedDiffer
<1>13. Executes(kn, kn2, t) /\ Goes(td, td2, hd, hd2, t)
  BY DEF Leaves, About, Executes, Goes
<1>14. Mounts(td2[t]) = Mounts(td[t]) /\ Stack(td2[t], hd2[t], sup, kn2, t)
  BY <1>5, <1>7, <1>8
<1> HIDE DEF h, new, old, one, y, z
<1> QED
  BY <1>2, <1>11, <1>12, <1>13, <1>14, HomeStep

\* The directory is replaced.
Moved(hm, hm2, t, w, i) == hm2 = [hm EXCEPT ![t][w] = i]

LEMMA HomedStep ==
    ASSUME NEW kn, NEW td, NEW sl, NEW sup, NEW hm, NEW hd, NEW t, NEW x, NEW Q,
           About(kn, td, sl, sup, hm, hd, t, x, Q), NEW w \in Homes, x = <<"homed", w>>,
           NEW i0 \in Slots, i0 = hd[t][Len(hd[t])], NEW hm2, Moved(hm, hm2, t, w, i0),
           NEW kn2, NEW td2, NEW hd2, Leaves(td, td2, hd, hd2, t, kn2, Q, Cut(hd[t], 1))
    PROVE  IInvOf(kn2, td2, sl, sup, hm2, hd2)
<1>1. x[1] = "homed" /\ ~Drops(x) /\ Gain(x[1]) = -1 /\ Needs(x[1]) = 1 /\ ~IsMount(x)
  BY DEF Drops, Gain, Needs, IsMount, MountKinds
<1>2. /\ IInvOf(kn, td, sl, sup, hm, hd) /\ t \in Tasks /\ Q \in Seq(Ops) /\ hd[t] \in Seq(Slots)
      /\ Len(hd[t]) \in Nat /\ x \in Ops /\ Splits(<<x>> \o Q, x, Q)
      /\ Len(hd[t]) >= 1 /\ Calm(Q, Len(hd[t]) + -1)
  BY <1>1, AboutIs
<1>3. PICK g \in Seq(Slots) : g = Cut(hd[t], 1) /\ Len(g) = Len(hd[t]) - 1 /\ Sheds(hd[t], g, i0)
  BY <1>2, CutTop
<1>4. Calm(Q, Len(g))
  <2>1. Len(g) = Len(hd[t]) + -1
    BY <1>2, <1>3
  <2> QED
    BY <1>2, <2>1
<1>5. td[t] = <<x>> \o Q /\ td2[t] = Q /\ hd2[t] = g
  BY <1>3 DEF About, Leaves
<1>6. Stack(td2[t], hd2[t], sup, kn2, t)
  BY <1>4, <1>5, CalmStack
<1>7. Mounts(td2[t]) = Mounts(td[t])
  <2>1. Mounts(<<x>> \o Q) = (IF IsMount(x) THEN {x} ELSE {}) \cup Mounts(Q)
    BY <1>2, MountsAhead
  <2> QED
    BY <1>1, <1>5, <2>1
<1>8. \A v : ~Has(Q, <<"homed", v>>) /\ (Has(<<x>> \o Q, <<"homed", v>>) <=> v = w)
  <2> SUFFICES ASSUME NEW v
               PROVE  ~Has(Q, <<"homed", v>>) /\ (Has(<<x>> \o Q, <<"homed", v>>) <=> v = w)
    OBVIOUS
  <2>1. ~Has(Q, <<"homed", v>>)
    BY <1>2 DEF Calm, Has, HasKind
  <2>2. Has(<<x>> \o Q, <<"homed", v>>) <=> x = <<"homed", v>> \/ Has(Q, <<"homed", v>>)
    BY <1>2, HasAhead
  <2> QED
    BY <2>1, <2>2
<1>9. /\ HomesOk(hm) /\ HomesOk(hm2) /\ HomesDiffer(hm, hm2, t, w) /\ hm2[t][w] = i0
  <2>1. hm \in [Tasks -> [Homes -> Slots]]
    BY <1>2 DEF IInvOf
  <2>2. hm2 = [hm EXCEPT ![t] = [hm[t] EXCEPT ![w] = i0]]
    BY <2>1 DEF Moved
  <2>3. hm[t] \in [Homes -> Slots]
    BY <1>2, <2>1
  <2>4. [hm[t] EXCEPT ![w] = i0] \in [Homes -> Slots] /\ [hm[t] EXCEPT ![w] = i0][w] = i0
    BY <2>3
  <2>5. hm2 \in [Tasks -> [Homes -> Slots]] /\ hm2[t][w] = i0
    BY <1>2, <2>1, <2>2, <2>4
  <2>6. ASSUME NEW y \in Tasks \X Homes, y # <<t, w>>
        PROVE  hm2[y[1]][y[2]] = hm[y[1]][y[2]]
    <3>1. y[1] \in Tasks /\ y[2] \in Homes /\ y = <<y[1], y[2]>>
      OBVIOUS
    <3>2. CASE y[1] = t
      <4>1. y[2] # w
        BY <2>6, <3>1, <3>2
      <4>2. [hm[t] EXCEPT ![w] = i0][y[2]] = hm[t][y[2]]
        BY <2>3, <3>1, <4>1
      <4>3. hm2[t] = [hm[t] EXCEPT ![w] = i0]
        BY <1>2, <2>1, <2>2
      <4> QED
        BY <3>2, <4>2, <4>3
    <3>3. CASE y[1] # t
      BY <2>1, <2>2, <3>1, <3>3
    <3> QED
      BY <3>2, <3>3
  <2> QED
    BY <2>1, <2>5, <2>6 DEF HomesOk, HomesDiffer
<1>10. EvenHome(hm, hm2, td, td2, hd, hd2, t, w)
  <2> SUFFICES ASSUME NEW i \in Slots
               PROVE  /\ Occ(hd[t], Only(i)) + Occ(td[t], Calls(i)) + HomeIn(hm, td, t, w, i)
                         = Occ(hd2[t], Only(i)) + Occ(td2[t], Calls(i)) + HomeIn(hm2, td2, t, w, i)
                      /\ Occ(td2[t], Fills(i)) = Occ(td[t], Fills(i))
    BY DEF EvenHome
  <2>1. <<x>> \o Q \in Seq(Ops) /\ x[1] \notin {"iput", "drop", "fill"}
    BY <1>2, Ahead
  <2>2. Occ(<<x>> \o Q, Calls(i)) = Occ(Q, Calls(i)) /\ Occ(<<x>> \o Q, Fills(i)) = Occ(Q, Fills(i))
    BY <1>2, <2>1, PlainSplit
  <2>3. <<t, w>> \notin HomeSet(hm, td, i)
    BY <1>5, <1>8 DEF HomeSet
  <2>4. <<t, w>> \in HomeSet(hm2, td2, i) <=> i0 = i
    BY <1>2, <1>5, <1>8, <1>9 DEF HomeSet
  <2>5. HomeIn(hm, td, t, w, i) = 0 /\ HomeIn(hm2, td2, t, w, i) = In(i0, Only(i))
    BY <2>3, <2>4 DEF HomeIn, In, Only
  <2>6. Occ(g, Only(i)) + In(i0, Only(i)) = Occ(hd[t], Only(i))
    BY <1>3 DEF Sheds
  <2>7. PICK a \in Nat, b \in Nat, z \in Nat : a = Occ(g, Only(i)) /\ b = Occ(Q, Calls(i)) /\ z = In(i0, Only(i))
    BY <1>2, WhereIsFinite, InIs
  <2>8. Occ(hd[t], Only(i)) = a + z
    BY <2>6, <2>7
  <2>9. (a + z) + b + 0 = a + b + z
    OBVIOUS
  <2>10. /\ Occ(td[t], Calls(i)) = b /\ HomeIn(hm, td, t, w, i) = 0 /\ Occ(hd2[t], Only(i)) = a
         /\ Occ(td2[t], Calls(i)) = b /\ HomeIn(hm2, td2, t, w, i) = z
         /\ Occ(td2[t], Fills(i)) = Occ(td[t], Fills(i))
    BY <1>5, <2>2, <2>5, <2>7
  <2> QED
    BY <2>8, <2>9, <2>10
<1>11. HomedDiffer(td[t], td2[t], w)
  BY <1>5, <1>8 DEF HomedDiffer
<1>12. Executes(kn, kn2, t) /\ Goes(td, td2, hd, hd2, t)
  BY DEF Leaves, About, Executes, Goes
<1> QED
  BY <1>2, <1>6, <1>7, <1>9, <1>10, <1>11, <1>12, HomeStep

-----------------------------------------------------------------------------
(* The calls.                                                              *)

Rests(kn, td, sl, sup, hm, hd, t) ==
    IInvOf(kn, td, sl, sup, hm, hd) /\ t \in Tasks /\ kn \in {t, None} /\ td[t] = << >>

LEMMA RestsIs ==
    ASSUME NEW kn, NEW td, NEW sl, NEW sup, NEW hm, NEW hd, NEW t, Rests(kn, td, sl, sup, hm, hd, t)
    PROVE  /\ IInvOf(kn, td, sl, sup, hm, hd) /\ t \in Tasks /\ hd[t] \in Seq(Slots) /\ Len(hd[t]) \in Nat
           /\ SlotInv(sl) /\ SuperInv(sup) /\ Mounts(td[t]) = {} /\ ~HasKind(td[t], "homed")
           /\ (\A S : Occ(td[t], S) = 0) /\ td[t] \in Seq(Ops)
<1>1. IInvOf(kn, td, sl, sup, hm, hd) /\ t \in Tasks /\ td[t] = << >>
  BY DEF Rests
<1>2. hd[t] \in Seq(Slots) /\ SlotInv(sl) /\ SuperInv(sup) /\ td[t] \in Seq(Ops)
  BY <1>1 DEF IInvOf
<1>3. Len(hd[t]) \in Nat
  BY <1>2, LenProperties
<1> QED
  BY <1>1, <1>2, <1>3, NothingLeft

\* A call that begins without touching inode_table.
LEMMA CallStep ==
    ASSUME NEW kn, NEW td, NEW sl, NEW sup, NEW hm, NEW hd, NEW t, Rests(kn, td, sl, sup, hm, hd, t),
           NEW kn2, NEW td2, NEW sl2, NEW hd2, NEW new, NEW h2,
           Leaves(td, td2, hd, hd2, t, kn2, new, h2), Calm(new, Len(h2)), Mounts(new) = {},
           SlotInv(sl2), Slotwise(sl, sl2, td[t], new, hd[t], h2)
    PROVE  IInvOf(kn2, td2, sl2, sup, hm, hd2)
<1>1. /\ IInvOf(kn, td, sl, sup, hm, hd) /\ t \in Tasks /\ Mounts(td[t]) = {} /\ ~HasKind(td[t], "homed")
  BY RestsIs
<1>2. td2[t] = new /\ hd2[t] = h2
  BY DEF Leaves
<1>3. h2 \in Seq(Slots)
  BY <1>1 DEF Leaves, Lists
<1>4. Stack(td2[t], hd2[t], sup, kn2, t)
  BY <1>2, <1>3, CalmStack
<1>5. Mounts(td2[t]) = Mounts(td[t])
  BY <1>1, <1>2
<1>6. SameHomed(td[t], td2[t])
  BY <1>1, <1>2 DEF SameHomed, Calm, HasKind, Has
<1>7. FillsBalance(td, td2, sl, sl2, t) /\ CountsTally(td, td2, sl, sl2, hd, hd2, t)
  BY <1>2 DEF Slotwise, FillsBalance, CountsTally
<1>8. Executes(kn, kn2, t) /\ Goes(td, td2, hd, hd2, t)
  BY DEF Rests, Leaves, Executes, Goes
<1> QED
  BY <1>1, <1>4, <1>5, <1>6, <1>7, <1>8, QuietStep

\* What comes after a lookup: nothing, or one micro-step.
LEMMA FinalAlone ==
    ASSUME NEW op \in Ops, op[1] \in Finals, NEW n \in Nat, n >= Needs(op[1]), n + Gain(op[1]) \in Nat,
           NEW nil, nil = << >>, NEW q, q = <<op>> \o nil
    PROVE  /\ Calm(q, n) /\ Ending(q) /\ q \in Seq(Ops)
           /\ Mounts(q) = (IF IsMount(op) THEN {op} ELSE {})
           /\ \A S : Occ(q, S) = In(op, S)
<1>1. /\ nil \in Seq(Ops) /\ Mounts(nil) = {} /\ (\A S : Occ(nil, S) = 0) /\ Calm(nil, n + Gain(op[1])) /\ Len(nil) = 0
  BY NothingLeft, CalmNothing
<1>2. op[1] # "homed" /\ op[1] # "clear" /\ ~MayEnd(op)
  BY DEF Finals, MayEnd
<1>3. Fit(op, nil, n)
  BY <1>1, <1>2 DEF Fit, Above
<1>4. /\ Calm(q, n) /\ Mounts(q) = (IF IsMount(op) THEN {op} ELSE {}) \cup Mounts(nil)
      /\ Splits(q, op, nil)
  BY <1>1, <1>3, CalmAhead
<1>5. q \in Seq(Ops)
  BY <1>1, Ahead
<1>6. Ending(q)
  <2>1. Len(q) = 1 /\ q[1] = op
    BY <1>1, Ahead
  <2> QED
    BY <2>1 DEF Ending
<1>7. \A S : Occ(q, S) = In(op, S)
  <2> TAKE S
  <2>1. Occ(q, S) = In(op, S) + Occ(nil, S)
    BY <1>4 DEF Splits
  <2> QED
    BY <1>1, <2>1, InIs
<1> QED
  BY <1>1, <1>4, <1>5, <1>6, <1>7

LEMMA LookupIs ==
    ASSUME NEW path \in Paths \cup Specials, NEW n \in Nat, NEW q, Calm(q, n + 1), Ending(q)
    PROVE  /\ Calm(Resolve(path) \o q, n) /\ Mounts(Resolve(path) \o q) = Mounts(q)
           /\ \A i : /\ Occ(Resolve(path) \o q, Calls(i)) = Occ(q, Calls(i))
                     /\ Occ(Resolve(path) \o q, Fills(i)) = Occ(q, Fills(i))
<1>1. /\ Good(Resolve(path) \o q, n)
      /\ Mounts(Resolve(path) \o q) = Mounts(q)
      /\ ~HasKind(Resolve(path) \o q, "clear") /\ ~HasKind(Resolve(path) \o q, "homed")
  BY ResolveAhead DEF Calm
<1>2. ASSUME NEW i
      PROVE  /\ Occ(Resolve(path) \o q, Calls(i)) = Occ(q, Calls(i))
             /\ Occ(Resolve(path) \o q, Fills(i)) = Occ(q, Fills(i))
  <2>1. (\A op \in Calls(i) : ~Plain(op)) /\ (\A op \in Fills(i) : ~Plain(op))
    BY DEF Calls, Fills, Plain
  <2> QED
    BY <2>1, ResolveAhead DEF Calm
<1> QED
  BY <1>1, <1>2 DEF Calm

\* A lookup that is the whole call, or after which the directory changes.
LEMMA OpenStep ==
    ASSUME NEW kn, NEW td, NEW sl, NEW sup, NEW hm, NEW hd, NEW t, Rests(kn, td, sl, sup, hm, hd, t),
           NEW path \in Paths \cup Specials, NEW q, Calm(q, Len(hd[t]) + 1), Ending(q), Mounts(q) = {},
           \A i : Occ(q, Calls(i)) = 0 /\ Occ(q, Fills(i)) = 0,
           NEW kn2, NEW td2, NEW hd2,
           Leaves(td, td2, hd, hd2, t, kn2, Resolve(path) \o q, hd[t])
    PROVE  IInvOf(kn2, td2, sl, sup, hm, hd2)
<1> DEFINE new == Resolve(path) \o q
<1>1. /\ IInvOf(kn, td, sl, sup, hm, hd) /\ t \in Tasks /\ hd[t] \in Seq(Slots) /\ Len(hd[t]) \in Nat
      /\ SlotInv(sl) /\ (\A S : Occ(td[t], S) = 0) /\ td[t] \in Seq(Ops)
  BY RestsIs
<1>2. /\ Calm(new, Len(hd[t])) /\ Mounts(new) = {}
      /\ \A i : Occ(new, Calls(i)) = 0 /\ Occ(new, Fills(i)) = 0
  BY <1>1, LookupIs
<1> HIDE DEF new
<1>3. Even(td[t], new, hd[t], hd[t])
  BY <1>1, <1>2 DEF Even
<1>4. new \in Seq(Ops)
  BY <1>2 DEF Calm, Good
<1>5. Slotwise(sl, sl, td[t], new, hd[t], hd[t])
  BY <1>1, <1>3, <1>4, EvenSlots
<1> QED
  BY <1>1, <1>2, <1>5, CallStep DEF new

LEMMA CloseStep ==
    ASSUME NEW kn, NEW td, NEW sl, NEW sup, NEW hm, NEW hd, NEW t, Rests(kn, td, sl, sup, hm, hd, t),
           NEW k \in 1 .. Len(hd[t]), NEW q, q = << >>,
           NEW kn2, NEW td2, NEW hd2,
           Leaves(td, td2, hd, hd2, t, kn2, <<<<"iput", hd[t][k]>>>> \o q, RemoveAt(hd[t], k))
    PROVE  IInvOf(kn2, td2, sl, sup, hm, hd2)
<1>1. /\ IInvOf(kn, td, sl, sup, hm, hd) /\ t \in Tasks /\ hd[t] \in Seq(Slots) /\ Len(hd[t]) \in Nat
      /\ SlotInv(sl) /\ (\A S : Occ(td[t], S) = 0) /\ td[t] \in Seq(Ops)
  BY RestsIs
<1>2. td[t] = q
  BY DEF Rests
<1>3. PICK g \in Seq(Slots) : g = RemoveAt(hd[t], k) /\ Len(g) = Len(hd[t]) - 1 /\ Sheds(hd[t], g, hd[t][k])
  BY <1>1, OneLess DEF Sheds
<1>4. PICK i \in Slots : i = hd[t][k]
  BY <1>1
<1>5. Len(g) \in Nat
  BY LenProperties
<1>6. Calm(q, Len(g)) /\ Mounts(q) = {}
  BY <1>1, <1>2, <1>5, NothingLeft, CalmNothing
<1> DEFINE new == <<<<"iput", i>>>> \o q
<1>7. Calm(new, Len(g)) /\ Mounts(new) = Mounts(q) /\ Even(q, new, hd[t], g)
  BY <1>1, <1>2, <1>3, <1>4, <1>6, LetGo
<1>8. new \in Seq(Ops)
  BY <1>7 DEF Calm, Good
<1>9. Leaves(td, td2, hd, hd2, t, kn2, new, g)
  BY <1>3, <1>4
<1> HIDE DEF new
<1>10. Slotwise(sl, sl, td[t], new, hd[t], g)
  BY <1>1, <1>2, <1>7, <1>8, EvenSlots
<1> QED
  BY <1>1, <1>6, <1>7, <1>9, <1>10, CallStep

LEMMA PipeStep ==
    ASSUME NEW kn, NEW td, NEW sl, NEW sup, NEW hm, NEW hd, NEW t, Rests(kn, td, sl, sup, hm, hd, t),
           NEW i \in Slots, sl[i].dev = None, NEW sl2, Pipes(sl, sl2, i),
           NEW kn2, NEW hd2, Leaves(td, td, hd, hd2, t, kn2, td[t], Append(Append(hd[t], i), i))
    PROVE  IInvOf(kn2, td, sl2, sup, hm, hd2)
<1> DEFINE h == hd[t]
           h1 == Append(h, i)
           h2 == Append(h1, i)
<1>1. /\ IInvOf(kn, td, sl, sup, hm, hd) /\ t \in Tasks /\ h \in Seq(Slots) /\ Len(h) \in Nat
      /\ SlotInv(sl) /\ (\A S : Occ(td[t], S) = 0) /\ td[t] \in Seq(Ops) /\ Mounts(td[t]) = {}
  BY RestsIs
<1>2. SlotInv(sl2) /\ CountUp(sl, sl2, i, 2) /\ UnreadSame(sl, sl2)
  BY <1>1, PipeSlot
<1>3. h1 \in Seq(Slots) /\ \A S : Occ(h1, S) = Occ(h, S) + In(i, S)
  BY <1>1, OneMore
<1>4. h2 \in Seq(Slots) /\ \A S : Occ(h2, S) = Occ(h1, S) + In(i, S)
  <2> HIDE DEF h1
  <2> QED
    BY <1>3, OneMore
<1>5. Len(h2) \in Nat
  BY <1>4, LenProperties
<1>6. Calm(td[t], Len(h2))
  BY <1>5, CalmNothing DEF Rests
<1> HIDE DEF h1, h2
<1>7. Slotwise(sl, sl2, td[t], td[t], h, h2)
  <2> SUFFICES ASSUME NEW j \in Slots
               PROVE  /\ Tally(sl[j].count, sl2[j].count, Occ(h, Only(j)), Occ(h2, Only(j)),
                               Occ(td[t], Calls(j)), Occ(td[t], Calls(j)))
                      /\ Differs(Unread(sl[j]), Unread(sl2[j]), Occ(td[t], Fills(j)), Occ(td[t], Fills(j)))
    BY DEF Slotwise
  <2>1. sl[j].count \in Nat /\ sl2[j].count \in Nat
    BY <1>1, <1>2 DEF SlotInv, SlotRec
  <2>2. PICK n \in Nat, a \in Nat, z \in Nat : n = sl[j].count /\ a = Occ(h, Only(j)) /\ z = In(i, Only(j))
    BY <1>1, <2>1, WhereIsFinite, InIs
  <2>3. sl2[j].count = n + 2 * z /\ Occ(h2, Only(j)) = a + z + z
    BY <1>2, <1>3, <1>4, <2>2 DEF CountUp
  <2>4. (n + 2 * z) + a + 0 = n + (a + z + z) + 0
    OBVIOUS
  <2>5. Occ(td[t], Calls(j)) = 0 /\ Occ(td[t], Fills(j)) = 0 /\ Unread(sl2[j]) = Unread(sl[j])
    BY <1>1, <1>2 DEF UnreadSame
  <2>6. Tally(sl[j].count, sl2[j].count, Occ(h, Only(j)), Occ(h2, Only(j)),
                               Occ(td[t], Calls(j)), Occ(td[t], Calls(j)))
    BY <2>2, <2>3, <2>4, <2>5 DEF Tally
  <2> QED
    BY <2>5, <2>6 DEF Differs
<1>8. Leaves(td, td, hd, hd2, t, kn2, td[t], h2)
  BY DEF h2, h1
<1> QED
  BY <1>1, <1>2, <1>6, <1>7, <1>8, CallStep

-----------------------------------------------------------------------------
(* What the super blocks count for.                                        *)

CountsFor(sup, M, s, f, i) == sup[s][f] = i /\ CountsIn(sup, M, s, f)
Alike(sup, M, sup2, M2, i) ==
    \A s \in Supers, f \in Fields : CountsFor(sup, M, s, f, i) <=> CountsFor(sup2, M2, s, f, i)
AlikeBut(sup, M, sup2, M2, i, x) ==
    \A s \in Supers, f \in Fields :
        <<s, f>> # x => (CountsFor(sup, M, s, f, i) <=> CountsFor(sup2, M2, s, f, i))
AlikeButTwo(sup, M, sup2, M2, i, x, y) ==
    \A s \in Supers, f \in Fields :
        <<s, f>> # x /\ <<s, f>> # y => (CountsFor(sup, M, s, f, i) <=> CountsFor(sup2, M2, s, f, i))

LEMMA InSuperSet ==
    ASSUME NEW sup, NEW M, NEW i
    PROVE  /\ \A x \in SuperSet(sup, M, i) : x \in Supers \X Fields
           /\ \A s \in Supers, f \in Fields : <<s, f>> \in SuperSet(sup, M, i) <=> CountsFor(sup, M, s, f, i)
BY DEF SuperSet, CountsFor

LEMMA SuperSame ==
    ASSUME NEW sup, NEW M, NEW sup2, NEW M2, NEW i, Alike(sup, M, sup2, M2, i)
    PROVE  SuperRefs(sup2, M2, i) = SuperRefs(sup, M, i) /\ SuperRefs(sup, M, i) \in Nat
<1>1. ASSUME NEW x \in Supers \X Fields
      PROVE  x \in SuperSet(sup, M, i) <=> x \in SuperSet(sup2, M2, i)
  <2>1. PICK s \in Supers, f \in Fields : x = <<s, f>>
    OBVIOUS
  <2> QED
    BY <2>1, InSuperSet DEF Alike
<1>2. SuperSet(sup, M, i) = SuperSet(sup2, M2, i)
  BY <1>1, InSuperSet
<1> QED
  BY <1>2, RefsAreNumbers DEF SuperRefs

LEMMA SuperPoint ==
    ASSUME NEW sup, NEW M, NEW sup2, NEW M2, NEW i, NEW p \in Supers \X Fields, AlikeBut(sup, M, sup2, M2, i, p)
    PROVE  /\ SuperRefs(sup2, M2, i) + In(p, SuperSet(sup, M, i)) = SuperRefs(sup, M, i) + In(p, SuperSet(sup2, M2, i))
           /\ SuperRefs(sup, M, i) \in Nat /\ SuperRefs(sup2, M2, i) \in Nat
<1>1. ASSUME NEW x \in Supers \X Fields, x # p
      PROVE  x \in SuperSet(sup, M, i) <=> x \in SuperSet(sup2, M2, i)
  <2>1. PICK s \in Supers, f \in Fields : x = <<s, f>>
    OBVIOUS
  <2> QED
    BY <1>1, <2>1, InSuperSet DEF AlikeBut
<1>2. \A x : x # p => (x \in SuperSet(sup, M, i) <=> x \in SuperSet(sup2, M2, i))
  BY <1>1, InSuperSet
<1>3. IsFiniteSet(SuperSet(sup, M, i))
  BY RefsAreNumbers
<1> QED
  BY <1>2, <1>3, PointChange DEF SuperRefs

LEMMA SuperPair ==
    ASSUME NEW sup, NEW M, NEW sup2, NEW M2, NEW i, NEW p \in Supers \X Fields, NEW r \in Supers \X Fields,
           p # r, AlikeButTwo(sup, M, sup2, M2, i, p, r)
    PROVE  /\ SuperRefs(sup2, M2, i) + In(p, SuperSet(sup, M, i)) + In(r, SuperSet(sup, M, i))
              = SuperRefs(sup, M, i) + In(p, SuperSet(sup2, M2, i)) + In(r, SuperSet(sup2, M2, i))
           /\ SuperRefs(sup, M, i) \in Nat /\ SuperRefs(sup2, M2, i) \in Nat
<1>1. ASSUME NEW x \in Supers \X Fields, x # p, x # r
      PROVE  x \in SuperSet(sup, M, i) <=> x \in SuperSet(sup2, M2, i)
  <2>1. PICK s \in Supers, f \in Fields : x = <<s, f>>
    OBVIOUS
  <2> QED
    BY <1>1, <2>1, InSuperSet DEF AlikeButTwo
<1>2. \A x : x # p /\ x # r => (x \in SuperSet(sup, M, i) <=> x \in SuperSet(sup2, M2, i))
  BY <1>1, InSuperSet
<1>3. IsFiniteSet(SuperSet(sup, M, i))
  BY RefsAreNumbers
<1> DEFINE A == SuperSet(sup, M, i)
           B == SuperSet(sup2, M2, i)
<1> HIDE DEF A, B
<1>4. TwoMoved(A, B, p, r)
  <2>1. IsFiniteSet(A) /\ SameButTwo(A, B, p, r)
    BY <1>2, <1>3 DEF A, B, SameButTwo
  <2> QED
    BY <2>1, PairChange
<1> QED
  BY <1>4 DEF A, B, SuperRefs, TwoMoved

-----------------------------------------------------------------------------
(* The micro-steps of mount, umount and mkfs.                              *)

LEMMA OnlyMounts ==
    ASSUME OneMounter, NEW td, NEW t \in Tasks, \A u \in Tasks \ Mounters : Mounts(td[u]) = {},
           t \in Mounters
    PROVE  AllMounts(td) = Mounts(td[t]) /\ \A u \in Tasks \ {t} : ~HasKind(td[u], "clear")
<1>1. \A u \in Tasks \ {t} : Mounts(td[u]) = {}
  BY DEF OneMounter
<1>2. AllMounts(td) = Mounts(td[t])
  BY <1>1 DEF AllMounts
<1>3. ASSUME NEW u \in Tasks \ {t}, HasKind(td[u], "clear")
      PROVE  FALSE
  <2>1. PICK k \in 1 .. Len(td[u]) : td[u][k][1] = "clear"
    BY <1>3 DEF HasKind
  <2>2. td[u][k] \in Mounts(td[u])
    BY <2>1 DEF Mounts, IsMount, MountKinds
  <2> QED
    BY <1>1, <2>2
<1> QED
  BY <1>2, <1>3

\* The lists, the inodes and the super blocks refer to an inode as often.
MountEven(sup, sup2, M, M2, old, new, h, h2) ==
    \A i \in Slots :
        /\ Occ(h, Only(i)) + Occ(old, Calls(i)) + SuperRefs(sup, M, i)
           = Occ(h2, Only(i)) + Occ(new, Calls(i)) + SuperRefs(sup2, M2, i)
        /\ Occ(new, Fills(i)) = Occ(old, Fills(i))

LEMMA MountSums ==
    ASSUME NEW n \in Nat, NEW a \in Nat, NEW a2 \in Nat, NEW b \in Nat, NEW b2 \in Nat,
           NEW d \in Nat, NEW m \in Nat, NEW m2 \in Nat, a + b + m = a2 + b2 + m2
    PROVE  Balance(n, n, a, a2, b, b2, d, d, m, m2)
BY DEF Balance

LEMMA SuperStep ==
    ASSUME NEW kn, NEW td, NEW sl, NEW sup, NEW hm, NEW hd, IInvOf(kn, td, sl, sup, hm, hd),
           NEW t \in Tasks, kn \in {t, None}, OneMounter, t \in Mounters,
           NEW kn2, NEW td2, NEW sl2, NEW sup2, NEW hd2, NEW new, NEW h2,
           Leaves(td, td2, hd, hd2, t, kn2, new, h2), Stack(new, h2, sup2, kn2, t),
           SameHomed(td[t], new), SuperInv(sup2), Phase(Mounts(new), sup2),
           SlotInv(sl2), CountSame(sl, sl2), UnreadSame(sl, sl2),
           MountEven(sup, sup2, Mounts(td[t]), Mounts(new), td[t], new, hd[t], h2)
    PROVE  IInvOf(kn2, td2, sl2, sup2, hm, hd2)
<1>1. /\ Lists(td, Ops) /\ Lists(hd, Slots) /\ HomesOk(hm)
      /\ SlotInv(sl) /\ \A u \in Tasks \ Mounters : Mounts(td[u]) = {}
  BY DEF IInvOf, Lists, HomesOk
<1>2. /\ Lists(td2, Ops) /\ Lists(hd2, Slots) /\ Differ(td, td2, t) /\ td2[t] = new /\ hd2[t] = h2
  BY DEF Leaves
<1>3. \A u \in Tasks \ Mounters : Mounts(td2[u]) = {}
  BY <1>1, <1>2 DEF Differ
<1>4. AllMounts(td) = Mounts(td[t]) /\ \A u \in Tasks \ {t} : ~HasKind(td[u], "clear")
  BY <1>1, OnlyMounts
<1>5. AllMounts(td2) = Mounts(new)
  BY <1>2, <1>3, OnlyMounts
<1>6. \A i : HomeRefs(hm, td2, i) = HomeRefs(hm, td, i)
  BY <1>2, SameHomes
<1>7. ASSUME NEW i \in Slots
      PROVE  Balance(sl[i].count, sl2[i].count, Occ(hd[t], Only(i)), Occ(hd2[t], Only(i)),
                Occ(td[t], Calls(i)), Occ(td2[t], Calls(i)), HomeRefs(hm, td, i), HomeRefs(hm, td2, i),
                SuperRefs(sup, AllMounts(td), i), SuperRefs(sup2, AllMounts(td2), i))
  <2>1. Occ(hd[t], Only(i)) + Occ(td[t], Calls(i)) + SuperRefs(sup, AllMounts(td), i)
           = Occ(hd2[t], Only(i)) + Occ(td2[t], Calls(i)) + SuperRefs(sup2, AllMounts(td2), i)
    BY <1>2, <1>4, <1>5 DEF MountEven
  <2>2. /\ Occ(td[t], Calls(i)) \in Nat /\ Occ(td2[t], Calls(i)) \in Nat
        /\ Occ(hd[t], Only(i)) \in Nat /\ Occ(hd2[t], Only(i)) \in Nat
    BY <1>1, <1>2, TotalIsNumber
  <2>3. /\ HomeRefs(hm, td, i) \in Nat /\ SuperRefs(sup, AllMounts(td), i) \in Nat
        /\ SuperRefs(sup2, AllMounts(td2), i) \in Nat
    BY RefsAreNumbers
  <2>4. sl[i].count \in Nat /\ sl2[i].count = sl[i].count
    BY <1>1 DEF SlotInv, SlotRec, CountSame
  <2>5. Balance(sl[i].count, sl[i].count, Occ(hd[t], Only(i)), Occ(hd2[t], Only(i)),
                Occ(td[t], Calls(i)), Occ(td2[t], Calls(i)), HomeRefs(hm, td, i), HomeRefs(hm, td, i),
                SuperRefs(sup, AllMounts(td), i), SuperRefs(sup2, AllMounts(td2), i))
    BY <2>1, <2>2, <2>3, <2>4, MountSums
  <2> QED
    BY <1>6, <2>4, <2>5
<1>8. KeepsOut(td2, t) /\ NoneClears(td, sup, sup2, t)
  BY <1>4 DEF KeepsOut, NoneClears
<1>9. CountsBalance(td, td2, sl, sl2, sup, sup2, hm, hm, hd, hd2, t)
  BY <1>7 DEF CountsBalance
<1>10. FillsBalance(td, td2, sl, sl2, t)
  BY <1>2 DEF FillsBalance, MountEven, Differs, UnreadSame
<1>11. Executes(kn, kn2, t) /\ Goes(td, td2, hd, hd2, t)
  BY DEF Leaves, Executes, Goes
<1>12. Stack(td2[t], hd2[t], sup2, kn2, t) /\ Phase(AllMounts(td2), sup2)
  BY <1>2, <1>5
<1> QED
  BY <1>1, <1>8, <1>9, <1>10, <1>11, <1>12, Moves

SameRefs(old, new) ==
    \A i \in Slots : Occ(old, Calls(i)) = Occ(new, Calls(i)) /\ Occ(old, Fills(i)) = Occ(new, Fills(i))

\* A task at a micro-step of a mount, an umount or mkfs.
LEMMA MountsIs ==
    ASSUME NEW kn, NEW td, NEW sl, NEW sup, NEW hm, NEW hd, NEW t, NEW x, NEW Q,
           About(kn, td, sl, sup, hm, hd, t, x, Q), IsMount(x), OneMounter
    PROVE  /\ t \in Mounters /\ AllMounts(td) = Mounts(td[t]) /\ Mounts(td[t]) = {x} \cup Mounts(Q)
           /\ Above(x, Mounts(Q)) /\ x \notin Mounts(Q) /\ Phase({x} \cup Mounts(Q), sup)
           /\ Calm(Q, Len(hd[t]) + Gain(x[1])) /\ ~Drops(x) /\ SameHomed(td[t], Q)
           /\ (x[1] \in Finals => Q = << >>)
           /\ SameRefs(td[t], Q)
<1>1. IInvOf(kn, td, sl, sup, hm, hd) /\ t \in Tasks /\ td[t] = <<x>> \o Q /\ x \in Ops /\ Q \in Seq(Ops)
  BY DEF About
<1>2. ~Drops(x) /\ x[1] # "homed" /\ x[1] \notin {"iput", "drop", "fill"}
  BY DEF IsMount, MountKinds, Drops
<1>3. Mounts(td[t]) = {x} \cup Mounts(Q)
  <2>1. Mounts(<<x>> \o Q) = (IF IsMount(x) THEN {x} ELSE {}) \cup Mounts(Q)
    BY <1>1, MountsAhead
  <2> QED
    BY <1>1, <2>1
<1>4. t \in Mounters
  BY <1>1, <1>3 DEF IInvOf
<1>5. AllMounts(td) = Mounts(td[t])
  <2>1. \A u \in Tasks \ Mounters : Mounts(td[u]) = {}
    BY <1>1 DEF IInvOf
  <2> QED
    BY <1>1, <1>4, <2>1, OnlyMounts
<1>6. Phase({x} \cup Mounts(Q), sup)
  <2>1. Phase(AllMounts(td), sup)
    BY <1>1 DEF IInvOf
  <2> QED
    BY <1>3, <1>5, <2>1
<1>7. /\ Before(x, Q, Len(hd[t])) /\ Calm(Q, Len(hd[t]) + Gain(x[1])) /\ Splits(<<x>> \o Q, x, Q)
  <2>1. Stack(<<x>> \o Q, hd[t], sup, kn, t) /\ Calm(Q, Len(hd[t]) + Gain(x[1])) /\ Splits(<<x>> \o Q, x, Q)
    BY <1>2, AboutIs
  <2> QED
    BY <1>1, <2>1, Popped
<1>8. Above(x, Mounts(Q)) /\ x \notin Mounts(Q) /\ (x[1] \in Finals => Q = << >>)
  <2>1. Above(x, Mounts(Q)) /\ (x[1] \in Finals => Q = << >>)
    BY <1>7 DEF Before
  <2>2. Rank(x) \in Nat
    BY DEF Rank
  <2>3. ~(Rank(x) < Rank(x))
    BY <2>2
  <2> QED
    BY <2>1, <2>3 DEF Above
<1>9. SameHomed(td[t], Q)
  <2> SUFFICES ASSUME NEW w \in Homes
               PROVE  Has(Q, <<"homed", w>>) <=> Has(td[t], <<"homed", w>>)
    BY DEF SameHomed
  <2>1. Has(<<x>> \o Q, <<"homed", w>>) <=> x = <<"homed", w>> \/ Has(Q, <<"homed", w>>)
    BY <1>1, HasAhead
  <2> QED
    BY <1>1, <1>2, <2>1
<1>10. \A i \in Slots : Occ(td[t], Calls(i)) = Occ(Q, Calls(i)) /\ Occ(td[t], Fills(i)) = Occ(Q, Fills(i))
  <2>1. <<x>> \o Q \in Seq(Ops)
    BY <1>1, Ahead
  <2> QED
    BY <1>1, <1>2, <1>7, <2>1, PlainSplit
<1> QED
  BY <1>2, <1>3, <1>4, <1>5, <1>6, <1>7, <1>8, <1>9, <1>10 DEF SameRefs

-----------------------------------------------------------------------------
(* What a micro-step of a mount, an umount or mkfs may rely on.            *)

LEMMA NotMaking ==
    ASSUME NEW M, NEW sup, NEW x \in M, x[1] \notin {"made", "put"}
    PROVE  ~Making(M, sup)
<1> SUFFICES ASSUME Making(M, sup)
             PROVE  FALSE
  OBVIOUS
<1>1. PICK s \in Others : M = {<<"made", s>>} \/ M = {<<"put", s>>}
  BY DEF Making
<1>2. x = <<"made", s>> \/ x = <<"put", s>>
  BY <1>1
<1> QED
  BY <1>2

LEMMA RestHead ==
    ASSUME NEW x, NEW MQ, NEW sup, Phase({x} \cup MQ, sup), x \notin MQ,
           x[1] \in {"isblk", "onto", "umount", "mkfs"}
    PROVE  Idle(sup)
<1> DEFINE M == {x} \cup MQ
<1>1. x \in M
  OBVIOUS
<1> HIDE DEF M
<1>2. ~Mounting(M, sup) /\ ~Unmounting(M, sup) /\ ~Making(M, sup)
  <2>1. ~Mounting(M, sup)
    BY <1>1 DEF Mounting
  <2>2. ~Unmounting(M, sup)
    BY <1>1 DEF Unmounting
  <2>3. ~Making(M, sup)
    BY <1>1, NotMaking
  <2> QED
    BY <2>1, <2>2, <2>3
<1>3. Phase(M, sup)
  BY DEF M
<1> QED
  BY <1>2, <1>3 DEF Phase

LEMMA ReadHead ==
    ASSUME NEW x, NEW MQ, NEW sup, Phase({x} \cup MQ, sup), x \notin MQ, x[1] = "read"
    PROVE  First \in Others /\ x = <<"read", First>> /\ MQ = {<<"mounted", First>>} /\ AllOff(sup, Others)
<1> DEFINE M == {x} \cup MQ
<1>1. x \in M /\ MQ = M \ {x}
  OBVIOUS
<1> HIDE DEF M
<1>2. ~Resting(M) /\ ~Unmounting(M, sup) /\ ~Making(M, sup)
  <2>1. ~Resting(M)
    BY <1>1 DEF Resting
  <2>2. ~Unmounting(M, sup)
    BY <1>1 DEF Unmounting
  <2>3. ~Making(M, sup)
    BY <1>1, NotMaking
  <2> QED
    BY <2>1, <2>2, <2>3
<1>3. Phase(M, sup)
  BY DEF M
<1>4. First \in Others /\ Mounting(M, sup)
  BY <1>2, <1>3 DEF Phase
<1>5. M = {<<"read", First>>, <<"mounted", First>>} /\ AllOff(sup, Others)
  BY <1>1, <1>4 DEF Mounting
<1> QED
  BY <1>1, <1>4, <1>5

LEMMA MountedHead ==
    ASSUME NEW x, NEW MQ, NEW sup, Phase({x} \cup MQ, sup), x \notin MQ, x[1] = "mounted", Above(x, MQ)
    PROVE  /\ First \in Others /\ x = <<"mounted", First>> /\ MQ = {} /\ AllOff(sup, Others \ {First})
           /\ On(sup, 2) \/ Half(sup, First)
<1> DEFINE M == {x} \cup MQ
<1>1. x \in M /\ MQ = M \ {x}
  OBVIOUS
<1> HIDE DEF M
<1>2. ~Resting(M) /\ ~Unmounting(M, sup) /\ ~Making(M, sup)
  <2>1. ~Resting(M)
    BY <1>1 DEF Resting
  <2>2. ~Unmounting(M, sup)
    BY <1>1 DEF Unmounting
  <2>3. ~Making(M, sup)
    BY <1>1, NotMaking
  <2> QED
    BY <2>1, <2>2, <2>3
<1>3. Phase(M, sup)
  BY DEF M
<1>4. First \in Others /\ Mounting(M, sup) /\ AllOff(sup, Others \ {First})
  BY <1>2, <1>3 DEF Phase
<1>5. <<"read", First>> \notin M
  <2>1. SUFFICES ASSUME <<"read", First>> \in MQ
                 PROVE  FALSE
    BY <1>1
  <2>2. Rank(x) = 2 /\ Rank(<<"read", First>>) = 1 /\ IsMount(x)
    BY DEF Rank, IsMount, MountKinds
  <2>3. Rank(x) < Rank(<<"read", First>>)
    BY <2>1, <2>2 DEF Above
  <2> QED
    BY <2>2, <2>3
<1>6. M = {<<"mounted", First>>} /\ (On(sup, 2) \/ Half(sup, First))
  BY <1>1, <1>4, <1>5 DEF Mounting
<1> QED
  BY <1>1, <1>4, <1>6

LEMMA AttachHead ==
    ASSUME NEW x, NEW MQ, NEW sup, Phase({x} \cup MQ, sup), x \notin MQ, x[1] = "attach"
    PROVE  /\ First \in Others /\ x = <<"attach", First>> /\ MQ = {} /\ AllOff(sup, Others \ {First})
           /\ Half(sup, First)
<1> DEFINE M == {x} \cup MQ
<1>1. x \in M /\ MQ = M \ {x}
  OBVIOUS
<1> HIDE DEF M
<1>2. ~Resting(M) /\ ~Unmounting(M, sup) /\ ~Making(M, sup)
  <2>1. ~Resting(M)
    BY <1>1 DEF Resting
  <2>2. ~Unmounting(M, sup)
    BY <1>1 DEF Unmounting
  <2>3. ~Making(M, sup)
    BY <1>1, NotMaking
  <2> QED
    BY <2>1, <2>2, <2>3
<1>3. Phase(M, sup)
  BY DEF M
<1>4. First \in Others /\ Mounting(M, sup) /\ AllOff(sup, Others \ {First})
  BY <1>2, <1>3 DEF Phase
<1>5. M = {<<"attach", First>>} /\ Half(sup, First)
  BY <1>1, <1>4 DEF Mounting
<1> QED
  BY <1>1, <1>4, <1>5

\* put_super of a mount that finds the disk mounted already, or of a super
\* block that is not attached.
LEMMA PutHead ==
    ASSUME NEW x, NEW MQ, NEW sup, Phase({x} \cup MQ, sup), x \notin MQ, x[1] = "put", Above(x, MQ)
    PROVE  /\ MQ = {}
           /\ \/ First \in Others /\ x = <<"put", First>> /\ On(sup, 2) /\ AllOff(sup, Others \ {First})
              \/ \E s \in Others : /\ x = <<"put", s>> /\ Half(sup, s) /\ AllOff(sup, Others \ {First, s})
                                   /\ s = First \/ On(sup, 1)
<1> DEFINE M == {x} \cup MQ
<1>1. x \in M /\ MQ = M \ {x}
  OBVIOUS
<1>2. \A op \in MQ : op[1] \notin {"release", "clear", "made"}
  <2> SUFFICES ASSUME NEW op \in MQ, op[1] \in {"release", "clear", "made"}
               PROVE  FALSE
    OBVIOUS
  <2>1. Rank(x) = 3 /\ IsMount(x) /\ (Rank(op) = 1 \/ Rank(op) = 2 \/ Rank(op) = 3)
    BY DEF Rank, IsMount, MountKinds
  <2>2. Rank(x) < Rank(op)
    BY <2>1 DEF Above
  <2> QED
    BY <2>1, <2>2
<1> HIDE DEF M
<1>3. \A op \in M : op[1] \notin {"release", "clear", "made"}
  BY <1>1, <1>2
<1>4. ~Resting(M) /\ ~Unmounting(M, sup)
  <2>1. ~Resting(M)
    BY <1>1 DEF Resting
  <2>2. ~Unmounting(M, sup)
    BY <1>3 DEF Unmounting
  <2> QED
    BY <2>1, <2>2
<1>5. Phase(M, sup)
  BY DEF M
<1>6. CASE Mounting(M, sup) /\ First \in Others /\ AllOff(sup, Others \ {First})
  <2>1. M = {<<"put", First>>} /\ On(sup, 2)
    BY <1>1, <1>6 DEF Mounting
  <2> QED
    BY <1>1, <1>6, <2>1
<1>7. CASE Making(M, sup)
  <2>1. PICK s \in Others :
          /\ M = {<<"made", s>>} \/ M = {<<"put", s>>}
          /\ Half(sup, s) /\ AllOff(sup, Others \ {First, s}) /\ (s = First \/ On(sup, 1))
    BY <1>7 DEF Making
  <2>2. M = {<<"put", s>>}
    BY <1>1, <2>1
  <2> QED
    BY <1>1, <2>1, <2>2
<1> QED
  BY <1>4, <1>5, <1>6, <1>7 DEF Phase

LEMMA MadeHead ==
    ASSUME NEW x, NEW MQ, NEW sup, Phase({x} \cup MQ, sup), x \notin MQ, x[1] = "made"
    PROVE  /\ MQ = {}
           /\ \E s \in Others : /\ x = <<"made", s>> /\ Half(sup, s) /\ AllOff(sup, Others \ {First, s})
                                /\ s = First \/ On(sup, 1)
<1> DEFINE M == {x} \cup MQ
<1>1. x \in M /\ MQ = M \ {x}
  OBVIOUS
<1> HIDE DEF M
<1>2. ~Resting(M) /\ ~Mounting(M, sup) /\ ~Unmounting(M, sup)
  <2>1. ~Resting(M)
    BY <1>1 DEF Resting
  <2>2. ~Unmounting(M, sup)
    BY <1>1 DEF Unmounting
  <2>3. ~Mounting(M, sup)
    BY <1>1 DEF Mounting
  <2> QED
    BY <2>1, <2>2, <2>3
<1>3. Phase(M, sup)
  BY DEF M
<1>4. Making(M, sup)
  BY <1>2, <1>3 DEF Phase
<1>5. PICK s \in Others :
          /\ M = {<<"made", s>>} \/ M = {<<"put", s>>}
          /\ Half(sup, s) /\ AllOff(sup, Others \ {First, s}) /\ (s = First \/ On(sup, 1))
  BY <1>4 DEF Making
<1>6. M = {<<"made", s>>}
  BY <1>1, <1>5
<1> QED
  BY <1>1, <1>5, <1>6

\* umount gives iroot to iput, and then imount.
Rest(f) ==
    IF f = "iroot" THEN {<<"release", First, "imount">>, <<"put", First>>} ELSE {<<"put", First>>}
Attached(sup, f) ==
    IF f = "iroot" THEN On(sup, 1)
    ELSE sup[First].dev = Disk /\ sup[First].count = 1 /\ sup[First].imount \in Slots /\ sup[First].iroot = None

LEMMA ReleaseHead ==
    ASSUME NEW x, NEW MQ, NEW sup, Phase({x} \cup MQ, sup), x \notin MQ, x[1] \in {"release", "clear"},
           NEW f \in Fields, f = x[3], Above(x, MQ)
    PROVE  /\ First \in Others /\ AllOff(sup, Others \ {First}) /\ MQ = Rest(f) /\ Attached(sup, f)
           /\ x = <<x[1], First, f>>
<1> DEFINE M == {x} \cup MQ
<1>1. x \in M /\ MQ = M \ {x}
  OBVIOUS
<1> HIDE DEF M
<1>2. ~Resting(M) /\ ~Mounting(M, sup) /\ ~Making(M, sup)
  <2>1. ~Resting(M)
    BY <1>1 DEF Resting
  <2>2. ~Making(M, sup)
    BY <1>1, NotMaking
  <2>3. ~Mounting(M, sup)
    BY <1>1 DEF Mounting
  <2> QED
    BY <2>1, <2>2, <2>3
<1>3. Phase(M, sup)
  BY DEF M
<1>4. Unmounting(M, sup) /\ First \in Others /\ AllOff(sup, Others \ {First})
  BY <1>2, <1>3 DEF Phase
<1>5. CASE f = "iroot"
  <2>0. /\ <<"release", First, "imount">> # x /\ <<"clear", First, "imount">> # x
        /\ <<"put", First>> # x
    <3>1. x[3] = "iroot" /\ x[1] # "put"
      BY <1>5
    <3>2. /\ <<"release", First, "imount">>[3] = "imount" /\ <<"clear", First, "imount">>[3] = "imount"
          /\ <<"put", First>>[1] = "put"
      OBVIOUS
    <3> QED
      BY <3>1, <3>2
  <2>1. /\ \/ M = {<<"release", First, "iroot">>, <<"release", First, "imount">>, <<"put", First>>}
           \/ M = {<<"clear", First, "iroot">>, <<"release", First, "imount">>, <<"put", First>>}
        /\ On(sup, 1)
    <3>1. M # {<<"release", First, "imount">>, <<"put", First>>}
      BY <1>1, <2>0
    <3>2. M # {<<"clear", First, "imount">>, <<"put", First>>}
      BY <1>1, <2>0
    <3> QED
      BY <1>4, <3>1, <3>2 DEF Unmounting
  <2>2. x = <<"release", First, "iroot">> \/ x = <<"clear", First, "iroot">>
    BY <1>1, <2>0, <2>1
  <2>3. MQ = {<<"release", First, "imount">>, <<"put", First>>}
    BY <1>1, <2>1, <2>2
  <2> QED
    BY <1>4, <1>5, <2>1, <2>2, <2>3 DEF Rest, Attached
<1>6. CASE f = "imount"
  <2>1. Rank(x) = 2 /\ IsMount(x)
    BY <1>6 DEF Rank, IsMount, MountKinds
  <2>2. \A op \in MQ : ~(op[1] \in {"release", "clear"} /\ op[3] = "iroot")
    <3> SUFFICES ASSUME NEW op \in MQ, op[1] \in {"release", "clear"}, op[3] = "iroot"
                 PROVE  FALSE
      OBVIOUS
    <3>1. Rank(op) = 1
      BY DEF Rank
    <3>2. Rank(x) < Rank(op)
      BY <2>1 DEF Above
    <3> QED
      BY <2>1, <3>1, <3>2
  <2>3. \A op \in M : ~(op[1] \in {"release", "clear"} /\ op[3] = "iroot")
    BY <1>1, <1>6, <2>2
  <2>4. /\ \/ M = {<<"release", First, "imount">>, <<"put", First>>}
           \/ M = {<<"clear", First, "imount">>, <<"put", First>>}
        /\ sup[First].dev = Disk /\ sup[First].count = 1
        /\ sup[First].imount \in Slots /\ sup[First].iroot = None
    BY <1>4, <2>3 DEF Unmounting
  <2>5. x = <<"release", First, "imount">> \/ x = <<"clear", First, "imount">>
    BY <1>1, <2>4
  <2>6. MQ = {<<"put", First>>}
    BY <1>1, <2>4, <2>5
  <2> QED
    BY <1>4, <1>6, <2>4, <2>5, <2>6 DEF Rest, Attached
<1> QED
  BY <1>5, <1>6 DEF Fields

-----------------------------------------------------------------------------
(* The checks of mount, umount and mkfs, and their roll-backs.             *)

LEMMA SlotSelf ==
    ASSUME NEW sl
    PROVE  CountSame(sl, sl) /\ UnreadSame(sl, sl)
BY DEF CountSame, UnreadSame

LEMMA CalmLacks ==
    ASSUME NEW q, NEW n, Calm(q, n), NEW w
    PROVE  ~Has(q, <<"homed", w>>)
BY DEF Calm, HasKind, Has

LEMMA MountStep ==
    ASSUME NEW kn, NEW td, NEW sl, NEW sup, NEW hm, NEW hd, NEW t, NEW x, NEW Q,
           About(kn, td, sl, sup, hm, hd, t, x, Q), IsMount(x), OneMounter,
           NEW kn2, NEW td2, NEW sl2, NEW sup2, NEW hd2, NEW new, NEW h2,
           Leaves(td, td2, hd, hd2, t, kn2, new, h2), Calm(new, Len(h2)),
           SuperInv(sup2), Phase(Mounts(new), sup2), SlotInv(sl2), CountSame(sl, sl2), UnreadSame(sl, sl2),
           MountEven(sup, sup2, {x} \cup Mounts(Q), Mounts(new), Q, new, hd[t], h2)
    PROVE  IInvOf(kn2, td2, sl2, sup2, hm, hd2)
<1>1. /\ t \in Mounters /\ Mounts(td[t]) = {x} \cup Mounts(Q) /\ SameHomed(td[t], Q)
      /\ Calm(Q, Len(hd[t]) + Gain(x[1])) /\ SameRefs(td[t], Q)
  BY MountsIs
<1>2. IInvOf(kn, td, sl, sup, hm, hd) /\ t \in Tasks /\ kn \in {t, None}
  BY DEF About
<1>3. h2 \in Seq(Slots)
  BY <1>2 DEF Leaves, Lists
<1>4. Stack(new, h2, sup2, kn2, t)
  BY <1>3, CalmStack
<1>5. SameHomed(td[t], new)
  BY <1>1, CalmLacks DEF SameHomed
<1>6. MountEven(sup, sup2, Mounts(td[t]), Mounts(new), td[t], new, hd[t], h2)
  BY <1>1 DEF MountEven, SameRefs
<1> QED
  BY <1>1, <1>2, <1>4, <1>5, <1>6, SuperStep

\* The references of the super blocks stay the same.
LEMMA AlikeStep ==
    ASSUME NEW kn, NEW td, NEW sl, NEW sup, NEW hm, NEW hd, NEW t, NEW x, NEW Q,
           About(kn, td, sl, sup, hm, hd, t, x, Q), IsMount(x), OneMounter,
           NEW kn2, NEW td2, NEW sup2, NEW hd2, NEW new, NEW h2,
           Leaves(td, td2, hd, hd2, t, kn2, new, h2), Calm(new, Len(h2)),
           SuperInv(sup2), Phase(Mounts(new), sup2),
           \A i \in Slots : Alike(sup, {x} \cup Mounts(Q), sup2, Mounts(new), i),
           Even(Q, new, hd[t], h2)
    PROVE  IInvOf(kn2, td2, sl, sup2, hm, hd2)
<1>1. SlotInv(sl) /\ CountSame(sl, sl) /\ UnreadSame(sl, sl) /\ Q \in Seq(Ops) /\ hd[t] \in Seq(Slots) /\ t \in Tasks
  BY SlotSelf, AboutIs
<1>2. h2 \in Seq(Slots) /\ new \in Seq(Ops)
  BY <1>1 DEF Leaves, Lists, Calm, Good
<1>3. MountEven(sup, sup2, {x} \cup Mounts(Q), Mounts(new), Q, new, hd[t], h2)
  <2> SUFFICES ASSUME NEW i \in Slots
               PROVE  /\ Occ(hd[t], Only(i)) + Occ(Q, Calls(i)) + SuperRefs(sup, {x} \cup Mounts(Q), i)
                         = Occ(h2, Only(i)) + Occ(new, Calls(i)) + SuperRefs(sup2, Mounts(new), i)
                      /\ Occ(new, Fills(i)) = Occ(Q, Fills(i))
    BY DEF MountEven
  <2>1. /\ Occ(hd[t], Only(i)) + Occ(Q, Calls(i)) = Occ(h2, Only(i)) + Occ(new, Calls(i))
        /\ Occ(new, Fills(i)) = Occ(Q, Fills(i))
    BY DEF Even
  <2>2. SuperRefs(sup2, Mounts(new), i) = SuperRefs(sup, {x} \cup Mounts(Q), i)
    <3>1. Alike(sup, {x} \cup Mounts(Q), sup2, Mounts(new), i)
      OBVIOUS
    <3> QED
      BY <3>1, SuperSame
  <2> QED
    BY <2>1, <2>2
<1> QED
  BY <1>1, <1>3, MountStep

AlikeMounts(M, M2) ==
    \A s \in Supers, f \in Fields :
        /\ <<"clear", s, f>> \in M <=> <<"clear", s, f>> \in M2
        /\ <<"put", s>> \in M <=> <<"put", s>> \in M2

LEMMA MountsAlike ==
    ASSUME NEW M, NEW M2, AlikeMounts(M, M2), NEW sup, NEW i
    PROVE  Alike(sup, M, sup, M2, i)
BY DEF Alike, AlikeMounts, CountsFor, CountsIn

Uncounting(M) == \A op \in M : op[1] \notin {"clear", "put"}

LEMMA UncountingAlike ==
    ASSUME NEW M, NEW M2, Uncounting(M), Uncounting(M2)
    PROVE  AlikeMounts(M, M2)
<1> SUFFICES ASSUME NEW s \in Supers, NEW f \in Fields
             PROVE  /\ <<"clear", s, f>> \notin M /\ <<"put", s>> \notin M
                    /\ <<"clear", s, f>> \notin M2 /\ <<"put", s>> \notin M2
  BY DEF AlikeMounts
<1>1. <<"clear", s, f>>[1] = "clear" /\ <<"put", s>>[1] = "put"
  OBVIOUS
<1> QED
  BY <1>1 DEF Uncounting

\* What all the last micro-steps of a lookup start from.
LEMMA FinalIs ==
    ASSUME NEW kn, NEW td, NEW sl, NEW sup, NEW hm, NEW hd, NEW t, NEW x, NEW Q,
           About(kn, td, sl, sup, hm, hd, t, x, Q), x[1] \in {"isblk", "onto", "umount", "mkfs"}, OneMounter
    PROVE  /\ Q = << >> /\ Mounts(Q) = {} /\ {x} \cup Mounts(Q) = {x} /\ Idle(sup) /\ IsMount(x)
           /\ Uncounting({x}) /\ x[1] \in Finals /\ ~Drops(x)
           /\ hd[t] \in Seq(Slots) /\ Len(hd[t]) \in Nat /\ SlotInv(sl) /\ SuperInv(sup) /\ Q \in Seq(Ops)
           /\ Calm(Q, Len(hd[t]) + Gain(x[1])) /\ Len(hd[t]) >= Needs(x[1]) /\ x \in Ops
           /\ Phase({}, sup)
<1>1. IsMount(x) /\ Uncounting({x}) /\ x[1] \in Finals /\ ~Drops(x)
  BY DEF IsMount, MountKinds, Uncounting, Finals, Drops
<1>2. Q = << >> /\ Phase({x} \cup Mounts(Q), sup) /\ x \notin Mounts(Q)
  BY <1>1, MountsIs
<1>3. Idle(sup)
  BY <1>2, RestHead
<1>4. Mounts(Q) = {}
  <2>1. 0 \in Nat
    OBVIOUS
  <2> QED
    BY <1>2, <2>1, NothingLeft
<1>5. Phase({}, sup)
  BY <1>3 DEF Phase, Resting
<1> QED
  BY <1>1, <1>2, <1>3, <1>4, <1>5, AboutIs

LEMMA FinalEmpty ==
    ASSUME NEW kn, NEW td, NEW sl, NEW sup, NEW hm, NEW hd, NEW t, NEW x, NEW Q,
           About(kn, td, sl, sup, hm, hd, t, x, Q), x[1] \in {"isblk", "onto", "umount", "mkfs"}, OneMounter
    PROVE  Q = << >>
<1>1. IsMount(x) /\ x[1] \in Finals
  BY DEF IsMount, MountKinds, Finals
<1> QED
  BY <1>1, MountsIs

LEMMA GiveUpStep ==
    ASSUME NEW kn, NEW td, NEW sl, NEW sup, NEW hm, NEW hd, NEW t, NEW x, NEW Q,
           About(kn, td, sl, sup, hm, hd, t, x, Q), x[1] \in {"isblk", "umount", "mkfs"}, OneMounter,
           NEW i \in Slots, i = hd[t][Len(hd[t])],
           NEW kn2, NEW td2, NEW hd2,
           Leaves(td, td2, hd, hd2, t, kn2, <<<<"iput", i>>>> \o Q, Cut(hd[t], 1))
    PROVE  IInvOf(kn2, td2, sl, sup, hm, hd2)
<1>1. Gain(x[1]) = -1 /\ Needs(x[1]) = 1
  BY DEF Gain, Needs
<1>2. /\ Mounts(Q) = {} /\ {x} \cup Mounts(Q) = {x} /\ IsMount(x) /\ Uncounting({x})
      /\ hd[t] \in Seq(Slots) /\ Len(hd[t]) \in Nat /\ SuperInv(sup) /\ Q \in Seq(Ops)
      /\ Calm(Q, Len(hd[t]) + Gain(x[1])) /\ Len(hd[t]) >= Needs(x[1]) /\ Phase({}, sup)
  BY FinalIs
<1>3. PICK g \in Seq(Slots) : g = Cut(hd[t], 1) /\ Len(g) = Len(hd[t]) - 1 /\ Sheds(hd[t], g, i)
  <2>1. Len(hd[t]) >= 1
    BY <1>1, <1>2
  <2> QED
    BY <1>2, <2>1, CutTop
<1>4. Calm(Q, Len(g))
  <2>1. Len(g) = Len(hd[t]) + Gain(x[1])
    BY <1>1, <1>2, <1>3
  <2> QED
    BY <1>2, <2>1
<1> DEFINE new == <<<<"iput", i>>>> \o Q
<1>5. Calm(new, Len(g)) /\ Mounts(new) = {} /\ Even(Q, new, hd[t], g)
  BY <1>2, <1>3, <1>4, LetGo
<1>6. Leaves(td, td2, hd, hd2, t, kn2, new, g)
  BY <1>3
<1> HIDE DEF new
<1>7. \A j \in Slots : Alike(sup, {x} \cup Mounts(Q), sup, Mounts(new), j)
  <2>1. Uncounting({})
    BY DEF Uncounting
  <2>2. AlikeMounts({x}, {})
    BY <1>2, <2>1, UncountingAlike
  <2> QED
    BY <1>2, <1>5, <2>2, MountsAlike
<1> QED
  BY <1>2, <1>5, <1>6, <1>7, AlikeStep

\* The device is a block special file: the directory is looked up.
LEMMA DeviceStep ==
    ASSUME NEW kn, NEW td, NEW sl, NEW sup, NEW hm, NEW hd, NEW t, NEW x, NEW Q,
           About(kn, td, sl, sup, hm, hd, t, x, Q), x[1] = "isblk", OneMounter, NEW path \in Paths,
           NEW kn2, NEW td2, NEW hd2,
           Leaves(td, td2, hd, hd2, t, kn2, Resolve(path) \o (<<<<"onto">>>> \o Q), hd[t])
    PROVE  IInvOf(kn2, td2, sl, sup, hm, hd2)
<1> DEFINE y == <<"onto">>
           h == hd[t]
           q == <<y>> \o Q
           new == Resolve(path) \o q
<1>1. Gain(x[1]) = -1 /\ Needs(x[1]) = 1
  BY DEF Gain, Needs
<1>2. /\ Mounts(Q) = {} /\ {x} \cup Mounts(Q) = {x} /\ IsMount(x) /\ Uncounting({x})
      /\ h \in Seq(Slots) /\ Len(h) \in Nat /\ SuperInv(sup) /\ Q \in Seq(Ops)
      /\ Len(h) >= Needs(x[1]) /\ Idle(sup)
  <2>1. x[1] \in {"isblk", "onto", "umount", "mkfs"}
    OBVIOUS
  <2> HIDE DEF y
  <2> QED
    BY <2>1, FinalIs
<1>0. Q = << >>
  <2>1. x[1] \in {"isblk", "onto", "umount", "mkfs"}
    OBVIOUS
  <2> QED
    BY <2>1, FinalEmpty, Zenon
<1>3. y \in Ops /\ y[1] \in Finals /\ IsMount(y) /\ Gain(y[1]) = -2 /\ Needs(y[1]) = 2
  BY OpsOfKinds DEF Finals, IsMount, MountKinds, Gain, Needs
<1>4. Len(h) + 1 \in Nat /\ Len(h) + 1 >= Needs(y[1]) /\ (Len(h) + 1) + Gain(y[1]) \in Nat
  BY <1>1, <1>2, <1>3
<1>5. Calm(q, Len(h) + 1) /\ Ending(q) /\ Mounts(q) = {y} /\ \A S : Occ(q, S) = In(y, S)
  <2> HIDE DEF y, h
  <2>1. PICK n \in Nat : n = Len(h) + 1
    BY <1>4
  <2>2. n >= Needs(y[1]) /\ n + Gain(y[1]) \in Nat
    BY <1>4, <2>1
  <2>3. Calm(q, n) /\ Ending(q) /\ Mounts(q) = (IF IsMount(y) THEN {y} ELSE {}) /\ \A S : Occ(q, S) = In(y, S)
    BY <1>0, <1>2, <1>3, <2>2, FinalAlone
  <2> QED
    BY <1>3, <2>1, <2>3
<1>6. \A i : In(y, Calls(i)) = 0 /\ In(y, Fills(i)) = 0
  BY InIs
<1> HIDE DEF q
<1>7. /\ Calm(new, Len(h)) /\ Mounts(new) = Mounts(q)
      /\ \A i : Occ(new, Calls(i)) = Occ(q, Calls(i)) /\ Occ(new, Fills(i)) = Occ(q, Fills(i))
  BY <1>2, <1>5, LookupIs
<1>8. \A S : Occ(Q, S) = 0
  BY <1>0, <1>2, NothingLeft
<1> HIDE DEF new
<1>9. Even(Q, new, h, h)
  BY <1>5, <1>6, <1>7, <1>8 DEF Even
<1>10. Mounts(new) = {y}
  BY <1>5, <1>7
<1>11. Phase({y}, sup)
  BY <1>2 DEF Phase, Resting
<1>12. \A j \in Slots : Alike(sup, {x} \cup Mounts(Q), sup, Mounts(new), j)
  <2>1. Uncounting({y})
    BY DEF Uncounting
  <2>2. AlikeMounts({x}, {y})
    BY <1>2, <2>1, UncountingAlike
  <2> QED
    BY <1>2, <1>10, <2>2, MountsAlike
<1>13. Leaves(td, td2, hd, hd2, t, kn2, new, h)
  BY DEF new, q
<1> HIDE DEF y, h
<1>14. Phase(Mounts(new), sup) /\ Even(Q, new, hd[t], h)
  BY <1>9, <1>10, <1>11 DEF h
<1> QED
  BY <1>2, <1>7, <1>12, <1>13, <1>14, AlikeStep

\* Two locals of the call are dropped.
PutsTwo(q, Q, i, j) == q = <<<<"iput", j>>>> \o (<<<<"iput", i>>>> \o Q)
LetsTwo(q, Q, h, g) == Calm(q, Len(g)) /\ Mounts(q) = Mounts(Q) /\ Even(Q, q, h, g)

LEMMA LetGoTwo ==
    ASSUME NEW Q \in Seq(Ops), NEW h \in Seq(Slots), Len(h) >= 2, Calm(Q, Len(h) - 2),
           NEW i, i = h[Len(h)], NEW j, j = h[Len(h) - 1], NEW new2, PutsTwo(new2, Q, i, j)
    PROVE  LetsTwo(new2, Q, h, Cut(h, 2))
<1>1. Len(h) \in Nat
  BY LenProperties
<1>2. Len(h) >= 1 /\ Len(h) >= 1 + 1 /\ 1 + 1 = 2 /\ Len(h) - 2 \in Nat
  BY <1>1
<1>3. PICK g \in Seq(Slots) : g = Cut(h, 1) /\ Sheds(h, g, i) /\ i \in Slots
  BY <1>2, CutTop
<1>4. PICK g2 \in Seq(Slots) : g2 = Cut(h, 2) /\ Len(g2) = Len(h) - 2 /\ Sheds(Cut(h, 1), g2, j) /\ j \in Slots
  BY <1>2, CutMore
<1>5. Sheds(g, g2, j) /\ Calm(Q, Len(g2)) /\ Len(g2) \in Nat
  BY <1>2, <1>3, <1>4
<1> DEFINE a == <<"iput", i>>
           b == <<"iput", j>>
           q == <<a>> \o Q
<1>6. Calm(q, Len(g2)) /\ Mounts(q) = Mounts(Q) /\ Splits(q, a, Q)
  BY <1>3, <1>5, PutAhead
<1>7. q \in Seq(Ops)
  BY <1>6 DEF Calm, Good
<1> HIDE DEF q
<1> DEFINE new == <<b>> \o q
<1>8. Calm(new, Len(g2)) /\ Mounts(new) = Mounts(q) /\ Splits(new, b, q)
  BY <1>4, <1>5, <1>6, PutAhead
<1>9. new \in Seq(Ops)
  BY <1>8 DEF Calm, Good
<1> HIDE DEF new
<1>10. Even(Q, new, h, g2)
  <2> SUFFICES ASSUME NEW k \in Slots
               PROVE  /\ Occ(h, Only(k)) + Occ(Q, Calls(k)) = Occ(g2, Only(k)) + Occ(new, Calls(k))
                      /\ Occ(new, Fills(k)) = Occ(Q, Fills(k))
    BY DEF Even
  <2>1. Occ(q, Calls(k)) = In(i, Only(k)) + Occ(Q, Calls(k)) /\ Occ(q, Fills(k)) = Occ(Q, Fills(k))
    BY <1>6, <1>7, PutSplit
  <2>2. Occ(new, Calls(k)) = In(j, Only(k)) + Occ(q, Calls(k)) /\ Occ(new, Fills(k)) = Occ(q, Fills(k))
    BY <1>7, <1>8, <1>9, PutSplit
  <2>3. PICK x \in Nat, y \in Nat, z \in Nat, w \in Nat :
          x = Occ(g2, Only(k)) /\ y = In(i, Only(k)) /\ z = In(j, Only(k)) /\ w = Occ(Q, Calls(k))
    BY WhereIsFinite, InIs
  <2>4. Occ(g, Only(k)) = x + z
    BY <1>5, <2>3 DEF Sheds
  <2>5. Occ(h, Only(k)) = x + z + y
    <3>1. Occ(g, Only(k)) + In(i, Only(k)) = Occ(h, Only(k))
      BY <1>3 DEF Sheds
    <3> QED
      BY <2>3, <2>4, <3>1
  <2>6. (x + z + y) + w = x + (z + (y + w))
    OBVIOUS
  <2>7. Occ(new, Calls(k)) = z + (y + w)
    BY <2>1, <2>2, <2>3
  <2> QED
    BY <2>1, <2>2, <2>3, <2>5, <2>6, <2>7
<1> QED
  BY <1>3, <1>4, <1>6, <1>8, <1>10 DEF new, q, PutsTwo, LetsTwo

LEMMA OntoGiveUpStep ==
    ASSUME NEW kn, NEW td, NEW sl, NEW sup, NEW hm, NEW hd, NEW t, NEW x, NEW Q,
           About(kn, td, sl, sup, hm, hd, t, x, Q), x[1] = "onto", OneMounter,
           NEW i, i = hd[t][Len(hd[t])], NEW j, j = hd[t][Len(hd[t]) - 1],
           NEW kn2, NEW td2, NEW hd2,
           Leaves(td, td2, hd, hd2, t, kn2, <<<<"iput", j>>>> \o (<<<<"iput", i>>>> \o Q), Cut(hd[t], 2))
    PROVE  IInvOf(kn2, td2, sl, sup, hm, hd2)
<1>1. Gain(x[1]) = -2 /\ Needs(x[1]) = 2
  BY DEF Gain, Needs
<1>2. /\ Mounts(Q) = {} /\ {x} \cup Mounts(Q) = {x} /\ IsMount(x) /\ Uncounting({x})
      /\ hd[t] \in Seq(Slots) /\ Len(hd[t]) \in Nat /\ SuperInv(sup) /\ Q \in Seq(Ops)
      /\ Calm(Q, Len(hd[t]) + Gain(x[1])) /\ Len(hd[t]) >= Needs(x[1]) /\ Phase({}, sup)
  BY FinalIs
<1>3. Calm(Q, Len(hd[t]) - 2) /\ Len(hd[t]) >= 2
  <2>1. Len(hd[t]) - 2 = Len(hd[t]) + Gain(x[1]) /\ Len(hd[t]) >= 2
    BY <1>1, <1>2
  <2> QED
    BY <1>2, <2>1
<1>0. PICK new : new = <<<<"iput", j>>>> \o (<<<<"iput", i>>>> \o Q)
  OBVIOUS
<1>4. /\ Calm(new, Len(Cut(hd[t], 2))) /\ Mounts(new) = Mounts(Q) /\ Even(Q, new, hd[t], Cut(hd[t], 2))
  <2>1. PICK h \in Seq(Slots) : h = hd[t]
    BY <1>2
  <2>2. Len(h) >= 2 /\ Calm(Q, Len(h) - 2) /\ i = h[Len(h)] /\ j = h[Len(h) - 1]
    BY <1>2, <1>3, <2>1
  <2>3. PutsTwo(new, Q, i, j)
    BY <1>0 DEF PutsTwo
  <2>4. LetsTwo(new, Q, h, Cut(h, 2))
    BY <1>2, <2>2, <2>3, LetGoTwo
  <2> QED
    BY <2>1, <2>4 DEF LetsTwo
<1>5. \A k \in Slots : Alike(sup, {x} \cup Mounts(Q), sup, Mounts(new), k)
  <2>1. Uncounting({})
    BY DEF Uncounting
  <2>2. AlikeMounts({x}, {})
    BY <1>2, <2>1, UncountingAlike
  <2> QED
    BY <1>2, <1>4, <2>2, MountsAlike
<1>6. Phase(Mounts(new), sup)
  BY <1>2, <1>4
<1>7. Leaves(td, td2, hd, hd2, t, kn2, new, Cut(hd[t], 2))
  BY <1>0
<1> QED
  BY <1>2, <1>4, <1>5, <1>6, <1>7, AlikeStep

-----------------------------------------------------------------------------
(* Changes of super_table.                                                 *)

SuperKeeps(sup, sup2, s) == \A u \in Supers : u # s => sup2[u] = sup[u]
SetsSuper(sup, sup2, s, r) == sup2 = [sup EXCEPT ![s] = r]

LEMMA PutRec ==
    ASSUME NEW sup, SuperInv(sup), NEW s \in Others, NEW r \in SuperRec, r.dev # Root,
           NEW sup2, SetsSuper(sup, sup2, s, r)
    PROVE  SuperInv(sup2) /\ SuperKeeps(sup, sup2, s) /\ sup2[s] = r
<1>1. sup \in [Supers -> SuperRec] /\ s \in Supers /\ s # 1
  BY DEF SuperInv, Others
<1>2. sup2 \in [Supers -> SuperRec] /\ sup2[s] = r /\ \A u \in Supers : u # s => sup2[u] = sup[u]
  BY <1>1 DEF SetsSuper
<1>3. sup2[1] = sup[1]
  BY <1>1, <1>2, InodeAssumption
<1>4. \A u \in Others : sup2[u].dev # Root
  BY <1>2 DEF SuperInv, Others
<1> QED
  BY <1>2, <1>3, <1>4 DEF SuperInv, SuperKeeps

Recounts(sup, sup2, s) == sup2 = [sup EXCEPT ![s].count = @ + 1]
Claims(sup, sup2, s) == sup2 = [sup EXCEPT ![s].dev = Disk, ![s].count = 1]
Attaches(sup, sup2, s, i, j) == sup2 = [sup EXCEPT ![s].iroot = i, ![s].imount = j]
Puts(sup, sup2, s) ==
    sup2 = [sup EXCEPT ![s].count = @ - 1, ![s].dev = IF sup[s].count = 1 THEN None ELSE @]
Clears(sup, sup2, s, f) == sup2 = [sup EXCEPT ![s][f] = None]
Roots(sup, sup2, s, i) == sup2 = [sup EXCEPT ![s].iroot = i]

Fields4(r, d, n, i, j) == r.dev = d /\ r.count = n /\ r.iroot = i /\ r.imount = j

LEMMA SuperRecIs ==
    ASSUME NEW sup, SuperInv(sup), NEW s \in Others
    PROVE  /\ sup[s] \in SuperRec /\ s \in Supers /\ s # 1 /\ sup \in [Supers -> SuperRec]
           /\ sup[s].dev # Root /\ sup[s].count \in Nat
           /\ sup[s].iroot \in Slots \cup {None} /\ sup[s].imount \in Slots \cup {None}
BY DEF SuperInv, Others, SuperRec

LEMMA RecountSuper ==
    ASSUME NEW sup, SuperInv(sup), NEW s \in Others, NEW sup2, Recounts(sup, sup2, s)
    PROVE  /\ SuperInv(sup2) /\ SuperKeeps(sup, sup2, s)
           /\ Fields4(sup2[s], sup[s].dev, sup[s].count + 1, sup[s].iroot, sup[s].imount)
<1> DEFINE r == [sup[s] EXCEPT !.count = @ + 1]
<1>1. sup[s] \in SuperRec /\ s \in Supers /\ sup \in [Supers -> SuperRec] /\ sup[s].dev # Root
  BY SuperRecIs
<1>2. r \in SuperRec /\ Fields4(r, sup[s].dev, sup[s].count + 1, sup[s].iroot, sup[s].imount)
  BY <1>1 DEF SuperRec, Fields4
<1>3. SetsSuper(sup, sup2, s, r)
  BY <1>1 DEF Recounts, SetsSuper
<1>4. r.dev # Root
  BY <1>1, <1>2 DEF Fields4
<1> HIDE DEF r
<1> QED
  BY <1>2, <1>3, <1>4, PutRec

LEMMA ClaimSuper ==
    ASSUME NEW sup, SuperInv(sup), NEW s \in Others, NEW sup2, Claims(sup, sup2, s)
    PROVE  /\ SuperInv(sup2) /\ SuperKeeps(sup, sup2, s)
           /\ Fields4(sup2[s], Disk, 1, sup[s].iroot, sup[s].imount)
<1> DEFINE r == [sup[s] EXCEPT !.dev = Disk, !.count = 1]
<1>1. sup[s] \in SuperRec /\ s \in Supers /\ sup \in [Supers -> SuperRec]
  BY SuperRecIs
<1>2. r \in SuperRec /\ Fields4(r, Disk, 1, sup[s].iroot, sup[s].imount)
  BY <1>1 DEF SuperRec, Fields4
<1>3. SetsSuper(sup, sup2, s, r)
  BY <1>1 DEF Claims, SetsSuper
<1>4. r.dev # Root
  BY <1>2, InodeAssumption DEF Fields4
<1> HIDE DEF r
<1> QED
  BY <1>2, <1>3, <1>4, PutRec

LEMMA AttachSuper ==
    ASSUME NEW sup, SuperInv(sup), NEW s \in Others, NEW i \in Slots, NEW j \in Slots,
           NEW sup2, Attaches(sup, sup2, s, i, j)
    PROVE  /\ SuperInv(sup2) /\ SuperKeeps(sup, sup2, s)
           /\ Fields4(sup2[s], sup[s].dev, sup[s].count, i, j)
<1> DEFINE r == [sup[s] EXCEPT !.iroot = i, !.imount = j]
<1>1. sup[s] \in SuperRec /\ s \in Supers /\ sup \in [Supers -> SuperRec] /\ sup[s].dev # Root
  BY SuperRecIs
<1>2. r \in SuperRec /\ Fields4(r, sup[s].dev, sup[s].count, i, j)
  BY <1>1 DEF SuperRec, Fields4
<1>3. SetsSuper(sup, sup2, s, r)
  BY <1>1 DEF Attaches, SetsSuper
<1>4. r.dev # Root
  BY <1>1, <1>2 DEF Fields4
<1> HIDE DEF r
<1> QED
  BY <1>2, <1>3, <1>4, PutRec

LEMMA RootSuper ==
    ASSUME NEW sup, SuperInv(sup), NEW s \in Others, NEW i \in Slots, NEW sup2, Roots(sup, sup2, s, i)
    PROVE  /\ SuperInv(sup2) /\ SuperKeeps(sup, sup2, s)
           /\ Fields4(sup2[s], sup[s].dev, sup[s].count, i, sup[s].imount)
<1> DEFINE r == [sup[s] EXCEPT !.iroot = i]
<1>1. sup[s] \in SuperRec /\ s \in Supers /\ sup \in [Supers -> SuperRec] /\ sup[s].dev # Root
  BY SuperRecIs
<1>2. r \in SuperRec /\ Fields4(r, sup[s].dev, sup[s].count, i, sup[s].imount)
  BY <1>1 DEF SuperRec, Fields4
<1>3. SetsSuper(sup, sup2, s, r)
  BY <1>1 DEF Roots, SetsSuper
<1>4. r.dev # Root
  BY <1>1, <1>2 DEF Fields4
<1> HIDE DEF r
<1> QED
  BY <1>2, <1>3, <1>4, PutRec

LEMMA PutsSuper ==
    ASSUME NEW sup, SuperInv(sup), NEW s \in Others, sup[s].count # 0, NEW sup2, Puts(sup, sup2, s)
    PROVE  /\ SuperInv(sup2) /\ SuperKeeps(sup, sup2, s)
           /\ Fields4(sup2[s], IF sup[s].count = 1 THEN None ELSE sup[s].dev, sup[s].count - 1,
                      sup[s].iroot, sup[s].imount)
<1> DEFINE d == IF sup[s].count = 1 THEN None ELSE sup[s].dev
           r == [sup[s] EXCEPT !.count = @ - 1, !.dev = d]
<1>1. /\ sup[s] \in SuperRec /\ s \in Supers /\ sup \in [Supers -> SuperRec] /\ sup[s].dev # Root
      /\ sup[s].count \in Nat
  BY SuperRecIs
<1>2. d \in {None, Root, Disk} /\ d # Root /\ sup[s].count - 1 \in Nat
  BY <1>1, InodeAssumption DEF SuperRec
<1>3. sup2 = [sup EXCEPT ![s] = [sup[s] EXCEPT !.count = @ - 1, !.dev = IF sup[s].count = 1 THEN None ELSE sup[s].dev]]
  BY <1>1 DEF Puts
<1>4. SetsSuper(sup, sup2, s, r)
  BY <1>3 DEF SetsSuper
<1> HIDE DEF d
<1>5. r \in SuperRec /\ Fields4(r, d, sup[s].count - 1, sup[s].iroot, sup[s].imount)
  BY <1>1, <1>2 DEF SuperRec, Fields4
<1>6. r.dev # Root
  BY <1>2, <1>5 DEF Fields4
<1> HIDE DEF r
<1>7. SuperInv(sup2) /\ SuperKeeps(sup, sup2, s) /\ sup2[s] = r
  BY <1>4, <1>5, <1>6, PutRec
<1> QED
  BY <1>5, <1>7 DEF d

LEMMA ClearSuper ==
    ASSUME NEW sup, SuperInv(sup), NEW s \in Others, NEW f \in Fields, NEW sup2, Clears(sup, sup2, s, f)
    PROVE  /\ SuperInv(sup2) /\ SuperKeeps(sup, sup2, s)
           /\ Fields4(sup2[s], sup[s].dev, sup[s].count,
                      IF f = "iroot" THEN None ELSE sup[s].iroot, IF f = "imount" THEN None ELSE sup[s].imount)
<1> DEFINE r == [sup[s] EXCEPT ![f] = None]
<1>1. sup[s] \in SuperRec /\ s \in Supers /\ sup \in [Supers -> SuperRec] /\ sup[s].dev # Root
  BY SuperRecIs
<1>2. f = "iroot" \/ f = "imount"
  BY DEF Fields
<1>3. /\ r \in SuperRec
      /\ Fields4(r, sup[s].dev, sup[s].count,
                      IF f = "iroot" THEN None ELSE sup[s].iroot, IF f = "imount" THEN None ELSE sup[s].imount)
  <2>1. CASE f = "iroot"
    <3>1. r = [sup[s] EXCEPT !.iroot = None]
      BY <2>1
    <3> QED
      BY <1>1, <2>1, <3>1 DEF SuperRec, Fields4
  <2>2. CASE f = "imount"
    <3>1. r = [sup[s] EXCEPT !.imount = None]
      BY <2>2
    <3> QED
      BY <1>1, <2>2, <3>1 DEF SuperRec, Fields4
  <2> QED
    BY <1>2, <2>1, <2>2
<1>4. SetsSuper(sup, sup2, s, r)
  BY <1>1 DEF Clears, SetsSuper
<1>5. r.dev # Root
  BY <1>1, <1>3 DEF Fields4
<1> HIDE DEF r
<1> QED
  BY <1>3, <1>4, <1>5, PutRec

LEMMA OffKeeps ==
    ASSUME NEW sup, NEW sup2, NEW s, SuperKeeps(sup, sup2, s)
    PROVE  /\ \A S \in SUBSET Supers : s \notin S /\ AllOff(sup, S) => AllOff(sup2, S)
           /\ First \in Supers /\ First # s => \A n : On(sup, n) <=> On(sup2, n)
BY DEF SuperKeeps, AllOff, Off, On

\* One micro-step of a mount in front of another, or of nothing.
LEMMA MountAhead ==
    ASSUME NEW y, IsMount(y), NEW Q, NEW n, Fit(y, Q, n), Calm(Q, n + Gain(y[1])), NEW q, q = <<y>> \o Q
    PROVE  Calm(q, n) /\ Mounts(q) = {y} \cup Mounts(Q) /\ SameRefs(q, Q)
<1>1. Calm(q, n) /\ Mounts(q) = {y} \cup Mounts(Q) /\ Splits(q, y, Q)
  BY CalmAhead
<1>2. q \in Seq(Ops) /\ Q \in Seq(Ops)
  BY <1>1 DEF Calm, Good
<1>3. y[1] \notin {"iput", "drop", "fill"}
  BY DEF IsMount, MountKinds
<1> QED
  BY <1>1, <1>2, <1>3, PlainSplit DEF SameRefs

LEMMA SmallPlain ==
    ASSUME NEW y, y[1] \notin {"iput", "drop", "fill"}, NEW Q, NEW n, Small(y, n), Calm(Q, n + Gain(y[1])),
           NEW q, q = <<y>> \o Q
    PROVE  Calm(q, n) /\ Mounts(q) = Mounts(Q) /\ SameRefs(q, Q)
<1>1. Calm(q, n) /\ Mounts(q) = Mounts(Q) /\ Splits(q, y, Q)
  BY SmallAhead
<1>2. q \in Seq(Ops) /\ Q \in Seq(Ops)
  BY <1>1 DEF Calm, Good
<1> QED
  BY <1>1, <1>2, PlainSplit DEF SameRefs

LEMMA RefsEven ==
    ASSUME NEW Q, NEW q, SameRefs(q, Q)
    PROVE  /\ \A h : Even(Q, q, h, h)
           /\ \A p, h, g : Even(p, Q, h, g) => Even(p, q, h, g)
BY DEF SameRefs, Even

-----------------------------------------------------------------------------
(* The micro-steps of mount.                                               *)

LEMMA MountGains ==
    /\ Gain("onto") = -2 /\ Needs("onto") = 2 /\ Gain("mounted") = -2 /\ Needs("mounted") = 2
    /\ Gain("made") = -2 /\ Needs("made") = 2 /\ Gain("attach") = -3 /\ Needs("attach") = 3
    /\ Gain("read") = 0 /\ Needs("read") = 0 /\ Gain("put") = 0 /\ Needs("put") = 0
    /\ Gain("release") = 0 /\ Needs("release") = 0 /\ Gain("clear") = 0 /\ Needs("clear") = 0
    /\ Gain("umount") = -1 /\ Needs("umount") = 1 /\ Gain("mkfs") = -1 /\ Needs("mkfs") = 1
    /\ Gain("isblk") = -1 /\ Needs("isblk") = 1
BY DEF Gain, Needs

\* None is no number of a slot or of a super block, and no device.
LEMMA Distinct ==
    /\ None \notin Slots /\ None \notin Supers /\ None # Root /\ None # Disk /\ Root # Disk
    /\ "pipe" # None /\ "pipe" # Root /\ "pipe" # Disk
    /\ 1 \in Slots /\ 1 \in Supers /\ 1 \in Names
BY InodeAssumption DEF Names

\* A task at a micro-step of a mount, an umount or mkfs: its inodes.
LEMMA MountHeld ==
    ASSUME NEW kn, NEW td, NEW sl, NEW sup, NEW hm, NEW hd, NEW t, NEW x, NEW Q,
           About(kn, td, sl, sup, hm, hd, t, x, Q), IsMount(x), OneMounter
    PROVE  /\ hd[t] \in Seq(Slots) /\ Len(hd[t]) \in Nat /\ Len(hd[t]) >= Needs(x[1]) /\ x \in Ops
           /\ Len(hd[t]) + Gain(x[1]) \in Nat
           /\ Calm(Q, Len(hd[t]) + Gain(x[1])) /\ Q \in Seq(Ops) /\ SlotInv(sl) /\ SuperInv(sup)
           /\ Phase({x} \cup Mounts(Q), sup) /\ x \notin Mounts(Q) /\ Above(x, Mounts(Q))
           /\ IInvOf(kn, td, sl, sup, hm, hd) /\ t \in Tasks
BY MountsIs, AboutIs

\* Super blocks whose fields keep their values and are counted as before.
LEMMA KeptAlike ==
    ASSUME NEW sup, NEW sup2, NEW s, SuperKeeps(sup, sup2, s),
           sup[s].dev # None, sup2[s].dev # None,
           sup2[s].iroot = sup[s].iroot, sup2[s].imount = sup[s].imount,
           NEW M, NEW M2, AlikeMounts(M, M2), NEW i
    PROVE  Alike(sup, M, sup2, M2, i)
<1> SUFFICES ASSUME NEW u \in Supers, NEW f \in Fields
             PROVE  CountsFor(sup, M, u, f, i) <=> CountsFor(sup2, M2, u, f, i)
  BY DEF Alike
<1>1. CASE u # s
  BY <1>1 DEF SuperKeeps, CountsFor, CountsIn, AlikeMounts
<1>2. CASE u = s
  <2>1. sup2[u][f] = sup[u][f]
    BY <1>2 DEF Fields
  <2> QED
    BY <1>2, <2>1 DEF CountsFor, CountsIn, AlikeMounts
<1> QED
  BY <1>1, <1>2

\* A super block none of whose fields counts, before and after.
Uncounted(sup, M, s) == sup[s].dev = None \/ (sup[s].imount = None /\ <<"put", s>> \notin M)

LEMMA UncountedAlike ==
    ASSUME NEW sup, NEW sup2, NEW s, SuperKeeps(sup, sup2, s), NEW M, NEW M2, AlikeMounts(M, M2),
           Uncounted(sup, M, s), Uncounted(sup2, M2, s), NEW i
    PROVE  Alike(sup, M, sup2, M2, i)
<1> SUFFICES ASSUME NEW u \in Supers, NEW f \in Fields
             PROVE  CountsFor(sup, M, u, f, i) <=> CountsFor(sup2, M2, u, f, i)
  BY DEF Alike
<1>1. CASE u # s
  BY <1>1 DEF SuperKeeps, CountsFor, CountsIn, AlikeMounts
<1>2. CASE u = s
  BY <1>2 DEF CountsFor, CountsIn, Uncounted
<1> QED
  BY <1>1, <1>2

\* The micro-step at which a super block is put does not change what counts
\* while the super block is mounted.
LEMMA MountedAlike ==
    ASSUME NEW sup, NEW s, sup[s].imount # None, NEW M, NEW M2,
           \A u \in Supers : u # s => <<"put", u>> \notin M /\ <<"put", u>> \notin M2,
           \A u \in Supers, f \in Fields : <<"clear", u, f>> \notin M /\ <<"clear", u, f>> \notin M2, NEW i
    PROVE  Alike(sup, M, sup, M2, i)
<1> SUFFICES ASSUME NEW u \in Supers, NEW f \in Fields
             PROVE  CountsFor(sup, M, u, f, i) <=> CountsFor(sup, M2, u, f, i)
  BY DEF Alike
<1>1. CASE u # s
  BY <1>1 DEF CountsFor, CountsIn
<1>2. CASE u = s
  BY <1>2 DEF CountsFor, CountsIn
<1> QED
  BY <1>1, <1>2

LEMMA OntoIs ==
    ASSUME NEW kn, NEW td, NEW sl, NEW sup, NEW hm, NEW hd, NEW t, NEW x, NEW Q,
           About(kn, td, sl, sup, hm, hd, t, x, Q), x[1] = "onto", OneMounter
    PROVE  /\ Q = << >> /\ Mounts(Q) = {} /\ {x} \cup Mounts(Q) = {x} /\ Idle(sup) /\ IsMount(x)
           /\ Uncounting({x}) /\ SuperInv(sup) /\ Calm(Q, Len(hd[t]) - 2) /\ Len(hd[t]) >= 2
           /\ Len(hd[t]) \in Nat /\ hd[t] \in Seq(Slots) /\ Phase({}, sup)
<1>1. Gain(x[1]) = -2 /\ Needs(x[1]) = 2
  BY MountGains
<1>2. /\ Mounts(Q) = {} /\ {x} \cup Mounts(Q) = {x} /\ Idle(sup) /\ IsMount(x)
      /\ Uncounting({x}) /\ SuperInv(sup) /\ Calm(Q, Len(hd[t]) + Gain(x[1])) /\ Len(hd[t]) >= Needs(x[1])
      /\ Len(hd[t]) \in Nat /\ hd[t] \in Seq(Slots) /\ Phase({}, sup)
  BY FinalIs
<1>3. Q = << >>
  BY FinalEmpty
<1>4. Len(hd[t]) + Gain(x[1]) = Len(hd[t]) - 2 /\ Len(hd[t]) >= 2
  BY <1>1, <1>2
<1> QED
  BY <1>2, <1>3, <1>4

\* The file system is in use already: it is counted once more.
LEMMA OntoAgainStep ==
    ASSUME NEW kn, NEW td, NEW sl, NEW sup, NEW hm, NEW hd, NEW t, NEW x, NEW Q,
           About(kn, td, sl, sup, hm, hd, t, x, Q), x[1] = "onto", OneMounter,
           NEW s, s = Found(sup, Disk), s # None, NEW sup2, Recounts(sup, sup2, s),
           NEW kn2, NEW td2, NEW hd2, Leaves(td, td2, hd, hd2, t, kn2, <<<<"mounted", s>>>> \o Q, hd[t])
    PROVE  IInvOf(kn2, td2, sl, sup2, hm, hd2)
<1>1. /\ Mounts(Q) = {} /\ {x} \cup Mounts(Q) = {x} /\ Idle(sup) /\ IsMount(x)
      /\ Uncounting({x}) /\ SuperInv(sup) /\ Calm(Q, Len(hd[t]) - 2) /\ Len(hd[t]) >= 2
      /\ Len(hd[t]) \in Nat /\ hd[t] \in Seq(Slots) /\ Phase({}, sup)
  BY OntoIs
<1>2. s = First /\ First \in Others /\ sup[First].dev = Disk
  BY <1>1, FoundDisk
<1>3. AllOff(sup, Others \ {First}) /\ On(sup, 1)
  BY <1>1, <1>2, Distinct DEF Idle, AllOff, Off
<1>4. /\ SuperInv(sup2) /\ SuperKeeps(sup, sup2, First)
      /\ Fields4(sup2[First], sup[First].dev, sup[First].count + 1, sup[First].iroot, sup[First].imount)
  BY <1>1, <1>2, RecountSuper
<1>5. AllOff(sup2, Others \ {First})
  <2>1. Others \ {First} \in SUBSET Supers /\ First \notin Others \ {First}
    BY DEF Others
  <2> QED
    BY <1>3, <1>4, <2>1, OffKeeps
<1>6. On(sup2, 2)
  BY <1>3, <1>4 DEF On, Fields4
<1> DEFINE y == <<"mounted", s>>
           q == <<y>> \o Q
<1>7. y \in Ops /\ y[1] = "mounted" /\ y = <<"mounted", First>>
  BY <1>2, OpsOfKinds
<1>8. IsMount(y) /\ Fit(y, Q, Len(hd[t])) /\ Calm(Q, Len(hd[t]) + Gain(y[1]))
  <2> HIDE DEF y
  <2>1. IsMount(y) /\ ~MayEnd(y) /\ y[1] # "homed" /\ y[1] # "clear" /\ y[1] \notin Finals
    BY <1>7 DEF IsMount, MountKinds, MayEnd, Finals
  <2>2. Gain(y[1]) = -2 /\ Needs(y[1]) = 2
    BY <1>7, MountGains
  <2>3. Len(hd[t]) + Gain(y[1]) = Len(hd[t]) - 2 /\ Len(hd[t]) - 2 \in Nat
    BY <1>1, <2>2
  <2>4. Above(y, Mounts(Q))
    BY <1>1 DEF Above
  <2> QED
    BY <1>1, <1>7, <2>1, <2>2, <2>3, <2>4 DEF Fit
<1> HIDE DEF y
<1>9. Calm(q, Len(hd[t])) /\ Mounts(q) = {y} /\ SameRefs(q, Q)
  <2>1. Calm(q, Len(hd[t])) /\ Mounts(q) = {y} \cup Mounts(Q) /\ SameRefs(q, Q)
    BY <1>8, MountAhead
  <2> QED
    BY <1>1, <2>1
<1>10. Leaves(td, td2, hd, hd2, t, kn2, q, hd[t])
  BY DEF y
<1> HIDE DEF q
<1>11. Phase(Mounts(q), sup2)
  BY <1>2, <1>5, <1>6, <1>7, <1>9 DEF Phase, Mounting
<1>12. \A i \in Slots : Alike(sup, {x} \cup Mounts(Q), sup2, Mounts(q), i)
  <2>1. Uncounting({y})
    BY <1>7 DEF Uncounting
  <2>2. AlikeMounts({x}, {y})
    BY <1>1, <2>1, UncountingAlike
  <2>3. /\ sup[First].dev # None /\ sup2[First].dev # None
        /\ sup2[First].iroot = sup[First].iroot /\ sup2[First].imount = sup[First].imount
    BY <1>2, <1>4, Distinct DEF Fields4
  <2> QED
    BY <1>1, <1>4, <1>9, <2>2, <2>3, KeptAlike
<1>13. Even(Q, q, hd[t], hd[t])
  BY <1>9, RefsEven
<1> QED
  BY <1>1, <1>4, <1>9, <1>10, <1>11, <1>12, <1>13, AlikeStep
\* A free super block of the table is one that mount or mkfs can take.
MayTake(sup, s) ==
    /\ s \in Others /\ First \in Others /\ sup[s].dev = None /\ sup[s].imount = None
    /\ AllOff(sup, Others \ {First, s}) /\ (s = First \/ On(sup, 1))
    /\ Found(sup, Disk) = None => s = First /\ AllOff(sup, Others)

LEMMA FreeSuper ==
    ASSUME NEW sup, SuperInv(sup), Idle(sup), Free(sup) # {}, NEW s, s = Min(Free(sup))
    PROVE  MayTake(sup, s)
<1>1. Free(sup) = {u \in Supers : sup[u].dev = None}
  BY DEF Free, SuperInv
<1>2. Free(sup) \in SUBSET Nat
  BY <1>1, InodeAssumption
<1>3. s \in Free(sup) /\ \A u \in Free(sup) : s <= u
  BY <1>2, MinIsIn
<1>4. s \in Others /\ sup[s].dev = None
  BY <1>1, <1>3, Distinct DEF SuperInv, Others
<1>5. First \in Others /\ First <= s /\ First \in Nat /\ s \in Nat
  BY <1>4, FirstIs
<1>6. CASE AllOff(sup, Others)
  <2>1. First \in Free(sup)
    BY <1>1, <1>5, <1>6 DEF AllOff, Off, Others
  <2>2. s <= First
    BY <1>3, <2>1
  <2>3. s = First
    BY <1>5, <2>2
  <2> QED
    BY <1>4, <1>5, <1>6, <2>3 DEF AllOff, Off, MayTake
<1>7. CASE AllOff(sup, Others \ {First}) /\ On(sup, 1)
  <2>1. s # First
    BY <1>4, <1>7, Distinct DEF On
  <2>2. Found(sup, Disk) # None
    BY <1>5, <1>7, FoundIs DEF On, Others
  <2> QED
    BY <1>4, <1>5, <1>7, <2>1, <2>2 DEF AllOff, Off, MayTake
<1> QED
  BY <1>6, <1>7 DEF Idle

\* read_super has chosen a free super block, which is not taken yet.
LEMMA OntoReadStep ==
    ASSUME NEW kn, NEW td, NEW sl, NEW sup, NEW hm, NEW hd, NEW t, NEW x, NEW Q,
           About(kn, td, sl, sup, hm, hd, t, x, Q), x[1] = "onto", OneMounter,
           Found(sup, Disk) = None, Free(sup) # {}, NEW s, s = Min(Free(sup)),
           NEW kn2, NEW td2, NEW hd2,
           Leaves(td, td2, hd, hd2, t, kn2, <<<<"read", s>>>> \o (<<<<"mounted", s>>>> \o Q), hd[t])
    PROVE  IInvOf(kn2, td2, sl, sup, hm, hd2)
<1>1. /\ Mounts(Q) = {} /\ {x} \cup Mounts(Q) = {x} /\ Idle(sup) /\ IsMount(x)
      /\ Uncounting({x}) /\ SuperInv(sup) /\ Calm(Q, Len(hd[t]) - 2) /\ Len(hd[t]) >= 2
      /\ Len(hd[t]) \in Nat /\ hd[t] \in Seq(Slots) /\ Phase({}, sup)
  BY OntoIs
<1>2. s = First /\ First \in Others /\ AllOff(sup, Others)
  <2>1. MayTake(sup, s)
    BY <1>1, FreeSuper
  <2> QED
    BY <2>1 DEF MayTake
<1> DEFINE y == <<"mounted", s>>
           z == <<"read", s>>
           q == <<y>> \o Q
           new == <<z>> \o q
<1>3. /\ y \in Ops /\ y[1] = "mounted" /\ y = <<"mounted", First>>
      /\ z \in Ops /\ z[1] = "read" /\ z = <<"read", First>>
  BY <1>2, OpsOfKinds
<1>4. IsMount(y) /\ Fit(y, Q, Len(hd[t])) /\ Calm(Q, Len(hd[t]) + Gain(y[1]))
  <2> HIDE DEF y, z
  <2>1. IsMount(y) /\ ~MayEnd(y) /\ y[1] # "homed" /\ y[1] # "clear" /\ y[1] \notin Finals
    BY <1>3 DEF IsMount, MountKinds, MayEnd, Finals
  <2>2. Gain(y[1]) = -2 /\ Needs(y[1]) = 2
    BY <1>3, MountGains
  <2>3. Len(hd[t]) + Gain(y[1]) = Len(hd[t]) - 2 /\ Len(hd[t]) - 2 \in Nat
    BY <1>1, <2>2
  <2>4. Above(y, Mounts(Q))
    BY <1>1 DEF Above
  <2> QED
    BY <1>1, <1>3, <2>1, <2>2, <2>3, <2>4 DEF Fit
<1>5. Rank(z) = 1 /\ Rank(y) = 2
  BY <1>3 DEF Rank
<1> HIDE DEF y, z
<1>6. Calm(q, Len(hd[t])) /\ Mounts(q) = {y} /\ SameRefs(q, Q)
  <2>1. Calm(q, Len(hd[t])) /\ Mounts(q) = {y} \cup Mounts(Q) /\ SameRefs(q, Q)
    BY <1>4, MountAhead
  <2> QED
    BY <1>1, <2>1
<1>7. IsMount(z) /\ Fit(z, q, Len(hd[t])) /\ Calm(q, Len(hd[t]) + Gain(z[1]))
  <2> HIDE DEF q
  <2>1. IsMount(z) /\ ~MayEnd(z) /\ z[1] # "homed" /\ z[1] # "clear" /\ z[1] \notin Finals
    BY <1>3 DEF IsMount, MountKinds, MayEnd, Finals
  <2>2. Gain(z[1]) = 0 /\ Needs(z[1]) = 0
    BY <1>3, MountGains
  <2>3. Len(hd[t]) + Gain(z[1]) = Len(hd[t])
    BY <1>1, <2>2
  <2>4. Above(z, Mounts(q))
    BY <1>5, <1>6 DEF Above
  <2> QED
    BY <1>1, <1>3, <1>6, <2>1, <2>2, <2>3, <2>4 DEF Fit
<1> HIDE DEF q
<1>8. Calm(new, Len(hd[t])) /\ Mounts(new) = {z} \cup Mounts(q) /\ SameRefs(new, q)
  BY <1>7, MountAhead
<1>9. Leaves(td, td2, hd, hd2, t, kn2, new, hd[t])
  BY DEF y, z, q
<1> HIDE DEF new
<1>10. Mounts(new) = {z, y}
  BY <1>6, <1>8
<1>11. Phase(Mounts(new), sup)
  <2>1. Mounting({z, y}, sup)
    BY <1>2, <1>3 DEF Mounting
  <2>2. AllOff(sup, Others \ {First})
    BY <1>2 DEF AllOff
  <2> QED
    BY <1>2, <1>10, <2>1, <2>2 DEF Phase
<1>12. \A i \in Slots : Alike(sup, {x} \cup Mounts(Q), sup, Mounts(new), i)
  <2>1. Uncounting({z, y})
    BY <1>3 DEF Uncounting
  <2>2. AlikeMounts({x}, {z, y})
    BY <1>1, <2>1, UncountingAlike
  <2> QED
    BY <1>1, <1>10, <2>2, MountsAlike
<1>13. Even(Q, new, hd[t], hd[t])
  <2>1. Even(Q, q, hd[t], hd[t])
    BY <1>6, RefsEven
  <2> QED
    BY <1>8, <2>1, RefsEven
<1>14. IsMount(x) /\ SuperInv(sup) /\ Calm(new, Len(hd[t]))
  BY <1>1, <1>8
<1> QED
  BY <1>9, <1>11, <1>12, <1>13, <1>14, AlikeStep

\* The super block is taken when its block has been read.
LEMMA ReadStep ==
    ASSUME NEW kn, NEW td, NEW sl, NEW sup, NEW hm, NEW hd, NEW t, NEW x, NEW Q,
           About(kn, td, sl, sup, hm, hd, t, x, Q), x[1] = "read", OneMounter,
           NEW sup2, Claims(sup, sup2, x[2]),
           NEW kn2, NEW td2, NEW hd2, Leaves(td, td2, hd, hd2, t, kn2, Q, hd[t])
    PROVE  IInvOf(kn2, td2, sl, sup2, hm, hd2)
<1>1. IsMount(x) /\ Gain(x[1]) = 0
  BY MountGains DEF IsMount, MountKinds
<1>2. /\ hd[t] \in Seq(Slots) /\ Len(hd[t]) \in Nat /\ Calm(Q, Len(hd[t]) + Gain(x[1])) /\ SuperInv(sup)
      /\ Phase({x} \cup Mounts(Q), sup) /\ x \notin Mounts(Q)
  BY <1>1, MountHeld
<1>3. Calm(Q, Len(hd[t]))
  <2>1. Len(hd[t]) + Gain(x[1]) = Len(hd[t])
    BY <1>1, <1>2
  <2> QED
    BY <1>2, <2>1
<1>4. First \in Others /\ x = <<"read", First>> /\ Mounts(Q) = {<<"mounted", First>>} /\ AllOff(sup, Others)
  BY <1>2, ReadHead
<1>5. x[2] = First
  BY <1>4
<1>6. /\ SuperInv(sup2) /\ SuperKeeps(sup, sup2, First)
      /\ Fields4(sup2[First], Disk, 1, sup[First].iroot, sup[First].imount)
  BY <1>2, <1>4, <1>5, ClaimSuper
<1>7. sup[First].dev = None /\ sup[First].imount = None
  BY <1>4 DEF AllOff, Off
<1>8. Half(sup2, First)
  BY <1>6, <1>7 DEF Half, Fields4
<1>9. AllOff(sup2, Others \ {First})
  <2>1. Others \ {First} \in SUBSET Supers /\ First \notin Others \ {First} /\ AllOff(sup, Others \ {First})
    BY <1>4 DEF Others, AllOff
  <2> QED
    BY <1>6, <2>1, OffKeeps
<1>10. Phase(Mounts(Q), sup2)
  BY <1>4, <1>8, <1>9 DEF Phase, Mounting
<1>11. \A i \in Slots : Alike(sup, {x} \cup Mounts(Q), sup2, Mounts(Q), i)
  <2>1. Uncounting(Mounts(Q)) /\ Uncounting({x} \cup Mounts(Q))
    BY <1>4 DEF Uncounting
  <2>2. AlikeMounts({x} \cup Mounts(Q), Mounts(Q))
    BY <2>1, UncountingAlike
  <2>3. <<"put", First>>[1] = "put"
    OBVIOUS
  <2>4. <<"put", First>> \notin Mounts(Q)
    BY <2>1, <2>3 DEF Uncounting
  <2>5. Uncounted(sup, {x} \cup Mounts(Q), First) /\ Uncounted(sup2, Mounts(Q), First)
    BY <1>7, <1>8, <2>4 DEF Uncounted, Half
  <2> QED
    BY <1>6, <2>2, <2>5, UncountedAlike
<1>12. Even(Q, Q, hd[t], hd[t])
  BY DEF Even
<1> QED
  BY <1>1, <1>3, <1>6, <1>10, <1>11, <1>12, AlikeStep
\* A directory is mounted on the device already: mount gives up.
LEMMA MountedGiveUpStep ==
    ASSUME NEW kn, NEW td, NEW sl, NEW sup, NEW hm, NEW hd, NEW t, NEW x, NEW Q,
           About(kn, td, sl, sup, hm, hd, t, x, Q), x[1] = "mounted", OneMounter, sup[x[2]].imount # None,
           NEW i, i = hd[t][Len(hd[t])], NEW j, j = hd[t][Len(hd[t]) - 1],
           NEW kn2, NEW td2, NEW hd2,
           Leaves(td, td2, hd, hd2, t, kn2,
                  <<<<"put", x[2]>>>> \o (<<<<"iput", j>>>> \o (<<<<"iput", i>>>> \o Q)), Cut(hd[t], 2))
    PROVE  IInvOf(kn2, td2, sl, sup, hm, hd2)
<1>1. IsMount(x) /\ Gain(x[1]) = -2 /\ Needs(x[1]) = 2
  BY MountGains DEF IsMount, MountKinds
<1>2. /\ hd[t] \in Seq(Slots) /\ Len(hd[t]) \in Nat /\ Calm(Q, Len(hd[t]) + Gain(x[1])) /\ SuperInv(sup)
      /\ Phase({x} \cup Mounts(Q), sup) /\ x \notin Mounts(Q) /\ Above(x, Mounts(Q))
      /\ Len(hd[t]) >= Needs(x[1]) /\ Q \in Seq(Ops)
  BY <1>1, MountHeld
<1>3. Calm(Q, Len(hd[t]) - 2) /\ Len(hd[t]) >= 2
  <2>1. Len(hd[t]) + Gain(x[1]) = Len(hd[t]) - 2 /\ Len(hd[t]) >= 2
    BY <1>1, <1>2
  <2> QED
    BY <1>2, <2>1
<1>4. /\ First \in Others /\ x = <<"mounted", First>> /\ Mounts(Q) = {} /\ AllOff(sup, Others \ {First})
      /\ On(sup, 2) \/ Half(sup, First)
  BY <1>2, MountedHead
<1>5. x[2] = First
  BY <1>4
<1>6. On(sup, 2) /\ sup[First].imount # None
  BY <1>4, <1>5 DEF Half
<1>7. PICK q : q = <<<<"iput", j>>>> \o (<<<<"iput", i>>>> \o Q)
  OBVIOUS
<1>8. PICK g : g = Cut(hd[t], 2)
  OBVIOUS
<1>9. Calm(q, Len(g)) /\ Mounts(q) = {} /\ Even(Q, q, hd[t], g)
  <2>1. PICK h \in Seq(Slots) : h = hd[t]
    BY <1>2
  <2>2. Len(h) >= 2 /\ Calm(Q, Len(h) - 2) /\ i = h[Len(h)] /\ j = h[Len(h) - 1]
    BY <1>3, <2>1
  <2>3. PutsTwo(q, Q, i, j)
    BY <1>7 DEF PutsTwo
  <2>4. LetsTwo(q, Q, h, Cut(h, 2))
    BY <1>2, <2>2, <2>3, LetGoTwo
  <2> QED
    BY <1>4, <1>8, <2>1, <2>4 DEF LetsTwo
<1>10. Len(g) \in Nat
  <2>1. PICK h \in Seq(Slots) : h = hd[t]
    BY <1>2
  <2>2. Len(h) \in Nat /\ 2 \in 0 .. Len(h)
    BY <1>2, <1>3, <2>1
  <2>3. Cut(h, 2) \in Seq(Slots)
    BY <2>2, CutIs
  <2> QED
    BY <1>8, <2>1, <2>3, LenProperties
<1> DEFINE y == <<"put", x[2]>>
           new == <<y>> \o q
<1>11. y \in Ops /\ y[1] = "put" /\ y = <<"put", First>>
  BY <1>4, <1>5, OpsOfKinds
<1>12. IsMount(y) /\ Fit(y, q, Len(g)) /\ Calm(q, Len(g) + Gain(y[1]))
  <2> HIDE DEF y
  <2>1. IsMount(y) /\ ~MayEnd(y) /\ y[1] # "homed" /\ y[1] # "clear" /\ y[1] \notin Finals
    BY <1>11 DEF IsMount, MountKinds, MayEnd, Finals
  <2>2. Gain(y[1]) = 0 /\ Needs(y[1]) = 0
    BY <1>11, MountGains
  <2>3. Len(g) + Gain(y[1]) = Len(g)
    BY <1>10, <2>2
  <2>4. Above(y, Mounts(q))
    BY <1>9 DEF Above
  <2> QED
    BY <1>9, <1>10, <1>11, <2>1, <2>2, <2>3, <2>4 DEF Fit
<1> HIDE DEF y
<1>13. Calm(new, Len(g)) /\ Mounts(new) = {y} /\ SameRefs(new, q)
  <2>1. Calm(new, Len(g)) /\ Mounts(new) = {y} \cup Mounts(q) /\ SameRefs(new, q)
    BY <1>12, MountAhead
  <2> QED
    BY <1>9, <2>1
<1>14. Leaves(td, td2, hd, hd2, t, kn2, new, g)
  BY <1>7, <1>8 DEF y
<1> HIDE DEF new
<1>15. Phase(Mounts(new), sup)
  BY <1>4, <1>6, <1>11, <1>13 DEF Phase, Mounting
<1>16. \A k \in Slots : Alike(sup, {x} \cup Mounts(Q), sup, Mounts(new), k)
  <2>1. \A u \in Supers : u # First => <<"put", u>> \notin {x} \cup Mounts(Q) /\ <<"put", u>> \notin Mounts(new)
    BY <1>4, <1>11, <1>13
  <2>2. \A u \in Supers, f \in Fields :
          <<"clear", u, f>> \notin {x} \cup Mounts(Q) /\ <<"clear", u, f>> \notin Mounts(new)
    BY <1>4, <1>11, <1>13
  <2> QED
    BY <1>6, <2>1, <2>2, MountedAlike
<1>17. Even(Q, new, hd[t], g)
  BY <1>9, <1>13, RefsEven
<1> QED
  BY <1>1, <1>2, <1>13, <1>14, <1>15, <1>16, <1>17, AlikeStep

\* mount goes on to the root of the file system.
LEMMA MountedGoStep ==
    ASSUME NEW kn, NEW td, NEW sl, NEW sup, NEW hm, NEW hd, NEW t, NEW x, NEW Q,
           About(kn, td, sl, sup, hm, hd, t, x, Q), x[1] = "mounted", OneMounter, sup[x[2]].imount = None,
           NEW kn2, NEW td2, NEW hd2,
           Leaves(td, td2, hd, hd2, t, kn2, <<<<"iget", Disk, 1>>>> \o (<<<<"attach", x[2]>>>> \o Q), hd[t])
    PROVE  IInvOf(kn2, td2, sl, sup, hm, hd2)
<1>1. IsMount(x) /\ Gain(x[1]) = -2 /\ Needs(x[1]) = 2
  BY MountGains DEF IsMount, MountKinds
<1>2. /\ hd[t] \in Seq(Slots) /\ Len(hd[t]) \in Nat /\ Calm(Q, Len(hd[t]) + Gain(x[1])) /\ SuperInv(sup)
      /\ Phase({x} \cup Mounts(Q), sup) /\ x \notin Mounts(Q) /\ Above(x, Mounts(Q))
      /\ Len(hd[t]) >= Needs(x[1]) /\ Q \in Seq(Ops)
  BY <1>1, MountHeld
<1>3. PICK n \in Nat : n = Len(hd[t]) + 1 /\ n >= 3 /\ Calm(Q, n - 3)
  <2>1. Len(hd[t]) + Gain(x[1]) = (Len(hd[t]) + 1) - 3 /\ Len(hd[t]) + 1 >= 3 /\ Len(hd[t]) + 1 \in Nat
    BY <1>1, <1>2
  <2> QED
    BY <1>2, <2>1
<1>4. /\ First \in Others /\ x = <<"mounted", First>> /\ Mounts(Q) = {} /\ AllOff(sup, Others \ {First})
      /\ On(sup, 2) \/ Half(sup, First)
  BY <1>2, MountedHead
<1>5. x[2] = First
  BY <1>4
<1>6. Half(sup, First)
  BY <1>4, <1>5, Distinct DEF On
<1> DEFINE y == <<"attach", x[2]>>
           z == <<"iget", Disk, 1>>
           q == <<y>> \o Q
           new == <<z>> \o q
<1>7. y \in Ops /\ y[1] = "attach" /\ y = <<"attach", First>> /\ z \in Ops /\ z[1] = "iget"
  BY <1>4, <1>5, OpsOfKinds, Distinct DEF Devs
<1>8. IsMount(y) /\ Fit(y, Q, n) /\ Calm(Q, n + Gain(y[1]))
  <2> HIDE DEF y, z
  <2>1. IsMount(y) /\ ~MayEnd(y) /\ y[1] # "homed" /\ y[1] # "clear" /\ y[1] \notin Finals
    BY <1>7 DEF IsMount, MountKinds, MayEnd, Finals
  <2>2. Gain(y[1]) = -3 /\ Needs(y[1]) = 3
    BY <1>7, MountGains
  <2>3. n + Gain(y[1]) = n - 3 /\ n - 3 \in Nat
    BY <1>3, <2>2
  <2>4. Above(y, Mounts(Q))
    BY <1>4 DEF Above
  <2> QED
    BY <1>3, <1>7, <2>1, <2>2, <2>3, <2>4 DEF Fit
<1>9. Small(z, Len(hd[t])) /\ Gain(z[1]) = 1
  BY <1>2, <1>7, SmallOps, Gains, Distinct DEF Devs
<1> HIDE DEF y, z
<1>10. Calm(q, n) /\ Mounts(q) = {y} /\ SameRefs(q, Q)
  <2>1. Calm(q, n) /\ Mounts(q) = {y} \cup Mounts(Q) /\ SameRefs(q, Q)
    BY <1>8, MountAhead
  <2> QED
    BY <1>4, <2>1
<1>11. Calm(q, Len(hd[t]) + Gain(z[1]))
  <2>1. Len(hd[t]) + Gain(z[1]) = n
    BY <1>3, <1>9
  <2> QED
    BY <1>10, <2>1
<1> HIDE DEF q
<1>12. Calm(new, Len(hd[t])) /\ Mounts(new) = {y} /\ SameRefs(new, q)
  <2>1. z[1] \notin {"iput", "drop", "fill"}
    BY <1>7
  <2> QED
    BY <1>9, <1>10, <1>11, <2>1, SmallPlain
<1>13. Leaves(td, td2, hd, hd2, t, kn2, new, hd[t])
  BY DEF y, z, q
<1> HIDE DEF new
<1>14. Phase(Mounts(new), sup)
  BY <1>4, <1>6, <1>7, <1>12 DEF Phase, Mounting
<1>15. \A i \in Slots : Alike(sup, {x} \cup Mounts(Q), sup, Mounts(new), i)
  <2>1. Uncounting({y}) /\ Uncounting({x})
    BY <1>1, <1>7, <1>4 DEF Uncounting
  <2>2. AlikeMounts({x}, {y})
    BY <2>1, UncountingAlike
  <2>3. {x} \cup Mounts(Q) = {x}
    BY <1>4
  <2> QED
    BY <1>12, <2>2, <2>3, MountsAlike
<1>16. Even(Q, new, hd[t], hd[t])
  <2>1. Even(Q, q, hd[t], hd[t])
    BY <1>10, RefsEven
  <2> QED
    BY <1>12, <2>1, RefsEven
<1> QED
  BY <1>1, <1>2, <1>12, <1>13, <1>14, <1>15, <1>16, AlikeStep

\* Two pointers of one super block that count from now on.
LEMMA FieldsCounted ==
    ASSUME NEW sup, NEW sup2, SuperKeeps(sup, sup2, First), First \in Others,
           NEW M, NEW M2, AlikeMounts(M, M2), Uncounted(sup, M, First),
           NEW i \in Slots, NEW j \in Slots, sup2[First].dev # None, sup2[First].imount = j,
           sup2[First].iroot = i, Uncounting(M2), NEW k
    PROVE  /\ SuperRefs(sup2, M2, k) = SuperRefs(sup, M, k) + In(i, Only(k)) + In(j, Only(k))
           /\ SuperRefs(sup, M, k) \in Nat /\ In(i, Only(k)) \in Nat /\ In(j, Only(k)) \in Nat
<1> DEFINE p == <<First, "iroot">>
           r == <<First, "imount">>
<1>1. p \in Supers \X Fields /\ r \in Supers \X Fields /\ p # r /\ First \in Supers
  BY DEF Others, Fields
<1>2. AlikeButTwo(sup, M, sup2, M2, k, p, r)
  <2> SUFFICES ASSUME NEW u \in Supers, NEW f \in Fields, <<u, f>> # p, <<u, f>> # r
               PROVE  CountsFor(sup, M, u, f, k) <=> CountsFor(sup2, M2, u, f, k)
    BY DEF AlikeButTwo
  <2>1. u # First
    BY DEF Fields
  <2> QED
    BY <2>1 DEF SuperKeeps, CountsFor, CountsIn, AlikeMounts
<1>3. p \notin SuperSet(sup, M, k) /\ r \notin SuperSet(sup, M, k)
  BY <1>1, InSuperSet DEF Uncounted, CountsFor, CountsIn, Fields
<1>4. sup2[First]["iroot"] = i /\ sup2[First]["imount"] = j /\ j # None
  BY Distinct
<1>5. (p \in SuperSet(sup2, M2, k) <=> i = k) /\ (r \in SuperSet(sup2, M2, k) <=> j = k)
  <2>0. \A f : <<"clear", First, f>> \notin M2
    <3>1. \A f : <<"clear", First, f>>[1] = "clear"
      OBVIOUS
    <3> QED
      BY <3>1 DEF Uncounting
  <2>1. CountsFor(sup2, M2, First, "iroot", k) <=> i = k
    BY <1>4, <2>0 DEF CountsFor, CountsIn, Fields
  <2>2. CountsFor(sup2, M2, First, "imount", k) <=> j = k
    BY <1>4, <2>0 DEF CountsFor, CountsIn, Fields
  <2> QED
    BY <1>1, <2>1, <2>2, InSuperSet DEF Fields
<1>6. /\ In(p, SuperSet(sup, M, k)) = 0 /\ In(r, SuperSet(sup, M, k)) = 0
      /\ In(p, SuperSet(sup2, M2, k)) = In(i, Only(k)) /\ In(r, SuperSet(sup2, M2, k)) = In(j, Only(k))
  BY <1>3, <1>5 DEF In, Only
<1>7. /\ SuperRefs(sup2, M2, k) + In(p, SuperSet(sup, M, k)) + In(r, SuperSet(sup, M, k))
              = SuperRefs(sup, M, k) + In(p, SuperSet(sup2, M2, k)) + In(r, SuperSet(sup2, M2, k))
      /\ SuperRefs(sup, M, k) \in Nat /\ SuperRefs(sup2, M2, k) \in Nat
  BY <1>1, <1>2, SuperPair
<1>8. In(i, Only(k)) \in Nat /\ In(j, Only(k)) \in Nat
  BY InIs
<1> QED
  BY <1>6, <1>7, <1>8
\* One pointer of a super block that does not count any more.
LEMMA FieldLost ==
    ASSUME NEW sup, NEW M, NEW sup2, NEW M2, NEW s \in Supers, NEW f \in Fields, NEW j, sup[s][f] = j,
           NEW k, AlikeBut(sup, M, sup2, M2, k, <<s, f>>),
           CountsIn(sup, M, s, f), ~CountsFor(sup2, M2, s, f, k)
    PROVE  /\ SuperRefs(sup, M, k) = SuperRefs(sup2, M2, k) + In(j, Only(k))
           /\ SuperRefs(sup2, M2, k) \in Nat /\ In(j, Only(k)) \in Nat
<1> DEFINE p == <<s, f>>
<1>1. p \in Supers \X Fields
  OBVIOUS
<1>2. (p \in SuperSet(sup, M, k) <=> j = k) /\ p \notin SuperSet(sup2, M2, k)
  BY InSuperSet DEF CountsFor
<1>3. In(p, SuperSet(sup, M, k)) = In(j, Only(k)) /\ In(p, SuperSet(sup2, M2, k)) = 0
  BY <1>2 DEF In, Only
<1>4. /\ SuperRefs(sup2, M2, k) + In(p, SuperSet(sup, M, k)) = SuperRefs(sup, M, k) + In(p, SuperSet(sup2, M2, k))
      /\ SuperRefs(sup, M, k) \in Nat /\ SuperRefs(sup2, M2, k) \in Nat
  BY <1>1, SuperPoint
<1>5. In(j, Only(k)) \in Nat
  BY InIs
<1> QED
  BY <1>3, <1>4, <1>5

\* The last three inodes of a task.
LEMMA CutThree ==
    ASSUME NEW h \in Seq(Slots), Len(h) >= 3, NEW i, i = h[Len(h)], NEW j, j = h[Len(h) - 1],
           NEW m, m = h[Len(h) - 2], NEW g, g = Cut(h, 3)
    PROVE  /\ g \in Seq(Slots) /\ Len(g) = Len(h) - 3 /\ i \in Slots /\ j \in Slots /\ m \in Slots
           /\ \A S : /\ Occ(h, S) = Occ(g, S) + In(i, S) + In(j, S) + In(m, S)
                     /\ Occ(g, S) \in Nat /\ In(i, S) \in Nat /\ In(j, S) \in Nat /\ In(m, S) \in Nat
<1>1. Len(h) \in Nat
  BY LenProperties
<1>2. Len(h) >= 1 /\ Len(h) >= 1 + 1 /\ Len(h) >= 2 + 1 /\ 1 + 1 = 2 /\ 2 + 1 = 3
  BY <1>1
<1>3. PICK a \in Seq(Slots) : a = Cut(h, 1) /\ Sheds(h, a, i) /\ i \in Slots
  BY <1>2, CutTop
<1>4. PICK b \in Seq(Slots) : b = Cut(h, 2) /\ Sheds(Cut(h, 1), b, j) /\ j \in Slots
  BY <1>2, CutMore
<1>5. g \in Seq(Slots) /\ Len(g) = Len(h) - 3 /\ Sheds(Cut(h, 2), g, m) /\ m \in Slots
  BY <1>2, CutMore
<1>6. Sheds(h, a, i) /\ Sheds(a, b, j) /\ Sheds(b, g, m)
  BY <1>3, <1>4, <1>5
<1>7. ASSUME NEW S
      PROVE  /\ Occ(h, S) = Occ(g, S) + In(i, S) + In(j, S) + In(m, S)
             /\ Occ(g, S) \in Nat /\ In(i, S) \in Nat /\ In(j, S) \in Nat /\ In(m, S) \in Nat
  <2>1. Occ(a, S) + In(i, S) = Occ(h, S) /\ Occ(b, S) + In(j, S) = Occ(a, S) /\ Occ(g, S) + In(m, S) = Occ(b, S)
    BY <1>6 DEF Sheds
  <2>2. Occ(g, S) \in Nat /\ In(i, S) \in Nat /\ In(j, S) \in Nat /\ In(m, S) \in Nat
    BY <1>5, WhereIsFinite, InIs
  <2>3. Occ(h, S) = ((Occ(g, S) + In(m, S)) + In(j, S)) + In(i, S)
    BY <2>1
  <2> HIDE <2>1
  <2>4. PICK w \in Nat, x \in Nat, y \in Nat, z \in Nat :
           w = Occ(g, S) /\ x = In(i, S) /\ y = In(j, S) /\ z = In(m, S)
    BY <2>2
  <2>5. ((w + z) + y) + x = w + x + y + z
    OBVIOUS
  <2> QED
    BY <2>2, <2>3, <2>4, <2>5
<1> QED
  BY <1>3, <1>4, <1>5, <1>7

\* The directory is covered, and both inodes belong to the super block.
LEMMA AttachStep ==
    ASSUME NEW kn, NEW td, NEW sl, NEW sup, NEW hm, NEW hd, NEW t, NEW x, NEW Q,
           About(kn, td, sl, sup, hm, hd, t, x, Q), x[1] = "attach", OneMounter,
           NEW i, i = hd[t][Len(hd[t])], NEW j, j = hd[t][Len(hd[t]) - 1], NEW m, m = hd[t][Len(hd[t]) - 2],
           NEW sup2, Attaches(sup, sup2, x[2], i, j), NEW sl2, Covers(sl, sl2, j, Disk),
           NEW kn2, NEW td2, NEW hd2,
           Leaves(td, td2, hd, hd2, t, kn2, <<<<"iput", m>>>> \o Q, Cut(hd[t], 3))
    PROVE  IInvOf(kn2, td2, sl2, sup2, hm, hd2)
<1>1. IsMount(x) /\ Gain(x[1]) = -3 /\ Needs(x[1]) = 3
  BY MountGains DEF IsMount, MountKinds
<1>2. /\ hd[t] \in Seq(Slots) /\ Len(hd[t]) \in Nat /\ Calm(Q, Len(hd[t]) + Gain(x[1])) /\ SuperInv(sup)
      /\ Phase({x} \cup Mounts(Q), sup) /\ x \notin Mounts(Q)
      /\ Len(hd[t]) >= Needs(x[1]) /\ Q \in Seq(Ops) /\ SlotInv(sl)
  BY <1>1, MountHeld
<1>3. /\ First \in Others /\ x = <<"attach", First>> /\ Mounts(Q) = {} /\ AllOff(sup, Others \ {First})
      /\ Half(sup, First)
  BY <1>2, AttachHead
<1>4. x[2] = First
  BY <1>3
<1>5. PICK h, g : h \in Seq(Slots) /\ h = hd[t] /\ g = Cut(h, 3) /\ Len(h) >= 3 /\ Calm(Q, Len(h) - 3)
  <2>1. Len(hd[t]) + Gain(x[1]) = Len(hd[t]) - 3 /\ Len(hd[t]) >= 3
    BY <1>1, <1>2
  <2> QED
    BY <1>2, <2>1
<1>6. /\ g \in Seq(Slots) /\ Len(g) = Len(h) - 3 /\ i \in Slots /\ j \in Slots /\ m \in Slots
      /\ \A S : /\ Occ(h, S) = Occ(g, S) + In(i, S) + In(j, S) + In(m, S)
                /\ Occ(g, S) \in Nat /\ In(i, S) \in Nat /\ In(j, S) \in Nat /\ In(m, S) \in Nat
  BY <1>5, CutThree
<1>7. /\ SuperInv(sup2) /\ SuperKeeps(sup, sup2, First)
      /\ Fields4(sup2[First], sup[First].dev, sup[First].count, i, j)
  BY <1>2, <1>3, <1>4, <1>6, AttachSuper
<1>8. SlotInv(sl2) /\ CountSame(sl, sl2) /\ UnreadSame(sl, sl2)
  BY <1>2, <1>6, CoverSlot
<1>9. On(sup2, 1)
  BY <1>3, <1>6, <1>7 DEF On, Half, Fields4
<1>10. AllOff(sup2, Others \ {First})
  <2>1. Others \ {First} \in SUBSET Supers /\ First \notin Others \ {First}
    BY DEF Others
  <2> QED
    BY <1>3, <1>7, <2>1, OffKeeps
<1>11. Phase({}, sup2)
  BY <1>3, <1>9, <1>10 DEF Phase, Resting, Idle
<1> DEFINE a == <<"iput", m>>
           new == <<a>> \o Q
<1>12. Calm(Q, Len(g)) /\ Len(g) \in Nat
  BY <1>5, <1>6, LenProperties
<1>13. Calm(new, Len(g)) /\ Mounts(new) = {} /\ Splits(new, a, Q)
  <2>1. Calm(new, Len(g)) /\ Mounts(new) = Mounts(Q) /\ Splits(new, a, Q)
    BY <1>6, <1>12, PutAhead
  <2> QED
    BY <1>3, <2>1
<1>14. new \in Seq(Ops)
  BY <1>13 DEF Calm, Good
<1>15. Leaves(td, td2, hd, hd2, t, kn2, new, g)
  BY <1>5
<1> HIDE DEF new
<1>16. MountEven(sup, sup2, {x} \cup Mounts(Q), Mounts(new), Q, new, hd[t], g)
  <2> SUFFICES ASSUME NEW k \in Slots
               PROVE  /\ Occ(h, Only(k)) + Occ(Q, Calls(k)) + SuperRefs(sup, {x}, k)
                           = Occ(g, Only(k)) + Occ(new, Calls(k)) + SuperRefs(sup2, {}, k)
                      /\ Occ(new, Fills(k)) = Occ(Q, Fills(k))
    <3>1. {x} \cup Mounts(Q) = {x}
      BY <1>3
    <3> QED
      BY <1>5, <1>13, <3>1 DEF MountEven
  <2>1. Occ(new, Calls(k)) = In(m, Only(k)) + Occ(Q, Calls(k)) /\ Occ(new, Fills(k)) = Occ(Q, Fills(k))
    BY <1>2, <1>13, <1>14, PutSplit
  <2>2. /\ SuperRefs(sup2, {}, k) = SuperRefs(sup, {x}, k) + In(i, Only(k)) + In(j, Only(k))
        /\ SuperRefs(sup, {x}, k) \in Nat
    <3>0. PICK M, M2 : M = {x} /\ M2 = {}
      OBVIOUS
    <3>1. Uncounting(M) /\ Uncounting(M2) /\ <<"put", First>> \notin M
      BY <1>3, <3>0 DEF Uncounting
    <3>2. AlikeMounts(M, M2)
      BY <3>1, UncountingAlike
    <3>3. Uncounted(sup, M, First)
      BY <1>3, <3>1 DEF Uncounted, Half
    <3>4. sup2[First].dev # None /\ sup2[First].imount = j /\ sup2[First].iroot = i
      BY <1>9, <1>7, Distinct DEF On, Fields4
    <3>5. /\ SuperRefs(sup2, M2, k) = SuperRefs(sup, M, k) + In(i, Only(k)) + In(j, Only(k))
          /\ SuperRefs(sup, M, k) \in Nat /\ In(i, Only(k)) \in Nat /\ In(j, Only(k)) \in Nat
      BY <1>3, <1>6, <1>7, <3>1, <3>2, <3>3, <3>4, FieldsCounted
    <3> QED
      BY <3>0, <3>5
  <2>3. Occ(h, Only(k)) = Occ(g, Only(k)) + In(i, Only(k)) + In(j, Only(k)) + In(m, Only(k))
    BY <1>6
  <2>4. PICK n1 \in Nat, n2 \in Nat, n3 \in Nat, n4 \in Nat, n5 \in Nat, n6 \in Nat :
           /\ n1 = Occ(g, Only(k)) /\ n2 = In(i, Only(k)) /\ n3 = In(j, Only(k)) /\ n4 = In(m, Only(k))
           /\ n5 = Occ(Q, Calls(k)) /\ n6 = SuperRefs(sup, {x}, k)
    <3>1. Occ(Q, Calls(k)) \in Nat
      BY <1>2, WhereIsFinite
    <3> QED
      BY <1>6, <2>2, <3>1
  <2>5. (n1 + n2 + n3 + n4) + n5 + n6 = n1 + (n4 + n5) + (n6 + n2 + n3)
    OBVIOUS
  <2>6. Occ(h, Only(k)) + Occ(Q, Calls(k)) + SuperRefs(sup, {x}, k) = (n1 + n2 + n3 + n4) + n5 + n6
    BY <2>3, <2>4
  <2>7. Occ(g, Only(k)) + Occ(new, Calls(k)) + SuperRefs(sup2, {}, k) = n1 + (n4 + n5) + (n6 + n2 + n3)
    BY <2>1, <2>2, <2>4
  <2> QED
    BY <2>1, <2>5, <2>6, <2>7
<1>17. Phase(Mounts(new), sup2)
  BY <1>11, <1>13
<1> QED
  BY <1>1, <1>7, <1>8, <1>13, <1>15, <1>16, <1>17, MountStep
-----------------------------------------------------------------------------
(* put_super.                                                              *)

\* A super block that stays in use.
LEMMA PutOneStep ==
    ASSUME NEW kn, NEW td, NEW sl, NEW sup, NEW hm, NEW hd, NEW t, NEW x, NEW Q,
           About(kn, td, sl, sup, hm, hd, t, x, Q), x[1] = "put", OneMounter,
           sup[x[2]].count > 1, NEW sup2, Puts(sup, sup2, x[2]),
           NEW kn2, NEW td2, NEW hd2, Leaves(td, td2, hd, hd2, t, kn2, Q, hd[t])
    PROVE  IInvOf(kn2, td2, sl, sup2, hm, hd2)
<1>1. IsMount(x) /\ Gain(x[1]) = 0
  BY MountGains DEF IsMount, MountKinds
<1>2. /\ hd[t] \in Seq(Slots) /\ Len(hd[t]) \in Nat /\ Calm(Q, Len(hd[t]) + Gain(x[1])) /\ SuperInv(sup)
      /\ Phase({x} \cup Mounts(Q), sup) /\ x \notin Mounts(Q) /\ Above(x, Mounts(Q))
  BY <1>1, MountHeld
<1>3. Calm(Q, Len(hd[t]))
  <2>1. Len(hd[t]) + Gain(x[1]) = Len(hd[t])
    BY <1>1, <1>2
  <2> QED
    BY <1>2, <2>1
<1>4. /\ Mounts(Q) = {}
      /\ \/ First \in Others /\ x = <<"put", First>> /\ On(sup, 2) /\ AllOff(sup, Others \ {First})
         \/ \E s \in Others : /\ x = <<"put", s>> /\ Half(sup, s) /\ AllOff(sup, Others \ {First, s})
                              /\ s = First \/ On(sup, 1)
  BY <1>2, PutHead
<1>5. First \in Others /\ x = <<"put", First>> /\ On(sup, 2) /\ AllOff(sup, Others \ {First})
  <2>1. ASSUME NEW s \in Others, x = <<"put", s>>, Half(sup, s)
        PROVE  FALSE
    <3>1. x[2] = s /\ sup[s].count = 1
      BY <2>1 DEF Half
    <3>2. sup[s].count > 1
      BY <3>1
    <3> QED
      BY <3>1, <3>2
  <2> QED
    BY <1>4, <2>1
<1>6. x[2] = First /\ sup[First].count = 2 /\ sup[First].dev = Disk
  BY <1>5 DEF On
<1>7. /\ SuperInv(sup2) /\ SuperKeeps(sup, sup2, First)
      /\ Fields4(sup2[First], IF sup[First].count = 1 THEN None ELSE sup[First].dev, sup[First].count - 1,
                      sup[First].iroot, sup[First].imount)
  BY <1>2, <1>5, <1>6, PutsSuper
<1>8. On(sup2, 1)
  BY <1>5, <1>6, <1>7 DEF On, Fields4
<1>9. AllOff(sup2, Others \ {First})
  <2>1. Others \ {First} \in SUBSET Supers /\ First \notin Others \ {First}
    BY DEF Others
  <2> QED
    BY <1>5, <1>7, <2>1, OffKeeps
<1>10. Phase(Mounts(Q), sup2)
  BY <1>4, <1>5, <1>8, <1>9 DEF Phase, Resting, Idle
<1>11. \A i \in Slots : Alike(sup, {x} \cup Mounts(Q), sup2, Mounts(Q), i)
  <2> SUFFICES ASSUME NEW i \in Slots, NEW u \in Supers, NEW f \in Fields
               PROVE  CountsFor(sup, {x}, u, f, i) <=> CountsFor(sup2, {}, u, f, i)
    <3>1. {x} \cup Mounts(Q) = {x} /\ Mounts(Q) = {}
      BY <1>4
    <3> QED
      BY <3>1 DEF Alike
  <2>1. <<"clear", u, f>> # x
    BY <1>5
  <2>2. CASE u # First
    <3>1. <<"put", u>> # x
      BY <1>5, <2>2
    <3> QED
      BY <1>7, <2>1, <2>2, <3>1 DEF SuperKeeps, CountsFor, CountsIn
  <2>3. CASE u = First
    <3>1. /\ sup2[u][f] = sup[u][f] /\ sup2[u].dev = Disk /\ sup[u].dev = Disk
          /\ sup2[u].imount # None /\ sup[u].imount # None
      BY <1>5, <1>7, <1>8, <2>3, Distinct DEF Fields, Fields4, On
    <3> QED
      BY <2>1, <3>1 DEF CountsFor, CountsIn
  <2> QED
    BY <2>2, <2>3
<1>12. Even(Q, Q, hd[t], hd[t])
  BY DEF Even
<1> QED
  BY <1>1, <1>3, <1>7, <1>10, <1>11, <1>12, AlikeStep

\* The last use of a super block: what the micro-step finds and does.
LEMMA PutLastIs ==
    ASSUME NEW kn, NEW td, NEW sl, NEW sup, NEW hm, NEW hd, NEW t, NEW x, NEW Q,
           About(kn, td, sl, sup, hm, hd, t, x, Q), x[1] = "put", OneMounter,
           sup[x[2]].count = 1, NEW sup2, Puts(sup, sup2, x[2])
    PROVE  /\ x[2] \in Others /\ x = <<"put", x[2]>> /\ sup[x[2]].imount = None
           /\ IsMount(x) /\ Calm(Q, Len(hd[t])) /\ Mounts(Q) = {} /\ {x} \cup Mounts(Q) = {x}
           /\ SuperInv(sup2) /\ Phase({}, sup2) /\ SuperKeeps(sup, sup2, x[2])
           /\ sup2[x[2]].dev = None /\ sup[x[2]].dev = Disk
           /\ hd[t] \in Seq(Slots) /\ Len(hd[t]) \in Nat /\ Q \in Seq(Ops) /\ SlotInv(sl)
<1>1. IsMount(x) /\ Gain(x[1]) = 0
  BY MountGains DEF IsMount, MountKinds
<1>2. /\ hd[t] \in Seq(Slots) /\ Len(hd[t]) \in Nat /\ Calm(Q, Len(hd[t]) + Gain(x[1])) /\ SuperInv(sup)
      /\ Phase({x} \cup Mounts(Q), sup) /\ x \notin Mounts(Q) /\ Above(x, Mounts(Q))
      /\ Q \in Seq(Ops) /\ SlotInv(sl)
  BY <1>1, MountHeld
<1>3. Calm(Q, Len(hd[t]))
  <2>1. Len(hd[t]) + Gain(x[1]) = Len(hd[t])
    BY <1>1, <1>2
  <2> QED
    BY <1>2, <2>1
<1>4. /\ Mounts(Q) = {}
      /\ \/ First \in Others /\ x = <<"put", First>> /\ On(sup, 2) /\ AllOff(sup, Others \ {First})
         \/ \E s \in Others : /\ x = <<"put", s>> /\ Half(sup, s) /\ AllOff(sup, Others \ {First, s})
                              /\ s = First \/ On(sup, 1)
  BY <1>2, PutHead
<1>5. PICK s \in Others : /\ x = <<"put", s>> /\ Half(sup, s) /\ AllOff(sup, Others \ {First, s})
                          /\ s = First \/ On(sup, 1)
  <2>1. ~On(sup, 2) \/ x # <<"put", First>>
    BY DEF On
  <2> QED
    BY <1>4, <2>1
<1>6. x[2] = s /\ First \in Others /\ First \in Supers /\ s \in Supers
  BY <1>5, FirstIs DEF Others
<1>7. /\ SuperInv(sup2) /\ SuperKeeps(sup, sup2, s)
      /\ Fields4(sup2[s], IF sup[s].count = 1 THEN None ELSE sup[s].dev, sup[s].count - 1,
                      sup[s].iroot, sup[s].imount)
  BY <1>2, <1>5, <1>6, PutsSuper
<1>8. Off(sup2, s) /\ sup[s].dev = Disk /\ sup[s].imount = None
  BY <1>5, <1>6, <1>7 DEF Half, Off, Fields4
<1>9. AllOff(sup2, Others \ {First, s})
  <2>1. Others \ {First, s} \in SUBSET Supers /\ s \notin Others \ {First, s}
    BY DEF Others
  <2> QED
    BY <1>5, <1>7, <2>1, OffKeeps
<1>10. Idle(sup2)
  <2>1. CASE s = First
    <3>1. AllOff(sup2, Others)
      BY <1>8, <1>9, <2>1 DEF AllOff
    <3> QED
      BY <3>1 DEF Idle
  <2>2. CASE s # First
    <3>1. On(sup2, 1)
      BY <1>5, <1>6, <1>7, <2>2, OffKeeps
    <3>2. AllOff(sup2, Others \ {First})
      BY <1>8, <1>9 DEF AllOff
    <3> QED
      BY <1>6, <3>1, <3>2 DEF Idle
  <2> QED
    BY <2>1, <2>2
<1>11. Phase({}, sup2)
  BY <1>10 DEF Phase, Resting
<1>12. sup2[s].dev = None
  BY <1>8 DEF Off
<1>13. {x} \cup Mounts(Q) = {x}
  BY <1>4
<1> QED
  BY <1>1, <1>2, <1>3, <1>4, <1>5, <1>6, <1>7, <1>8, <1>11, <1>12, <1>13

\* What the other super blocks count for.
LEMMA PutLastBut ==
    ASSUME NEW sup, NEW sup2, NEW s, NEW x, x = <<"put", s>>, SuperKeeps(sup, sup2, s), sup[s].imount = None,
           sup2[s].dev = None, NEW k \in Slots
    PROVE  AlikeBut(sup, {x}, sup2, {}, k, <<s, "iroot">>)
<1> SUFFICES ASSUME NEW u \in Supers, NEW f \in Fields, <<u, f>> # <<s, "iroot">>
             PROVE  CountsFor(sup, {x}, u, f, k) <=> CountsFor(sup2, {}, u, f, k)
  BY DEF AlikeBut
<1>1. <<"clear", u, f>> # x
  OBVIOUS
<1>2. CASE u = s
  <2>1. f = "imount"
    BY <1>2 DEF Fields
  <2>2. sup[s][f] # k
    BY <2>1, Distinct
  <2> QED
    BY <1>2, <2>2 DEF CountsFor, CountsIn
<1>3. CASE u # s
  <2>1. <<"put", u>> # x
    BY <1>3
  <2> QED
    BY <1>1, <1>3, <2>1 DEF CountsFor, CountsIn, SuperKeeps
<1> QED
  BY <1>2, <1>3

LEMMA PutFreeStep ==
    ASSUME NEW kn, NEW td, NEW sl, NEW sup, NEW hm, NEW hd, NEW t, NEW x, NEW Q,
           About(kn, td, sl, sup, hm, hd, t, x, Q), x[1] = "put", OneMounter,
           sup[x[2]].count = 1, NEW sup2, Puts(sup, sup2, x[2]), sup[x[2]].iroot = None,
           NEW kn2, NEW td2, NEW hd2, Leaves(td, td2, hd, hd2, t, kn2, Q, hd[t])
    PROVE  IInvOf(kn2, td2, sl, sup2, hm, hd2)
<1>1. PICK s : s = x[2]
  OBVIOUS
<1>2. /\ s \in Others /\ x = <<"put", s>> /\ sup[s].imount = None
      /\ IsMount(x) /\ Calm(Q, Len(hd[t])) /\ Mounts(Q) = {} /\ {x} \cup Mounts(Q) = {x}
      /\ SuperInv(sup2) /\ Phase({}, sup2) /\ SuperKeeps(sup, sup2, s)
      /\ sup2[s].dev = None /\ sup[s].dev = Disk
  <2>1. /\ x[2] \in Others /\ x = <<"put", x[2]>> /\ sup[x[2]].imount = None
        /\ IsMount(x) /\ Calm(Q, Len(hd[t])) /\ Mounts(Q) = {} /\ {x} \cup Mounts(Q) = {x}
        /\ SuperInv(sup2) /\ Phase({}, sup2) /\ SuperKeeps(sup, sup2, x[2])
        /\ sup2[x[2]].dev = None /\ sup[x[2]].dev = Disk
        /\ hd[t] \in Seq(Slots) /\ Len(hd[t]) \in Nat /\ Q \in Seq(Ops) /\ SlotInv(sl)
    BY PutLastIs
  <2> QED
    BY <1>1, <2>1
<1>3. ASSUME NEW k \in Slots
      PROVE  Alike(sup, {x}, sup2, {}, k)
  <2>1. AlikeBut(sup, {x}, sup2, {}, k, <<s, "iroot">>)
    BY <1>2, PutLastBut
  <2> SUFFICES ASSUME NEW u \in Supers, NEW f \in Fields
               PROVE  CountsFor(sup, {x}, u, f, k) <=> CountsFor(sup2, {}, u, f, k)
    BY DEF Alike
  <2>2. CASE <<u, f>> # <<s, "iroot">>
    BY <2>1, <2>2 DEF AlikeBut
  <2>3. CASE u = s /\ f = "iroot"
    <3>1. sup[u][f] # k
      BY <1>1, <2>3, Distinct
    <3> QED
      BY <1>2, <2>3, <3>1 DEF CountsFor, CountsIn
  <2> QED
    BY <2>2, <2>3
<1>4. Even(Q, Q, hd[t], hd[t])
  BY DEF Even
<1>5. Phase(Mounts(Q), sup2) /\ \A k \in Slots : Alike(sup, {x} \cup Mounts(Q), sup2, Mounts(Q), k)
  BY <1>2, <1>3
<1> QED
  BY <1>2, <1>4, <1>5, AlikeStep

LEMMA PutRootStep ==
    ASSUME NEW kn, NEW td, NEW sl, NEW sup, NEW hm, NEW hd, NEW t, NEW x, NEW Q,
           About(kn, td, sl, sup, hm, hd, t, x, Q), x[1] = "put", OneMounter,
           sup[x[2]].count = 1, NEW sup2, Puts(sup, sup2, x[2]), NEW j \in Slots, sup[x[2]].iroot = j,
           NEW kn2, NEW td2, NEW hd2, Leaves(td, td2, hd, hd2, t, kn2, <<<<"iput", j>>>> \o Q, hd[t])
    PROVE  IInvOf(kn2, td2, sl, sup2, hm, hd2)
<1>1. PICK s : s = x[2]
  OBVIOUS
<1>2. /\ s \in Others /\ x = <<"put", s>> /\ sup[s].imount = None
      /\ IsMount(x) /\ Calm(Q, Len(hd[t])) /\ Mounts(Q) = {} /\ {x} \cup Mounts(Q) = {x}
      /\ SuperInv(sup2) /\ Phase({}, sup2) /\ SuperKeeps(sup, sup2, s)
      /\ sup2[s].dev = None /\ sup[s].dev = Disk
      /\ hd[t] \in Seq(Slots) /\ Len(hd[t]) \in Nat /\ Q \in Seq(Ops) /\ SlotInv(sl)
  <2>1. /\ x[2] \in Others /\ x = <<"put", x[2]>> /\ sup[x[2]].imount = None
        /\ IsMount(x) /\ Calm(Q, Len(hd[t])) /\ Mounts(Q) = {} /\ {x} \cup Mounts(Q) = {x}
        /\ SuperInv(sup2) /\ Phase({}, sup2) /\ SuperKeeps(sup, sup2, x[2])
        /\ sup2[x[2]].dev = None /\ sup[x[2]].dev = Disk
        /\ hd[t] \in Seq(Slots) /\ Len(hd[t]) \in Nat /\ Q \in Seq(Ops) /\ SlotInv(sl)
    BY PutLastIs
  <2> QED
    BY <1>1, <2>1
<1> DEFINE a == <<"iput", j>>
           new == <<a>> \o Q
<1>3. Calm(new, Len(hd[t])) /\ Mounts(new) = {} /\ Splits(new, a, Q)
  <2>1. Calm(new, Len(hd[t])) /\ Mounts(new) = Mounts(Q) /\ Splits(new, a, Q)
    BY <1>2, PutAhead
  <2> QED
    BY <1>2, <2>1
<1>4. new \in Seq(Ops)
  BY <1>3 DEF Calm, Good
<1>5. Leaves(td, td2, hd, hd2, t, kn2, new, hd[t])
  OBVIOUS
<1> HIDE DEF new
<1>6. MountEven(sup, sup2, {x} \cup Mounts(Q), Mounts(new), Q, new, hd[t], hd[t])
  <2> SUFFICES ASSUME NEW k \in Slots
               PROVE  /\ Occ(hd[t], Only(k)) + Occ(Q, Calls(k)) + SuperRefs(sup, {x}, k)
                           = Occ(hd[t], Only(k)) + Occ(new, Calls(k)) + SuperRefs(sup2, {}, k)
                      /\ Occ(new, Fills(k)) = Occ(Q, Fills(k))
    BY <1>2, <1>3 DEF MountEven
  <2>1. Occ(new, Calls(k)) = In(j, Only(k)) + Occ(Q, Calls(k)) /\ Occ(new, Fills(k)) = Occ(Q, Fills(k))
    BY <1>2, <1>3, <1>4, PutSplit
  <2>2. /\ SuperRefs(sup, {x}, k) = SuperRefs(sup2, {}, k) + In(j, Only(k))
        /\ SuperRefs(sup2, {}, k) \in Nat /\ In(j, Only(k)) \in Nat
    <3>1. AlikeBut(sup, {x}, sup2, {}, k, <<s, "iroot">>)
      BY <1>2, PutLastBut
    <3>2. s \in Supers /\ "iroot" \in Fields /\ sup[s]["iroot"] = j
      BY <1>1, <1>2 DEF Others, Fields
    <3>3. CountsIn(sup, {x}, s, "iroot")
      BY <1>2, Distinct DEF CountsIn
    <3>4. ~CountsFor(sup2, {}, s, "iroot", k)
      BY <1>2 DEF CountsFor, CountsIn
    <3> QED
      BY <3>1, <3>2, <3>3, <3>4, FieldLost
  <2>3. PICK n1 \in Nat, n2 \in Nat, n3 \in Nat, n4 \in Nat :
          /\ n1 = Occ(hd[t], Only(k)) /\ n2 = In(j, Only(k)) /\ n3 = Occ(Q, Calls(k))
          /\ n4 = SuperRefs(sup2, {}, k)
    BY <1>2, <2>2, WhereIsFinite
  <2>4. n1 + n3 + (n4 + n2) = n1 + (n2 + n3) + n4
    OBVIOUS
  <2> QED
    BY <2>1, <2>2, <2>3, <2>4
<1>7. Phase(Mounts(new), sup2) /\ CountSame(sl, sl) /\ UnreadSame(sl, sl)
  BY <1>2, <1>3, SlotSelf
<1> QED
  BY <1>2, <1>3, <1>5, <1>6, <1>7, MountStep
-----------------------------------------------------------------------------
(* umount.                                                                 *)

\* The super block that umount has chosen.
Chosen(sup, sl, i, s) ==
    /\ i # sup[Found(sup, Root)].imount /\ s # None
    /\ s = Found(sup, Disk) \/ (s = Found(sup, sl[i].dev) /\ sl[i].nr = 1)

\* What passes the checks of umount is the root directory of the mounted file
\* system, or its device.
LEMMA UmountIs ==
    ASSUME NEW kn, NEW td, NEW sl, NEW sup, NEW hm, NEW hd, NEW t, NEW x, NEW Q,
           About(kn, td, sl, sup, hm, hd, t, x, Q), x[1] = "umount", OneMounter,
           NEW i, i = hd[t][Len(hd[t])], NEW s, Chosen(sup, sl, i, s)
    PROVE  s = First /\ First \in Others /\ AllOff(sup, Others \ {First}) /\ On(sup, 1)
<1>0. /\ i # sup[Found(sup, Root)].imount /\ s # None
      /\ s = Found(sup, Disk) \/ (s = Found(sup, sl[i].dev) /\ sl[i].nr = 1)
  BY DEF Chosen
<1>1. /\ IInvOf(kn, td, sl, sup, hm, hd) /\ t \in Tasks /\ SlotInv(sl) /\ SuperInv(sup)
      /\ Idle(sup) /\ Phase({}, sup) /\ Len(hd[t]) \in Nat /\ Len(hd[t]) >= Needs(x[1])
  <2>1. /\ SlotInv(sl) /\ SuperInv(sup) /\ Idle(sup) /\ Phase({}, sup)
        /\ Len(hd[t]) \in Nat /\ Len(hd[t]) >= Needs(x[1])
    BY FinalIs
  <2> QED
    BY <2>1 DEF About
<1>2. i \in Slots /\ sl[i].dev # None
  <2>1. Needs(x[1]) = 1
    BY MountGains
  <2>2. PICK k \in 1 .. Len(hd[t]) : k = Len(hd[t])
    BY <1>1, <2>1
  <2> QED
    BY <1>1, <2>2, HeldInUse
<1>3. i # 1
  <2>1. Found(sup, Root) = 1 /\ sup[1].imount = 1
    BY <1>1, FoundIs DEF SuperInv
  <2> QED
    BY <1>0, <2>1
<1>4. s = Found(sup, Disk)
  <2> SUFFICES ASSUME s = Found(sup, sl[i].dev), sl[i].nr = 1
               PROVE  sl[i].dev = Disk
    BY <1>0
  <2>1. s \in Supers /\ sup[s].dev = sl[i].dev
    BY <1>0, <1>1, FoundIs
  <2>2. sup[s].dev \in {None, Root, Disk}
    BY <1>1, <2>1 DEF SuperInv, SuperRec
  <2>3. CASE sl[i].dev = Root
    <3>1. SameInode(sl[i], sl[1])
      BY <1>1, <2>3, Distinct DEF SlotInv, SameInode, Listed
    <3> QED
      BY <1>1, <1>2, <1>3, <3>1, Distinct DEF SlotInv
  <2> QED
    BY <1>2, <2>1, <2>2, <2>3
<1>5. s = First /\ First \in Others /\ sup[First].dev = Disk
  BY <1>0, <1>1, <1>4, FoundDisk
<1> QED
  BY <1>1, <1>5, Distinct DEF Idle, AllOff, Off

LEMMA UmountStep ==
    ASSUME NEW kn, NEW td, NEW sl, NEW sup, NEW hm, NEW hd, NEW t, NEW x, NEW Q,
           About(kn, td, sl, sup, hm, hd, t, x, Q), x[1] = "umount", OneMounter,
           NEW i, i = hd[t][Len(hd[t])],
           NEW s, s = First, First \in Others, AllOff(sup, Others \ {First}), On(sup, 1),
           NEW kn2, NEW td2, NEW hd2,
           Leaves(td, td2, hd, hd2, t, kn2,
                  <<<<"release", s, "iroot">>>> \o (<<<<"release", s, "imount">>>>
                    \o (<<<<"put", s>>>> \o (<<<<"iput", i>>>> \o Q))), Cut(hd[t], 1))
    PROVE  IInvOf(kn2, td2, sl, sup, hm, hd2)
<1>1. Gain(x[1]) = -1 /\ Needs(x[1]) = 1
  BY MountGains
<1>2. /\ Mounts(Q) = {} /\ {x} \cup Mounts(Q) = {x} /\ IsMount(x) /\ Uncounting({x})
      /\ hd[t] \in Seq(Slots) /\ Len(hd[t]) \in Nat /\ SuperInv(sup) /\ Q \in Seq(Ops)
      /\ Calm(Q, Len(hd[t]) + Gain(x[1])) /\ Len(hd[t]) >= Needs(x[1])
  BY FinalIs
<1>3. PICK g \in Seq(Slots) : g = Cut(hd[t], 1) /\ Len(g) = Len(hd[t]) - 1 /\ Sheds(hd[t], g, i) /\ i \in Slots
  <2>1. Len(hd[t]) >= 1
    BY <1>1, <1>2
  <2> QED
    BY <1>2, <2>1, CutTop
<1>4. Calm(Q, Len(g)) /\ Len(g) \in Nat
  <2>1. Len(g) = Len(hd[t]) + Gain(x[1])
    BY <1>1, <1>2, <1>3
  <2> QED
    BY <1>2, <1>3, <2>1, LenProperties
<1> DEFINE a == <<"release", s, "iroot">>
           b == <<"release", s, "imount">>
           c == <<"put", s>>
           q == <<<<"iput", i>>>> \o Q
           q1 == <<c>> \o q
           q2 == <<b>> \o q1
           new == <<a>> \o q2
<1>5. /\ a \in Ops /\ b \in Ops /\ c \in Ops /\ a[1] = "release" /\ b[1] = "release" /\ c[1] = "put"
      /\ a = <<"release", First, "iroot">> /\ b = <<"release", First, "imount">> /\ c = <<"put", First>>
      /\ a[3] = "iroot" /\ b[3] = "imount"
  BY OpsOfKinds DEF Fields
<1>6. Rank(a) = 1 /\ Rank(b) = 2 /\ Rank(c) = 3
  BY <1>5 DEF Rank
<1>7. ASSUME NEW y \in {a, b, c}
      PROVE  /\ IsMount(y) /\ ~MayEnd(y) /\ y[1] # "homed" /\ y[1] # "clear" /\ y[1] \notin Finals
             /\ Gain(y[1]) = 0 /\ Needs(y[1]) = 0 /\ y \in Ops /\ Len(g) + Gain(y[1]) = Len(g)
  <2> HIDE DEF a, b, c
  <2>0. y[1] = "release" \/ y[1] = "put"
    BY <1>5
  <2>1. IsMount(y) /\ ~MayEnd(y) /\ y[1] # "homed" /\ y[1] # "clear" /\ y[1] \notin Finals
    BY <2>0 DEF IsMount, MountKinds, MayEnd, Finals
  <2>2. Gain(y[1]) = 0 /\ Needs(y[1]) = 0 /\ y \in Ops
    BY <1>5, <2>0, MountGains
  <2>3. Len(g) + Gain(y[1]) = Len(g)
    BY <1>4, <2>2
  <2> QED
    BY <2>1, <2>2, <2>3
<1> HIDE DEF a, b, c
<1>8. Calm(q, Len(g)) /\ Mounts(q) = {} /\ Even(Q, q, hd[t], g)
  BY <1>2, <1>3, <1>4, LetGo
<1> HIDE DEF q
<1>9. ASSUME NEW y \in {a, b, c}, NEW r, Calm(r, Len(g)), Above(y, Mounts(r)), NEW r2, r2 = <<y>> \o r
      PROVE  Calm(r2, Len(g)) /\ Mounts(r2) = {y} \cup Mounts(r) /\ SameRefs(r2, r)
  <2>1. /\ IsMount(y) /\ ~MayEnd(y) /\ y[1] # "homed" /\ y[1] # "clear" /\ y[1] \notin Finals
        /\ Gain(y[1]) = 0 /\ Needs(y[1]) = 0 /\ y \in Ops /\ Len(g) + Gain(y[1]) = Len(g)
    BY <1>7
  <2>2. Fit(y, r, Len(g))
    BY <1>4, <1>9, <2>1 DEF Fit
  <2>3. Calm(r, Len(g) + Gain(y[1]))
    BY <1>9, <2>1
  <2> QED
    BY <1>9, <2>1, <2>2, <2>3, MountAhead
<1>10. Calm(q1, Len(g)) /\ Mounts(q1) = {c} \cup Mounts(q) /\ SameRefs(q1, q)
  <2>1. Above(c, Mounts(q))
    BY <1>8 DEF Above
  <2> QED
    BY <1>8, <1>9, <2>1
<1> HIDE DEF q1
<1>11. Calm(q2, Len(g)) /\ Mounts(q2) = {b} \cup Mounts(q1) /\ SameRefs(q2, q1)
  <2>1. Above(b, Mounts(q1))
    BY <1>6, <1>8, <1>10 DEF Above
  <2> QED
    BY <1>9, <1>10, <2>1
<1> HIDE DEF q2
<1>12. Calm(new, Len(g)) /\ Mounts(new) = {a} \cup Mounts(q2) /\ SameRefs(new, q2)
  <2>1. Above(a, Mounts(q2))
    BY <1>6, <1>8, <1>10, <1>11 DEF Above
  <2> QED
    BY <1>9, <1>11, <2>1
<1>13. Leaves(td, td2, hd, hd2, t, kn2, new, g)
  BY <1>3 DEF a, b, c, q, q1, q2
<1> HIDE DEF new
<1>14. Mounts(new) = {a, b, c}
  BY <1>8, <1>10, <1>11, <1>12
<1>15. Phase(Mounts(new), sup)
  BY <1>5, <1>14 DEF Phase, Unmounting
<1>16. \A k \in Slots : Alike(sup, {x} \cup Mounts(Q), sup, Mounts(new), k)
  <2>1. \A u \in Supers : u # First => <<"put", u>> \notin {x} /\ <<"put", u>> \notin Mounts(new)
    BY <1>5, <1>14
  <2>2. \A u \in Supers, f \in Fields : <<"clear", u, f>> \notin {x} /\ <<"clear", u, f>> \notin Mounts(new)
    BY <1>5, <1>14
  <2>3. sup[First].imount # None
    BY Distinct DEF On
  <2> QED
    BY <1>2, <2>1, <2>2, <2>3, MountedAlike
<1>17. Even(Q, new, hd[t], g)
  <2>1. Even(Q, q1, hd[t], g)
    BY <1>8, <1>10, RefsEven
  <2>2. Even(Q, q2, hd[t], g)
    BY <1>11, <2>1, RefsEven
  <2> QED
    BY <1>12, <2>2, RefsEven
<1>18. IsMount(x) /\ SuperInv(sup) /\ Calm(new, Len(g))
  BY <1>2, <1>12
<1> QED
  BY <1>13, <1>15, <1>16, <1>17, <1>18, AlikeStep
\* iput(sb->iroot) or iput(sb->imount), before the pointer is cleared.
LEMMA ReleaseStep ==
    ASSUME NEW kn, NEW td, NEW sl, NEW sup, NEW hm, NEW hd, NEW t, NEW x, NEW Q,
           About(kn, td, sl, sup, hm, hd, t, x, Q), x[1] = "release", OneMounter,
           NEW f, f = x[3], NEW j, j = sup[x[2]][f], j # None,
           NEW sl2, sl2 = sl \/ Covers(sl, sl2, j, None),
           NEW kn2, NEW td2, NEW hd2,
           Leaves(td, td2, hd, hd2, t, kn2, <<<<"iput", j>>>> \o (<<<<"clear", x[2], f>>>> \o Q), hd[t])
    PROVE  IInvOf(kn2, td2, sl2, sup, hm, hd2)
<1>1. IsMount(x) /\ Gain(x[1]) = 0
  BY MountGains DEF IsMount, MountKinds
<1>2. /\ hd[t] \in Seq(Slots) /\ Len(hd[t]) \in Nat /\ Calm(Q, Len(hd[t]) + Gain(x[1])) /\ SuperInv(sup)
      /\ Phase({x} \cup Mounts(Q), sup) /\ x \notin Mounts(Q) /\ Above(x, Mounts(Q))
      /\ Q \in Seq(Ops) /\ SlotInv(sl) /\ x \in Ops /\ IInvOf(kn, td, sl, sup, hm, hd) /\ t \in Tasks
  BY <1>1, MountHeld
<1>3. /\ t \in Mounters /\ Mounts(td[t]) = {x} \cup Mounts(Q) /\ SameHomed(td[t], Q) /\ SameRefs(td[t], Q)
      /\ kn \in {t, None}
  <2>1. t \in Mounters /\ Mounts(td[t]) = {x} \cup Mounts(Q) /\ SameHomed(td[t], Q) /\ SameRefs(td[t], Q)
    BY <1>1, MountsIs
  <2>2. kn \in {t, None}
    BY DEF About
  <2> QED
    BY <2>1, <2>2
<1>4. PICK n \in Nat : n = Len(hd[t]) /\ Calm(Q, n)
  <2>1. Len(hd[t]) + Gain(x[1]) = Len(hd[t])
    BY <1>1, <1>2
  <2> QED
    BY <1>2, <2>1
<1>5. f \in Fields /\ x[2] \in Others
  BY <1>2, KindsOfOps
<1>6. First \in Others /\ AllOff(sup, Others \ {First}) /\ Mounts(Q) = Rest(f) /\ Attached(sup, f)
      /\ x = <<"release", First, f>>
  <2>1. First \in Others /\ AllOff(sup, Others \ {First}) /\ Mounts(Q) = Rest(f) /\ Attached(sup, f)
        /\ x = <<x[1], First, f>>
    BY <1>2, <1>5, ReleaseHead
  <2> QED
    BY <2>1
<1>7. x[2] = First /\ First \in Supers /\ sup[First].dev = Disk /\ sup[First].imount # None /\ sup[First][f] = j
  <2>1. x[2] = First
    BY <1>6
  <2> QED
    BY <1>5, <1>6, <2>1, Distinct DEF Attached, On, Others
<1>8. j \in Slots
  <2>1. sup[First].iroot \in Slots \cup {None} /\ sup[First].imount \in Slots \cup {None}
    BY <1>2, <1>6, SuperRecIs
  <2> QED
    BY <1>5, <1>7, <2>1 DEF Fields
<1>9. SlotInv(sl2) /\ CountSame(sl, sl2) /\ UnreadSame(sl, sl2)
  <2>1. CASE sl2 = sl
    BY <1>2, <2>1, SlotSelf
  <2>2. CASE Covers(sl, sl2, j, None)
    BY <1>2, <1>8, <2>2, CoverSlot
  <2> QED
    BY <2>1, <2>2
<1> DEFINE y == <<"clear", x[2], f>>
           z == <<"iput", j>>
           q == <<y>> \o Q
           new == <<z>> \o q
<1>10. /\ y \in Ops /\ y[1] = "clear" /\ y[2] = First /\ y[3] = f /\ z \in Ops /\ z[1] = "iput"
       /\ y = <<"clear", First, f>>
  BY <1>5, <1>7, <1>8, OpsOfKinds
<1>11. /\ IsMount(y) /\ Gain(y[1]) = 0 /\ Needs(y[1]) = 0 /\ ~MayEnd(y) /\ y[1] \notin Finals
       /\ ~IsMount(z) /\ Drops(z) /\ Gain(z[1]) = 0 /\ Needs(z[1]) = 0 /\ ~MayEnd(z) /\ z[1] \notin Finals
       /\ y[1] \notin {"iput", "drop", "fill"}
  <2> HIDE DEF y, z
  <2> QED
    BY <1>10 DEF IsMount, MountKinds, Gain, Needs, MayEnd, Finals, Drops
<1>12. Rank(y) = Rank(x)
  <2> HIDE DEF y, z
  <2>1. x[1] = "release" /\ x[3] = f
    OBVIOUS
  <2> QED
    BY <1>10, <2>1 DEF Rank
<1>13. DropsOf(z, sup[First][f])
  BY <1>7 DEF DropsOf
<1> HIDE DEF y, z
<1>14. Good(Q, n) /\ ~HasKind(Q, "homed") /\ ~HasKind(Q, "clear") /\ HomedFirst(Q)
  <2>1. Good(Q, n) /\ ~HasKind(Q, "homed") /\ ~HasKind(Q, "clear")
    BY <1>4 DEF Calm
  <2> QED
    BY <1>2, <1>10, <2>1, HomedAhead
<1>15. Good(q, n) /\ ~HasKind(q, "homed") /\ q \in Seq(Ops) /\ q[1] = y /\ ClearFirst(q)
  <2>1. n + Gain(y[1]) = n /\ n >= Needs(y[1]) /\ n + Gain(y[1]) \in Nat
    BY <1>11
  <2>2. Above(y, Mounts(Q))
    BY <1>1, <1>2, <1>12 DEF Above
  <2>3. Before(y, Q, n)
    BY <1>10, <1>11, <1>14, <2>1, <2>2 DEF Before
  <2>4. Good(Q, n + Gain(y[1]))
    BY <1>14, <2>1
  <2>5. Good(q, n)
    BY <1>2, <1>10, <2>3, <2>4, GoodAhead
  <2>6. ~HasKind(q, "homed")
    <3>1. y[1] # "homed"
      BY <1>10
    <3> QED
      BY <1>2, <1>10, <1>14, <3>1, HasAhead
  <2>7. q[1] = y
    BY <1>2, <1>10, Ahead
  <2>8. ClearFirst(q)
    BY <1>2, <1>10, <1>14, ClearAhead
  <2> QED
    BY <2>5, <2>6, <2>7, <2>8 DEF Good
<1>16. Mounts(q) = {y} \cup Mounts(Q) /\ SameRefs(q, Q)
  <2>0. y \in Ops /\ Q \in Seq(Ops)
    BY <1>2, <1>10
  <2>1. Mounts(q) = (IF IsMount(y) THEN {y} ELSE {}) \cup Mounts(Q)
    BY <2>0, MountsAhead
  <2>2. Splits(q, y, Q)
    BY <1>2, <1>10, OccAhead DEF Splits
  <2>3. \A i \in Slots : Occ(q, Calls(i)) = Occ(Q, Calls(i)) /\ Occ(q, Fills(i)) = Occ(Q, Fills(i))
    BY <1>2, <1>11, <1>15, <2>2, PlainSplit
  <2> QED
    BY <1>11, <2>1, <2>3 DEF SameRefs
<1> HIDE DEF q
<1>17. Good(new, n) /\ new \in Seq(Ops)
  <2>1. n + Gain(z[1]) = n /\ n >= Needs(z[1]) /\ n + Gain(z[1]) \in Nat
    BY <1>11
  <2>2. Above(z, Mounts(q)) /\ HomedFirst(q)
    BY <1>10, <1>11, <1>15, HomedAhead DEF Above
  <2>3. Before(z, q, n)
    BY <1>10, <1>11, <1>15, <2>1, <2>2 DEF Before
  <2>4. Good(q, n + Gain(z[1]))
    BY <1>15, <2>1
  <2>5. Good(new, n)
    BY <1>10, <1>15, <2>3, <2>4, GoodAhead
  <2> QED
    BY <2>5 DEF Good
<1>18. ClearLate(new, sup, kn2, t)
  <2>1. ClearOf(z, q[1], sup)
    BY <1>10, <1>13, <1>15 DEF ClearOf
  <2>2. z[1] # "clear"
    BY <1>10
  <2> QED
    BY <1>10, <1>15, <2>1, <2>2, ClearAhead
<1>19. Mounts(new) = {y} \cup Rest(f)
  <2>1. Mounts(new) = (IF IsMount(z) THEN {z} ELSE {}) \cup Mounts(q)
    BY <1>10, <1>15, MountsAhead
  <2> QED
    BY <1>6, <1>11, <1>16, <2>1
<1>20. SameHomed(td[t], new)
  <2> SUFFICES ASSUME NEW w \in Homes
               PROVE  Has(new, <<"homed", w>>) <=> Has(td[t], <<"homed", w>>)
    BY DEF SameHomed
  <2>1. ~Has(Q, <<"homed", w>>)
    BY <1>4, CalmLacks
  <2>2. ~Has(td[t], <<"homed", w>>)
    BY <1>3, <2>1 DEF SameHomed
  <2>3. <<"homed", w>>[1] = "homed"
    OBVIOUS
  <2>4. ~Has(q, <<"homed", w>>)
    BY <1>15, <2>3 DEF Has, HasKind
  <2>5. z # <<"homed", w>>
    BY <1>10, <2>3
  <2>6. Has(new, <<"homed", w>>) <=> z = <<"homed", w>> \/ Has(q, <<"homed", w>>)
    BY <1>10, <1>15, HasAhead
  <2> QED
    BY <2>2, <2>4, <2>5, <2>6
<1>21. Phase(Mounts(new), sup)
  <2>1. CASE f = "iroot"
    <3>1. Mounts(new) = {<<"clear", First, "iroot">>, <<"release", First, "imount">>, <<"put", First>>}
      BY <1>10, <1>19, <2>1 DEF Rest
    <3>2. On(sup, 1)
      BY <1>6, <2>1 DEF Attached
    <3> QED
      BY <1>6, <3>1, <3>2 DEF Phase, Unmounting
  <2>2. CASE f = "imount"
    <3>1. Mounts(new) = {<<"clear", First, "imount">>, <<"put", First>>}
      BY <1>10, <1>19, <2>2 DEF Rest
    <3>2. /\ sup[First].dev = Disk /\ sup[First].count = 1
          /\ sup[First].imount \in Slots /\ sup[First].iroot = None
      BY <1>6, <2>2 DEF Attached
    <3> QED
      BY <1>6, <3>1, <3>2 DEF Phase, Unmounting
  <2> QED
    BY <1>5, <2>1, <2>2 DEF Fields
<1>22. Leaves(td, td2, hd, hd2, t, kn2, new, hd[t])
  BY DEF y, z, q
<1>23. Splits(new, z, q)
  BY <1>10, <1>15, OccAhead DEF Splits
<1> HIDE DEF new
<1>24. PICK M, M2 : M = {x} \cup Mounts(Q) /\ M2 = Mounts(new)
  OBVIOUS
<1>25. ASSUME NEW k \in Slots
       PROVE  /\ SuperRefs(sup, M, k) = SuperRefs(sup, M2, k) + In(j, Only(k))
              /\ SuperRefs(sup, M2, k) \in Nat /\ In(j, Only(k)) \in Nat
  <2>1. \A op : op \in M2 /\ op # y <=> op \in M /\ op # x
    <3>1. x \notin Rest(f) /\ y \notin Rest(f)
      BY <1>2, <1>6, <1>10 DEF Rest
    <3> QED
      BY <1>6, <1>19, <1>24, <3>1
  <2>2. x[1] = "release" /\ y[1] = "clear" /\ y = <<"clear", First, f>>
    BY <1>10
  <2>3. \A u : <<"put", u>> \in M2 <=> <<"put", u>> \in M
    <3>1. \A u : <<"put", u>>[1] = "put"
      OBVIOUS
    <3> QED
      BY <2>1, <2>2, <3>1
  <2>4. \A u, g : <<"clear", u, g>> # y => (<<"clear", u, g>> \in M2 <=> <<"clear", u, g>> \in M)
    <3>1. \A u, g : <<"clear", u, g>>[1] = "clear"
      OBVIOUS
    <3> QED
      BY <2>1, <2>2, <3>1
  <2>5. AlikeBut(sup, M, sup, M2, k, <<First, f>>)
    <3> SUFFICES ASSUME NEW u \in Supers, NEW g \in Fields, <<u, g>> # <<First, f>>
                 PROVE  CountsFor(sup, M, u, g, k) <=> CountsFor(sup, M2, u, g, k)
      BY DEF AlikeBut
    <3>1. <<"clear", u, g>> # y
      BY <2>2
    <3> QED
      BY <2>3, <2>4, <3>1 DEF CountsFor, CountsIn
  <2>6. y \notin M
    <3>1. y \notin Rest(f)
      BY <1>10 DEF Rest
    <3> QED
      BY <1>6, <1>24, <2>2, <3>1
  <2>7. CountsIn(sup, M, First, f)
    BY <1>7, <2>2, <2>6, Distinct DEF CountsIn
  <2>8. ~CountsFor(sup, M2, First, f, k)
    BY <1>19, <1>24, <2>2 DEF CountsFor, CountsIn
  <2> QED
    BY <1>5, <1>7, <2>5, <2>7, <2>8, FieldLost
<1>26. MountEven(sup, sup, Mounts(td[t]), Mounts(new), td[t], new, hd[t], hd[t])
  <2> SUFFICES ASSUME NEW k \in Slots
               PROVE  /\ Occ(hd[t], Only(k)) + Occ(td[t], Calls(k)) + SuperRefs(sup, M, k)
                           = Occ(hd[t], Only(k)) + Occ(new, Calls(k)) + SuperRefs(sup, M2, k)
                      /\ Occ(new, Fills(k)) = Occ(td[t], Fills(k))
    BY <1>3, <1>24 DEF MountEven
  <2>1. Occ(new, Calls(k)) = In(j, Only(k)) + Occ(q, Calls(k)) /\ Occ(new, Fills(k)) = Occ(q, Fills(k))
    BY <1>15, <1>17, <1>23, PutSplit DEF z
  <2>2. Occ(q, Calls(k)) = Occ(td[t], Calls(k)) /\ Occ(q, Fills(k)) = Occ(td[t], Fills(k))
    BY <1>3, <1>16 DEF SameRefs
  <2>3. PICK n1 \in Nat, n2 \in Nat, n3 \in Nat, n4 \in Nat :
          /\ n1 = Occ(hd[t], Only(k)) /\ n2 = In(j, Only(k)) /\ n3 = Occ(q, Calls(k))
          /\ n4 = SuperRefs(sup, M2, k)
    BY <1>2, <1>15, <1>25, WhereIsFinite
  <2>4. SuperRefs(sup, M, k) = n4 + n2
    BY <1>25, <2>3
  <2>5. n1 + n3 + (n4 + n2) = n1 + (n2 + n3) + n4
    OBVIOUS
  <2> QED
    BY <2>1, <2>2, <2>3, <2>4, <2>5
<1>27. Stack(new, hd[t], sup, kn2, t)
  BY <1>2, <1>4, <1>17, <1>18 DEF Stack
<1> QED
  BY <1>2, <1>3, <1>9, <1>20, <1>21, <1>22, <1>26, <1>27, SuperStep

\* The pointer is cleared when iput has returned.
LEMMA ClearStep ==
    ASSUME NEW kn, NEW td, NEW sl, NEW sup, NEW hm, NEW hd, NEW t, NEW x, NEW Q,
           About(kn, td, sl, sup, hm, hd, t, x, Q), x[1] = "clear", OneMounter,
           NEW sup2, Clears(sup, sup2, x[2], x[3]),
           NEW kn2, NEW td2, NEW hd2, Leaves(td, td2, hd, hd2, t, kn2, Q, hd[t])
    PROVE  IInvOf(kn2, td2, sl, sup2, hm, hd2)
<1>1. IsMount(x) /\ Gain(x[1]) = 0
  BY MountGains DEF IsMount, MountKinds
<1>2. /\ hd[t] \in Seq(Slots) /\ Len(hd[t]) \in Nat /\ Calm(Q, Len(hd[t]) + Gain(x[1])) /\ SuperInv(sup)
      /\ Phase({x} \cup Mounts(Q), sup) /\ x \notin Mounts(Q) /\ Above(x, Mounts(Q)) /\ x \in Ops
  BY <1>1, MountHeld
<1>3. Calm(Q, Len(hd[t]))
  <2>1. Len(hd[t]) + Gain(x[1]) = Len(hd[t])
    BY <1>1, <1>2
  <2> QED
    BY <1>2, <2>1
<1>4. PICK f \in Fields : f = x[3]
  BY <1>2, KindsOfOps
<1>5. /\ First \in Others /\ AllOff(sup, Others \ {First}) /\ Mounts(Q) = Rest(f) /\ Attached(sup, f)
      /\ x = <<"clear", First, f>>
  <2>1. First \in Others /\ AllOff(sup, Others \ {First}) /\ Mounts(Q) = Rest(f) /\ Attached(sup, f)
        /\ x = <<x[1], First, f>>
    BY <1>2, <1>4, ReleaseHead
  <2> QED
    BY <2>1
<1>6. x[2] = First /\ Clears(sup, sup2, First, f)
  <2>1. x[2] = First
    BY <1>5
  <2> QED
    BY <1>4, <2>1
<1>7. /\ SuperInv(sup2) /\ SuperKeeps(sup, sup2, First)
      /\ Fields4(sup2[First], sup[First].dev, sup[First].count,
                      IF f = "iroot" THEN None ELSE sup[First].iroot, IF f = "imount" THEN None ELSE sup[First].imount)
  BY <1>2, <1>5, <1>6, ClearSuper
<1>8. AllOff(sup2, Others \ {First})
  <2>1. Others \ {First} \in SUBSET Supers /\ First \notin Others \ {First}
    BY DEF Others
  <2> QED
    BY <1>5, <1>7, <2>1, OffKeeps
<1>9. Phase(Mounts(Q), sup2)
  <2>1. CASE f = "iroot"
    <3>1. Mounts(Q) = {<<"release", First, "imount">>, <<"put", First>>}
      BY <1>5, <2>1 DEF Rest
    <3>2. /\ sup2[First].dev = Disk /\ sup2[First].count = 1
          /\ sup2[First].imount \in Slots /\ sup2[First].iroot = None
      BY <1>5, <1>7, <2>1 DEF Attached, On, Fields4
    <3> QED
      BY <1>5, <1>8, <3>1, <3>2 DEF Phase, Unmounting
  <2>2. CASE f = "imount"
    <3>1. Mounts(Q) = {<<"put", First>>}
      BY <1>5, <2>2 DEF Rest
    <3>2. Half(sup2, First)
      BY <1>5, <1>7, <2>2 DEF Attached, Fields4, Half
    <3>3. AllOff(sup2, Others \ {First, First})
      BY <1>8
    <3>4. Making(Mounts(Q), sup2)
      BY <1>5, <3>1, <3>2, <3>3 DEF Making
    <3> QED
      BY <3>4 DEF Phase
  <2> QED
    BY <2>1, <2>2 DEF Fields
<1>10. PICK M, M2 : M = {x} \cup Mounts(Q) /\ M2 = Mounts(Q)
  OBVIOUS
<1>11. ASSUME NEW i \in Slots
       PROVE  Alike(sup, M, sup2, M2, i)
  <2> SUFFICES ASSUME NEW u \in Supers, NEW g \in Fields
               PROVE  CountsFor(sup, M, u, g, i) <=> CountsFor(sup2, M2, u, g, i)
    BY DEF Alike
  <2>1. \A v : <<"put", v>> \in M <=> <<"put", v>> \in M2
    <3>1. \A v : <<"put", v>> # x
      BY <1>5
    <3> QED
      BY <1>10, <3>1
  <2>2. <<"clear", u, g>> # x => (<<"clear", u, g>> \in M <=> <<"clear", u, g>> \in M2)
    BY <1>10
  <2>3. CASE u # First
    <3>1. <<"clear", u, g>> # x
      BY <1>5, <2>3
    <3> QED
      BY <1>7, <2>1, <2>2, <2>3, <3>1 DEF CountsFor, CountsIn, SuperKeeps
  <2>4. CASE u = First /\ g = f
    <3>1. ~CountsFor(sup, M, u, g, i)
      BY <1>5, <1>10, <2>4 DEF CountsFor, CountsIn
    <3>2. sup2[First][f] = None
      <4>1. sup2[First].iroot = (IF f = "iroot" THEN None ELSE sup[First].iroot)
        BY <1>7 DEF Fields4
      <4>2. sup2[First].imount = (IF f = "imount" THEN None ELSE sup[First].imount)
        BY <1>7 DEF Fields4
      <4> QED
        BY <4>1, <4>2 DEF Fields
    <3>3. ~CountsFor(sup2, M2, u, g, i)
      BY <2>4, <3>2, Distinct DEF CountsFor
    <3> QED
      BY <3>1, <3>3
  <2>5. CASE u = First /\ g # f
    <3>1. <<"clear", u, g>> # x
      BY <1>5, <2>5
    <3>2. CASE f = "imount"
      <4>1. g = "iroot"
        BY <2>5, <3>2 DEF Fields
      <4>2. sup[First].iroot = None /\ sup2[First].iroot = None
        BY <1>5, <1>7, <3>2 DEF Attached, Fields4
      <4> QED
        BY <2>5, <4>1, <4>2, Distinct DEF CountsFor
    <3>3. CASE f = "iroot"
      <4>1. g = "imount"
        BY <2>5, <3>3 DEF Fields
      <4>2. sup2[First].imount = sup[First].imount /\ sup2[First].dev = sup[First].dev
        BY <1>7, <3>3 DEF Fields4
      <4>3. sup2[First].imount # None
        BY <1>5, <3>3, <4>2, Distinct DEF Attached, On
      <4> QED
        BY <2>1, <2>2, <2>5, <3>1, <4>1, <4>2, <4>3 DEF CountsFor, CountsIn
    <3> QED
      BY <3>2, <3>3 DEF Fields
  <2> QED
    BY <2>3, <2>4, <2>5
<1>12. Even(Q, Q, hd[t], hd[t])
  BY DEF Even
<1>13. \A i \in Slots : Alike(sup, {x} \cup Mounts(Q), sup2, Mounts(Q), i)
  BY <1>10, <1>11
<1> QED
  BY <1>1, <1>3, <1>7, <1>9, <1>12, <1>13, AlikeStep
-----------------------------------------------------------------------------
(* mkfs.                                                                   *)

\* devmkfs takes a free super block.
LEMMA MkfsStep ==
    ASSUME NEW kn, NEW td, NEW sl, NEW sup, NEW hm, NEW hd, NEW t, NEW x, NEW Q,
           About(kn, td, sl, sup, hm, hd, t, x, Q), x[1] = "mkfs", OneMounter,
           Free(sup) # {}, NEW s, s = Min(Free(sup)), NEW sup2, Claims(sup, sup2, s),
           NEW kn2, NEW td2, NEW hd2,
           Leaves(td, td2, hd, hd2, t, kn2, <<<<"iget", Disk, 1>>>> \o (<<<<"made", s>>>> \o Q), hd[t])
    PROVE  IInvOf(kn2, td2, sl, sup2, hm, hd2)
<1>1. Gain(x[1]) = -1 /\ Needs(x[1]) = 1
  BY MountGains
<1>2. /\ Mounts(Q) = {} /\ {x} \cup Mounts(Q) = {x} /\ IsMount(x) /\ Uncounting({x}) /\ Idle(sup)
      /\ hd[t] \in Seq(Slots) /\ Len(hd[t]) \in Nat /\ SuperInv(sup) /\ Q \in Seq(Ops)
      /\ Calm(Q, Len(hd[t]) + Gain(x[1])) /\ Len(hd[t]) >= Needs(x[1])
  BY FinalIs
<1>3. PICK n \in Nat : n = Len(hd[t]) + 1 /\ n >= 2 /\ Calm(Q, n - 2)
  <2>1. Len(hd[t]) + Gain(x[1]) = (Len(hd[t]) + 1) - 2 /\ Len(hd[t]) + 1 >= 2 /\ Len(hd[t]) + 1 \in Nat
    BY <1>1, <1>2
  <2> QED
    BY <1>2, <2>1
<1>4. MayTake(sup, s)
  BY <1>2, FreeSuper
<1>5. /\ SuperInv(sup2) /\ SuperKeeps(sup, sup2, s)
      /\ Fields4(sup2[s], Disk, 1, sup[s].iroot, sup[s].imount)
  <2>1. s \in Others
    BY <1>4 DEF MayTake
  <2> QED
    BY <1>2, <2>1, ClaimSuper
<1>6. s \in Others /\ sup[s].dev = None /\ sup[s].imount = None
  BY <1>4 DEF MayTake
<1>7. Half(sup2, s)
  BY <1>5, <1>6 DEF Half, Fields4
<1>8. AllOff(sup2, Others \ {First, s}) /\ (s = First \/ On(sup2, 1))
  <2>1. Others \ {First, s} \in SUBSET Supers /\ s \notin Others \ {First, s} /\ First \in Supers
    BY <1>6, FirstIs DEF Others
  <2>2. AllOff(sup, Others \ {First, s}) /\ (s = First \/ On(sup, 1))
    BY <1>4 DEF MayTake
  <2> QED
    BY <1>5, <2>1, <2>2, OffKeeps
<1> DEFINE y == <<"made", s>>
           z == <<"iget", Disk, 1>>
           q == <<y>> \o Q
           new == <<z>> \o q
<1>9. y \in Ops /\ y[1] = "made" /\ y = <<"made", s>> /\ z \in Ops /\ z[1] = "iget"
  BY <1>6, OpsOfKinds, Distinct DEF Devs
<1>10. IsMount(y) /\ Fit(y, Q, n) /\ Calm(Q, n + Gain(y[1]))
  <2> HIDE DEF y, z
  <2>1. IsMount(y) /\ ~MayEnd(y) /\ y[1] # "homed" /\ y[1] # "clear" /\ y[1] \notin Finals
    BY <1>9 DEF IsMount, MountKinds, MayEnd, Finals
  <2>2. Gain(y[1]) = -2 /\ Needs(y[1]) = 2
    BY <1>9, MountGains
  <2>3. n + Gain(y[1]) = n - 2 /\ n - 2 \in Nat
    BY <1>3, <2>2
  <2>4. Above(y, Mounts(Q))
    BY <1>2 DEF Above
  <2> QED
    BY <1>3, <1>9, <2>1, <2>2, <2>3, <2>4 DEF Fit
<1>11. Small(z, Len(hd[t])) /\ Gain(z[1]) = 1
  BY <1>2, <1>9, SmallOps, Gains, Distinct DEF Devs
<1> HIDE DEF y, z
<1>12. Calm(q, n) /\ Mounts(q) = {y} /\ SameRefs(q, Q)
  <2>1. Calm(q, n) /\ Mounts(q) = {y} \cup Mounts(Q) /\ SameRefs(q, Q)
    BY <1>10, MountAhead
  <2> QED
    BY <1>2, <2>1
<1>13. Calm(q, Len(hd[t]) + Gain(z[1]))
  <2>1. Len(hd[t]) + Gain(z[1]) = n
    BY <1>3, <1>11
  <2> QED
    BY <1>12, <2>1
<1> HIDE DEF q
<1>14. Calm(new, Len(hd[t])) /\ Mounts(new) = {y} /\ SameRefs(new, q)
  <2>1. z[1] \notin {"iput", "drop", "fill"}
    BY <1>9
  <2> QED
    BY <1>11, <1>12, <1>13, <2>1, SmallPlain
<1>15. Leaves(td, td2, hd, hd2, t, kn2, new, hd[t])
  BY DEF y, z, q
<1> HIDE DEF new
<1>16. Phase(Mounts(new), sup2)
  <2>1. Making({y}, sup2)
    BY <1>6, <1>7, <1>8, <1>9 DEF Making
  <2> QED
    BY <1>14, <2>1 DEF Phase
<1>17. \A i \in Slots : Alike(sup, {x} \cup Mounts(Q), sup2, Mounts(new), i)
  <2>0. PICK M, M2 : M = {x} \cup Mounts(Q) /\ M2 = Mounts(new)
    OBVIOUS
  <2>1. Uncounting(M) /\ Uncounting(M2)
    BY <1>2, <1>9, <1>14, <2>0 DEF Uncounting
  <2>2. AlikeMounts(M, M2)
    BY <2>1, UncountingAlike
  <2>3. Uncounted(sup, M, s) /\ Uncounted(sup2, M2, s)
    <3>1. <<"put", s>>[1] = "put"
      OBVIOUS
    <3>2. <<"put", s>> \notin M2
      BY <2>1, <3>1 DEF Uncounting
    <3> QED
      BY <1>6, <1>7, <3>2 DEF Uncounted, Half
  <2> QED
    BY <1>5, <2>0, <2>2, <2>3, UncountedAlike
<1>18. Even(Q, new, hd[t], hd[t])
  <2>1. Even(Q, q, hd[t], hd[t])
    BY <1>12, RefsEven
  <2> QED
    BY <1>14, <2>1, RefsEven
<1>19. IsMount(x) /\ SuperInv(sup2) /\ Calm(new, Len(hd[t]))
  BY <1>2, <1>5, <1>14
<1> QED
  BY <1>15, <1>16, <1>17, <1>18, <1>19, AlikeStep

\* The last two inodes of a task.
LEMMA CutTwo ==
    ASSUME NEW h \in Seq(Slots), Len(h) >= 2, NEW i, i = h[Len(h)], NEW j, j = h[Len(h) - 1],
           NEW g, g = Cut(h, 2)
    PROVE  /\ g \in Seq(Slots) /\ Len(g) = Len(h) - 2 /\ i \in Slots /\ j \in Slots
           /\ \A S : /\ Occ(h, S) = Occ(g, S) + In(i, S) + In(j, S)
                     /\ Occ(g, S) \in Nat /\ In(i, S) \in Nat /\ In(j, S) \in Nat
<1>1. Len(h) \in Nat
  BY LenProperties
<1>2. Len(h) >= 1 /\ Len(h) >= 1 + 1 /\ 1 + 1 = 2
  BY <1>1
<1>3. PICK a \in Seq(Slots) : a = Cut(h, 1) /\ Sheds(h, a, i) /\ i \in Slots
  BY <1>2, CutTop
<1>4. g \in Seq(Slots) /\ Len(g) = Len(h) - 2 /\ Sheds(Cut(h, 1), g, j) /\ j \in Slots
  BY <1>2, CutMore
<1>5. Sheds(h, a, i) /\ Sheds(a, g, j)
  BY <1>3, <1>4
<1>6. ASSUME NEW S
      PROVE  /\ Occ(h, S) = Occ(g, S) + In(i, S) + In(j, S)
             /\ Occ(g, S) \in Nat /\ In(i, S) \in Nat /\ In(j, S) \in Nat
  <2>1. Occ(a, S) + In(i, S) = Occ(h, S) /\ Occ(g, S) + In(j, S) = Occ(a, S)
    BY <1>5 DEF Sheds
  <2>2. Occ(g, S) \in Nat /\ In(i, S) \in Nat /\ In(j, S) \in Nat
    BY <1>4, WhereIsFinite, InIs
  <2>3. Occ(h, S) = (Occ(g, S) + In(j, S)) + In(i, S)
    BY <2>1
  <2>4. PICK w \in Nat, x \in Nat, y \in Nat :
           w = Occ(g, S) /\ x = In(i, S) /\ y = In(j, S)
    BY <2>2
  <2>5. (w + y) + x = w + x + y
    OBVIOUS
  <2> QED
    BY <2>2, <2>3, <2>4, <2>5
<1> QED
  BY <1>3, <1>4, <1>6

\* The root directory of the new file system is the super block's, not yet
\* mounted.
LEMMA MadeStep ==
    ASSUME NEW kn, NEW td, NEW sl, NEW sup, NEW hm, NEW hd, NEW t, NEW x, NEW Q,
           About(kn, td, sl, sup, hm, hd, t, x, Q), x[1] = "made", OneMounter,
           NEW i, i = hd[t][Len(hd[t])], NEW j, j = hd[t][Len(hd[t]) - 1],
           NEW sup2, Roots(sup, sup2, x[2], i),
           NEW kn2, NEW td2, NEW hd2,
           Leaves(td, td2, hd, hd2, t, kn2, <<<<"put", x[2]>>>> \o (<<<<"iput", j>>>> \o Q), Cut(hd[t], 2))
    PROVE  IInvOf(kn2, td2, sl, sup2, hm, hd2)
<1>1. IsMount(x) /\ Gain(x[1]) = -2 /\ Needs(x[1]) = 2
  BY MountGains DEF IsMount, MountKinds
<1>2. /\ hd[t] \in Seq(Slots) /\ Len(hd[t]) \in Nat /\ Calm(Q, Len(hd[t]) + Gain(x[1])) /\ SuperInv(sup)
      /\ Phase({x} \cup Mounts(Q), sup) /\ x \notin Mounts(Q)
      /\ Len(hd[t]) >= Needs(x[1]) /\ Q \in Seq(Ops) /\ SlotInv(sl)
  BY <1>1, MountHeld
<1>3. /\ Mounts(Q) = {}
      /\ \E s \in Others : /\ x = <<"made", s>> /\ Half(sup, s) /\ AllOff(sup, Others \ {First, s})
                           /\ s = First \/ On(sup, 1)
  BY <1>2, MadeHead
<1>4. PICK s \in Others : /\ x = <<"made", s>> /\ Half(sup, s) /\ AllOff(sup, Others \ {First, s})
                          /\ s = First \/ On(sup, 1)
  BY <1>3
<1>5. x[2] = s /\ s \in Supers /\ First \in Supers
  BY <1>4, FirstIs DEF Others
<1>6. PICK h, g : h \in Seq(Slots) /\ h = hd[t] /\ g = Cut(h, 2) /\ Len(h) >= 2 /\ Calm(Q, Len(h) - 2)
  <2>1. Len(hd[t]) + Gain(x[1]) = Len(hd[t]) - 2 /\ Len(hd[t]) >= 2
    BY <1>1, <1>2
  <2> QED
    BY <1>2, <2>1
<1>7. /\ g \in Seq(Slots) /\ Len(g) = Len(h) - 2 /\ i \in Slots /\ j \in Slots
      /\ \A S : /\ Occ(h, S) = Occ(g, S) + In(i, S) + In(j, S)
                /\ Occ(g, S) \in Nat /\ In(i, S) \in Nat /\ In(j, S) \in Nat
  BY <1>6, CutTwo
<1>8. /\ SuperInv(sup2) /\ SuperKeeps(sup, sup2, s)
      /\ Fields4(sup2[s], sup[s].dev, sup[s].count, i, sup[s].imount)
  BY <1>2, <1>5, <1>7, RootSuper
<1>9. Half(sup2, s) /\ sup[s].imount = None
  BY <1>4, <1>8 DEF Half, Fields4
<1>10. AllOff(sup2, Others \ {First, s}) /\ (s = First \/ On(sup2, 1))
  <2>1. Others \ {First, s} \in SUBSET Supers /\ s \notin Others \ {First, s}
    BY DEF Others
  <2> QED
    BY <1>4, <1>5, <1>8, <2>1, OffKeeps
<1>11. Calm(Q, Len(g)) /\ Len(g) \in Nat
  BY <1>6, <1>7, LenProperties
<1> DEFINE a == <<"iput", j>>
           y == <<"put", x[2]>>
           q == <<a>> \o Q
           new == <<y>> \o q
<1>12. Calm(q, Len(g)) /\ Mounts(q) = {} /\ Splits(q, a, Q)
  <2>1. Calm(q, Len(g)) /\ Mounts(q) = Mounts(Q) /\ Splits(q, a, Q)
    BY <1>7, <1>11, PutAhead
  <2> QED
    BY <1>3, <2>1
<1>13. q \in Seq(Ops)
  BY <1>12 DEF Calm, Good
<1> HIDE DEF q
<1>14. y \in Ops /\ y[1] = "put" /\ y = <<"put", s>>
  BY <1>5, OpsOfKinds
<1>15. IsMount(y) /\ Fit(y, q, Len(g)) /\ Calm(q, Len(g) + Gain(y[1]))
  <2> HIDE DEF y
  <2>1. IsMount(y) /\ ~MayEnd(y) /\ y[1] # "homed" /\ y[1] # "clear" /\ y[1] \notin Finals
    BY <1>14 DEF IsMount, MountKinds, MayEnd, Finals
  <2>2. Gain(y[1]) = 0 /\ Needs(y[1]) = 0
    BY <1>14, MountGains
  <2>3. Len(g) + Gain(y[1]) = Len(g)
    BY <1>11, <2>2
  <2>4. Above(y, Mounts(q))
    BY <1>12 DEF Above
  <2> QED
    BY <1>11, <1>12, <1>14, <2>1, <2>2, <2>3, <2>4 DEF Fit
<1> HIDE DEF y
<1>16. Calm(new, Len(g)) /\ Mounts(new) = {y} /\ SameRefs(new, q)
  <2>1. Calm(new, Len(g)) /\ Mounts(new) = {y} \cup Mounts(q) /\ SameRefs(new, q)
    BY <1>15, MountAhead
  <2> QED
    BY <1>12, <2>1
<1>17. Leaves(td, td2, hd, hd2, t, kn2, new, g)
  BY <1>6 DEF a, y, q
<1> HIDE DEF new
<1>18. Phase(Mounts(new), sup2)
  <2>1. Making({y}, sup2)
    BY <1>9, <1>10, <1>14 DEF Making
  <2> QED
    BY <1>16, <2>1 DEF Phase
<1>19. PICK M, M2 : M = {x} \cup Mounts(Q) /\ M2 = Mounts(new) /\ M = {x} /\ M2 = {y}
  BY <1>3, <1>16
<1>20. ASSUME NEW k \in Slots
       PROVE  /\ SuperRefs(sup2, M2, k) = SuperRefs(sup, M, k) + In(i, Only(k))
              /\ SuperRefs(sup, M, k) \in Nat /\ In(i, Only(k)) \in Nat
  <2>1. \A u, f : <<"clear", u, f>> \notin M /\ <<"clear", u, f>> \notin M2
    BY <1>4, <1>14, <1>19
  <2>2. /\ \A u : <<"put", u>> \notin M
        /\ \A u : <<"put", u>> \in M2 <=> u = s
    BY <1>4, <1>14, <1>19
  <2>3. AlikeBut(sup2, M2, sup, M, k, <<s, "iroot">>)
    <3> SUFFICES ASSUME NEW u \in Supers, NEW f \in Fields, <<u, f>> # <<s, "iroot">>
                 PROVE  CountsFor(sup2, M2, u, f, k) <=> CountsFor(sup, M, u, f, k)
      BY DEF AlikeBut
    <3>1. CASE u = s
      <4>1. f = "imount"
        BY <3>1 DEF Fields
      <4>2. sup[s][f] # k /\ sup2[s][f] # k
        BY <1>8, <1>9, <4>1, Distinct DEF Fields4
      <4> QED
        BY <3>1, <4>2 DEF CountsFor
    <3>2. CASE u # s
      BY <1>8, <2>1, <2>2, <3>2 DEF CountsFor, CountsIn, SuperKeeps
    <3> QED
      BY <3>1, <3>2
  <2>4. sup2[s]["iroot"] = i /\ "iroot" \in Fields
    BY <1>8 DEF Fields4, Fields
  <2>5. CountsIn(sup2, M2, s, "iroot")
    BY <1>9, <2>1, <2>2, Distinct DEF CountsIn, Half
  <2>6. ~CountsFor(sup, M, s, "iroot", k)
    BY <1>9, <2>2 DEF CountsFor, CountsIn
  <2> QED
    BY <1>5, <2>3, <2>4, <2>5, <2>6, FieldLost
<1>21. MountEven(sup, sup2, {x} \cup Mounts(Q), Mounts(new), Q, new, hd[t], g)
  <2> SUFFICES ASSUME NEW k \in Slots
               PROVE  /\ Occ(h, Only(k)) + Occ(Q, Calls(k)) + SuperRefs(sup, M, k)
                           = Occ(g, Only(k)) + Occ(new, Calls(k)) + SuperRefs(sup2, M2, k)
                      /\ Occ(new, Fills(k)) = Occ(Q, Fills(k))
    BY <1>6, <1>19 DEF MountEven
  <2>1. Occ(q, Calls(k)) = In(j, Only(k)) + Occ(Q, Calls(k)) /\ Occ(q, Fills(k)) = Occ(Q, Fills(k))
    BY <1>2, <1>12, <1>13, PutSplit
  <2>2. Occ(new, Calls(k)) = Occ(q, Calls(k)) /\ Occ(new, Fills(k)) = Occ(q, Fills(k))
    BY <1>16 DEF SameRefs
  <2>3. PICK n1 \in Nat, n2 \in Nat, n3 \in Nat, n5 \in Nat, n6 \in Nat :
           /\ n1 = Occ(g, Only(k)) /\ n2 = In(i, Only(k)) /\ n3 = In(j, Only(k))
           /\ n5 = Occ(Q, Calls(k)) /\ n6 = SuperRefs(sup, M, k)
    <3>1. Occ(Q, Calls(k)) \in Nat
      BY <1>2, WhereIsFinite
    <3> QED
      BY <1>7, <1>20, <3>1
  <2>4. (n1 + n2 + n3) + n5 + n6 = n1 + (n3 + n5) + (n6 + n2)
    OBVIOUS
  <2>5. Occ(h, Only(k)) + Occ(Q, Calls(k)) + SuperRefs(sup, M, k) = (n1 + n2 + n3) + n5 + n6
    BY <1>7, <2>3
  <2>6. Occ(g, Only(k)) + Occ(new, Calls(k)) + SuperRefs(sup2, M2, k) = n1 + (n3 + n5) + (n6 + n2)
    BY <1>20, <2>1, <2>2, <2>3
  <2> QED
    BY <2>1, <2>2, <2>4, <2>5, <2>6
<1>22. SlotInv(sl) /\ CountSame(sl, sl) /\ UnreadSame(sl, sl)
  BY <1>2, SlotSelf
<1> QED
  BY <1>1, <1>8, <1>16, <1>17, <1>18, <1>21, <1>22, MountStep
-----------------------------------------------------------------------------
(* The calls of mount, umount and mkfs.                                    *)

LEMMA NoMounts ==
    ASSUME NEW sup, NEW M, M = {}, Phase(M, sup)
    PROVE  Idle(sup)
<1>1. ~Mounting(M, sup) /\ ~Unmounting(M, sup) /\ ~Making(M, sup)
  BY DEF Mounting, Unmounting, Making
<1> QED
  BY <1>1 DEF Phase

LEMMA MountCallStep ==
    ASSUME NEW kn, NEW td, NEW sl, NEW sup, NEW hm, NEW hd, NEW t, Rests(kn, td, sl, sup, hm, hd, t),
           OneMounter, t \in Mounters, NEW path \in Paths \cup Specials,
           NEW op \in Ops, op[1] \in {"isblk", "umount", "mkfs"}, Resting({op}),
           NEW nil, nil = << >>, NEW q, q = <<op>> \o nil,
           NEW kn2, NEW td2, NEW hd2, Leaves(td, td2, hd, hd2, t, kn2, Resolve(path) \o q, hd[t])
    PROVE  IInvOf(kn2, td2, sl, sup, hm, hd2)
<1>1. /\ IInvOf(kn, td, sl, sup, hm, hd) /\ t \in Tasks /\ hd[t] \in Seq(Slots) /\ Len(hd[t]) \in Nat
      /\ SlotInv(sl) /\ SuperInv(sup) /\ Mounts(td[t]) = {} /\ ~HasKind(td[t], "homed")
      /\ (\A S : Occ(td[t], S) = 0) /\ td[t] \in Seq(Ops)
  BY RestsIs
<1>2. kn \in {t, None}
  BY DEF Rests
<1>3. IsMount(op) /\ op[1] \in Finals /\ Gain(op[1]) = -1 /\ Needs(op[1]) = 1 /\ op[1] \notin {"clear", "put"}
  BY MountGains DEF IsMount, MountKinds, Finals
<1>4. Calm(q, Len(hd[t]) + 1) /\ Ending(q) /\ Mounts(q) = {op} /\ \A S : Occ(q, S) = In(op, S)
  <2>1. PICK n \in Nat : n = Len(hd[t]) + 1 /\ n >= 1
    BY <1>1
  <2>2. n >= Needs(op[1]) /\ n + Gain(op[1]) \in Nat
    BY <1>3, <2>1
  <2>3. Calm(q, n) /\ Ending(q) /\ Mounts(q) = (IF IsMount(op) THEN {op} ELSE {}) /\ \A S : Occ(q, S) = In(op, S)
    BY <1>3, <2>2, FinalAlone
  <2> QED
    BY <1>3, <2>1, <2>3
<1>5. \A i : In(op, Calls(i)) = 0 /\ In(op, Fills(i)) = 0
  <2>1. op[1] \notin {"iput", "drop", "fill"}
    OBVIOUS
  <2> QED
    BY <2>1, InIs
<1> DEFINE new == Resolve(path) \o q
<1>6. /\ Calm(new, Len(hd[t])) /\ Mounts(new) = Mounts(q)
      /\ \A i : Occ(new, Calls(i)) = Occ(q, Calls(i)) /\ Occ(new, Fills(i)) = Occ(q, Fills(i))
  BY <1>1, <1>4, LookupIs
<1>7. Leaves(td, td2, hd, hd2, t, kn2, new, hd[t])
  OBVIOUS
<1> HIDE DEF new
<1>8. Idle(sup)
  <2>1. \A u \in Tasks \ Mounters : Mounts(td[u]) = {}
    BY <1>1 DEF IInvOf
  <2>2. AllMounts(td) = Mounts(td[t])
    BY <1>1, <2>1, OnlyMounts
  <2>3. Phase(AllMounts(td), sup)
    BY <1>1 DEF IInvOf
  <2> QED
    BY <1>1, <2>2, <2>3, NoMounts
<1>9. Phase(Mounts(new), sup)
  BY <1>4, <1>6, <1>8 DEF Phase
<1>10. SameHomed(td[t], new)
  <2> SUFFICES ASSUME NEW w \in Homes
               PROVE  Has(new, <<"homed", w>>) <=> Has(td[t], <<"homed", w>>)
    BY DEF SameHomed
  <2>1. ~Has(new, <<"homed", w>>)
    BY <1>6, CalmLacks
  <2>2. <<"homed", w>>[1] = "homed"
    OBVIOUS
  <2> QED
    BY <1>1, <2>1, <2>2 DEF Has, HasKind
<1>11. MountEven(sup, sup, Mounts(td[t]), Mounts(new), td[t], new, hd[t], hd[t])
  <2>1. PICK M, M2 : M = Mounts(td[t]) /\ M2 = Mounts(new)
    OBVIOUS
  <2>2. Uncounting(M) /\ Uncounting(M2)
    BY <1>1, <1>3, <1>4, <1>6, <2>1 DEF Uncounting
  <2>3. AlikeMounts(M, M2)
    BY <2>2, UncountingAlike
  <2> SUFFICES ASSUME NEW i \in Slots
               PROVE  /\ Occ(hd[t], Only(i)) + Occ(td[t], Calls(i)) + SuperRefs(sup, M, i)
                           = Occ(hd[t], Only(i)) + Occ(new, Calls(i)) + SuperRefs(sup, M2, i)
                      /\ Occ(new, Fills(i)) = Occ(td[t], Fills(i))
    BY <2>1 DEF MountEven
  <2>4. Alike(sup, M, sup, M2, i)
    BY <2>3, MountsAlike
  <2>5. SuperRefs(sup, M2, i) = SuperRefs(sup, M, i)
    BY <2>4, SuperSame
  <2>6. Occ(new, Calls(i)) = 0 /\ Occ(new, Fills(i)) = 0 /\ Occ(td[t], Calls(i)) = 0 /\ Occ(td[t], Fills(i)) = 0
    BY <1>1, <1>4, <1>5, <1>6
  <2> QED
    BY <2>5, <2>6
<1>12. Stack(new, hd[t], sup, kn2, t)
  BY <1>1, <1>6, CalmStack
<1>13. CountSame(sl, sl) /\ UnreadSame(sl, sl)
  BY SlotSelf
<1> QED
  BY <1>1, <1>2, <1>7, <1>9, <1>10, <1>11, <1>12, <1>13, SuperStep

-----------------------------------------------------------------------------
(* A lookup that meets a file which is no directory.                       *)

LEMMA EndingIs ==
    ASSUME NEW Q \in Seq(Ops), Ending(Q)
    PROVE  /\ ~HasKind(Q, "homed") /\ ~HasKind(Q, "clear")
           /\ \A i : Occ(Q, Calls(i)) = 0 /\ Occ(Q, Fills(i)) = 0
           /\ \A op \in Mounts(Q) : op[1] \in {"isblk", "onto", "umount", "mkfs"}
<1>1. \A k \in 1 .. Len(Q) : Q[k][1] \in Lookups \cup Finals
  BY DEF Ending
<1>2. ~HasKind(Q, "homed") /\ ~HasKind(Q, "clear")
  BY <1>1 DEF HasKind, Lookups, Finals
<1>3. ASSUME NEW i
      PROVE  Occ(Q, Calls(i)) = 0 /\ Occ(Q, Fills(i)) = 0
  <2>1. ASSUME NEW k \in 1 .. Len(Q)
        PROVE  Q[k] \notin Calls(i) /\ Q[k] \notin Fills(i)
    <3>1. Q[k][1] \notin {"iput", "drop", "fill"}
      BY <1>1 DEF Lookups, Finals
    <3> QED
      BY <3>1 DEF Calls, Fills
  <2>2. Where(Q, Calls(i)) = {} /\ Where(Q, Fills(i)) = {}
    BY <2>1 DEF Where
  <2> QED
    BY <2>2, FS_EmptySet DEF Occ
<1>4. ASSUME NEW op \in Mounts(Q)
      PROVE  op[1] \in {"isblk", "onto", "umount", "mkfs"}
  <2>1. PICK k \in 1 .. Len(Q) : op = Q[k] /\ IsMount(Q[k])
    BY DEF Mounts
  <2>2. op[1] \in Lookups \cup Finals /\ op[1] \in MountKinds
    BY <1>1, <2>1 DEF IsMount
  <2> QED
    BY <2>2 DEF Lookups, Finals, MountKinds
<1> QED
  BY <1>2, <1>3, <1>4

\* A lookup holds as many inodes when it is over as before.
LEMMA LastOnto ==
    ASSUME NEW P \in Seq(Ops), Ending(P), NEW n \in Nat, Fits(P, n), P # << >>,
           P[Len(P)][1] = "onto"
    PROVE  n >= 2
<1>1. PICK L \in Nat : L = Len(P) /\ L >= 1
  <2>1. Len(P) \in Nat /\ Len(P) # 0
    BY LenProperties, EmptySeq
  <2> QED
    BY <2>1
<1>2. PICK e \in Nat : FitsTo(P, n, e)
  BY DEF Fits
<1>3. PICK d \in [1 .. L + 1 -> Nat] : d[1] = n /\ Follows(P, d)
  BY <1>1, <1>2 DEF FitsTo
<1>4. d[L] = n
  <2> SUFFICES ASSUME d[L] # n
               PROVE  FALSE
    OBVIOUS
  <2> DEFINE T == {k \in 1 .. L : d[k] # n}
  <2>1. L \in T /\ T \in SUBSET Nat
    BY <1>1
  <2>2. PICK m \in T : \A k \in T : m <= k
    BY <2>1, LeastNumber
  <2>3. m \in 1 .. L /\ d[m] # n /\ m # 1
    BY <1>3, <2>2
  <2>4. PICK k \in 1 .. L : m = k + 1 /\ k # L
    <3>1. m - 1 \in 1 .. L /\ m = (m - 1) + 1 /\ m - 1 # L
      BY <2>3
    <3> QED
      BY <3>1
  <2>5. d[k] = n
    <3>1. ~(m <= k)
      BY <2>4
    <3> QED
      BY <2>2, <2>4, <3>1
  <2>6. P[k][1] \in Lookups
    BY <1>1, <2>4 DEF Ending
  <2>7. Gain(P[k][1]) = 0
    BY <2>6 DEF Lookups, Gain
  <2>8. d[k + 1] = d[k] + Gain(P[k][1])
    BY <1>1, <1>3, <2>4 DEF Follows
  <2> QED
    BY <2>3, <2>4, <2>5, <2>7, <2>8
<1>5. d[L] >= Needs(P[L][1])
  BY <1>1, <1>3 DEF Follows
<1> QED
  BY <1>1, <1>4, <1>5, MountGains

LEMMA EndStep ==
    ASSUME NEW kn, NEW td, NEW sl, NEW sup, NEW hm, NEW hd, NEW t, NEW x, NEW Q,
           About(kn, td, sl, sup, hm, hd, t, x, Q), MayEnd(x), OneMounter,
           NEW kn2, NEW td2, NEW hd2, NEW new, NEW h2, NEW nil, nil = << >>,
           Leaves(td, td2, hd, hd2, t, kn2, new, h2), Calm(new, Len(h2)), Mounts(new) = {},
           Even(nil, new, hd[t], h2)
    PROVE  IInvOf(kn2, td2, sl, sup, hm, hd2)
<1>1. /\ IInvOf(kn, td, sl, sup, hm, hd) /\ t \in Tasks /\ x \in Ops /\ Q \in Seq(Ops)
      /\ hd[t] \in Seq(Slots) /\ SlotInv(sl) /\ SuperInv(sup) /\ Stack(<<x>> \o Q, hd[t], sup, kn, t)
      /\ Splits(<<x>> \o Q, x, Q)
  BY AboutIs
<1>2. td[t] = <<x>> \o Q /\ kn \in {t, None}
  BY DEF About
<1>3. ~Drops(x) /\ x[1] # "homed" /\ ~IsMount(x) /\ x[1] \notin {"iput", "drop", "fill"}
  BY DEF MayEnd, Drops, IsMount, MountKinds
<1>4. Ending(Q)
  <2>1. Before(x, Q, Len(hd[t]))
    BY <1>1, Popped
  <2> QED
    BY <2>1 DEF Before
<1>5. \A i : Occ(Q, Calls(i)) = 0 /\ Occ(Q, Fills(i)) = 0
  BY <1>1, <1>4, EndingIs
<1>6. \A op \in Mounts(Q) : op[1] \in {"isblk", "onto", "umount", "mkfs"}
  BY <1>1, <1>4, EndingIs
<1>7. PICK P \in Seq(Ops) : P = <<x>> \o Q
  BY <1>1, Ahead
<1>8. Even(P, new, hd[t], h2)
  <2> SUFFICES ASSUME NEW i \in Slots
               PROVE  /\ Occ(hd[t], Only(i)) + Occ(P, Calls(i)) = Occ(h2, Only(i)) + Occ(new, Calls(i))
                      /\ Occ(new, Fills(i)) = Occ(P, Fills(i))
    BY DEF Even
  <2>1. Occ(P, Calls(i)) = Occ(Q, Calls(i)) /\ Occ(P, Fills(i)) = Occ(Q, Fills(i))
    BY <1>1, <1>3, <1>7, PlainSplit
  <2>2. Occ(nil, Calls(i)) = 0 /\ Occ(nil, Fills(i)) = 0
    <3>1. \A S : Occ(nil, S) = 0
      <4>1. 0 \in Nat
        OBVIOUS
      <4> QED
        BY <4>1, NothingLeft
    <3> QED
      BY <3>1
  <2>3. /\ Occ(hd[t], Only(i)) + Occ(nil, Calls(i)) = Occ(h2, Only(i)) + Occ(new, Calls(i))
        /\ Occ(new, Fills(i)) = Occ(nil, Fills(i))
    BY DEF Even
  <2> QED
    BY <1>5, <2>1, <2>2, <2>3
<1>9. h2 \in Seq(Slots) /\ new \in Seq(Ops)
  BY <1>1 DEF Leaves, Lists
<1>10. Mounts(P) = Mounts(Q)
  <2>1. Mounts(<<x>> \o Q) = (IF IsMount(x) THEN {x} ELSE {}) \cup Mounts(Q)
    BY <1>1, MountsAhead
  <2> QED
    BY <1>3, <1>7, <2>1
<1>11. CASE Mounts(Q) = {}
  <2>1. Slotwise(sl, sl, <<x>> \o Q, new, hd[t], h2)
    BY <1>1, <1>7, <1>8, <1>9, EvenSlots
  <2>2. Mounts(new) = Mounts(Q)
    BY <1>11
  <2> QED
    BY <1>1, <1>3, <2>1, <2>2, SmallStep
<1>12. CASE Mounts(Q) # {}
  <2>1. t \in Mounters
    BY <1>1, <1>2, <1>7, <1>10, <1>12 DEF IInvOf
  <2>2. AllMounts(td) = Mounts(Q)
    <3>1. \A u \in Tasks \ Mounters : Mounts(td[u]) = {}
      BY <1>1 DEF IInvOf
    <3>2. AllMounts(td) = Mounts(td[t])
      BY <1>1, <2>1, <3>1, OnlyMounts
    <3> QED
      BY <1>2, <1>7, <1>10, <3>2
  <2>3. Phase(Mounts(Q), sup)
    BY <1>1, <2>2 DEF IInvOf
  <2>4. PICK op \in Mounts(Q) : op[1] \in {"isblk", "onto", "umount", "mkfs"}
    BY <1>6, <1>12
  <2>5. PICK MQ : MQ = Mounts(Q) \ {op}
    OBVIOUS
  <2>6. op \notin MQ /\ Mounts(Q) = {op} \cup MQ
    BY <2>4, <2>5
  <2>7. Phase({op} \cup MQ, sup)
    BY <2>3, <2>6
  <2>8. Idle(sup)
    BY <2>4, <2>6, <2>7, RestHead
  <2>9. Phase(Mounts(new), sup)
    BY <2>8 DEF Phase, Resting
  <2>10. SameHomed(td[t], new)
    <3> SUFFICES ASSUME NEW w \in Homes
                 PROVE  Has(new, <<"homed", w>>) <=> Has(td[t], <<"homed", w>>)
      BY DEF SameHomed
    <3>1. ~Has(new, <<"homed", w>>)
      BY CalmLacks
    <3>2. <<"homed", w>>[1] = "homed"
      OBVIOUS
    <3>3. ~HasKind(Q, "homed")
      BY <1>1, <1>4, EndingIs
    <3>4. ~Has(Q, <<"homed", w>>)
      BY <3>2, <3>3 DEF Has, HasKind
    <3>5. Has(<<x>> \o Q, <<"homed", w>>) <=> x = <<"homed", w>> \/ Has(Q, <<"homed", w>>)
      BY <1>1, HasAhead
    <3> QED
      BY <1>2, <1>3, <3>1, <3>2, <3>4, <3>5
  <2>11. MountEven(sup, sup, Mounts(td[t]), Mounts(new), td[t], new, hd[t], h2)
    <3>1. PICK M, M2 : M = Mounts(td[t]) /\ M2 = Mounts(new)
      OBVIOUS
    <3>2. Uncounting(M) /\ Uncounting(M2)
      <4>1. M = Mounts(Q) /\ M2 = {}
        BY <1>2, <1>7, <1>10, <3>1
      <4> QED
        BY <1>6, <4>1 DEF Uncounting
    <3>3. AlikeMounts(M, M2)
      BY <3>2, UncountingAlike
    <3> SUFFICES ASSUME NEW i \in Slots
                 PROVE  /\ Occ(hd[t], Only(i)) + Occ(td[t], Calls(i)) + SuperRefs(sup, M, i)
                             = Occ(h2, Only(i)) + Occ(new, Calls(i)) + SuperRefs(sup, M2, i)
                        /\ Occ(new, Fills(i)) = Occ(td[t], Fills(i))
      BY <3>1 DEF MountEven
    <3>4. Alike(sup, M, sup, M2, i)
      BY <3>3, MountsAlike
    <3>5. SuperRefs(sup, M2, i) = SuperRefs(sup, M, i)
      BY <3>4, SuperSame
    <3>6. /\ Occ(hd[t], Only(i)) + Occ(td[t], Calls(i)) = Occ(h2, Only(i)) + Occ(new, Calls(i))
          /\ Occ(new, Fills(i)) = Occ(td[t], Fills(i))
      BY <1>2, <1>7, <1>8 DEF Even
    <3> QED
      BY <3>5, <3>6
  <2>12. Stack(new, h2, sup, kn2, t)
    BY <1>9, CalmStack
  <2>13. CountSame(sl, sl) /\ UnreadSame(sl, sl)
    BY SlotSelf
  <2> QED
    BY <1>1, <1>2, <2>1, <2>9, <2>10, <2>11, <2>12, <2>13, SuperStep
<1> QED
  BY <1>11, <1>12

LEMMA NotFoundStep ==
    ASSUME NEW kn, NEW td, NEW sl, NEW sup, NEW hm, NEW hd, NEW t, NEW x, NEW Q,
           About(kn, td, sl, sup, hm, hd, t, x, Q), MayEnd(x), OneMounter,
           NEW i, i = hd[t][Len(hd[t])], NEW nil, nil = << >>,
           NEW kn2, NEW td2, NEW hd2,
           Leaves(td, td2, hd, hd2, t, kn2, <<<<"iput", i>>>> \o nil, Cut(hd[t], 1))
    PROVE  IInvOf(kn2, td2, sl, sup, hm, hd2)
<1>1. hd[t] \in Seq(Slots) /\ Len(hd[t]) \in Nat /\ Len(hd[t]) >= 1
  <2>1. Needs(x[1]) = 1
    BY DEF MayEnd, Needs
  <2>2. hd[t] \in Seq(Slots) /\ Len(hd[t]) \in Nat /\ Len(hd[t]) >= Needs(x[1])
    BY AboutIs
  <2> QED
    BY <2>1, <2>2
<1>2. PICK g \in Seq(Slots) : g = Cut(hd[t], 1) /\ Len(g) = Len(hd[t]) - 1 /\ Sheds(hd[t], g, i) /\ i \in Slots
  BY <1>1, CutTop
<1>3. Calm(nil, Len(g)) /\ nil \in Seq(Ops) /\ Mounts(nil) = {}
  <2>1. Len(g) \in Nat
    BY <1>2, LenProperties
  <2> QED
    BY <2>1, CalmNothing, NothingLeft
<1> DEFINE new == <<<<"iput", i>>>> \o nil
<1>4. Calm(new, Len(g)) /\ Mounts(new) = {} /\ Even(nil, new, hd[t], g)
  BY <1>1, <1>2, <1>3, LetGo
<1>5. Leaves(td, td2, hd, hd2, t, kn2, new, g)
  BY <1>2
<1> HIDE DEF new
<1> QED
  BY <1>4, <1>5, EndStep

\* Two locals of the call are dropped, the last one first.
PutsBoth(q, Q, i, j) == q = <<<<"iput", i>>>> \o (<<<<"iput", j>>>> \o Q)

LEMMA LetGoBoth ==
    ASSUME NEW Z \in Seq(Ops), NEW h \in Seq(Slots), Len(h) >= 2, Calm(Z, Len(h) - 2),
           NEW i, i = h[Len(h)], NEW j, j = h[Len(h) - 1], NEW new, PutsBoth(new, Z, i, j)
    PROVE  LetsTwo(new, Z, h, Cut(h, 2))
<1>1. PICK g : g = Cut(h, 2)
  OBVIOUS
<1>2. /\ g \in Seq(Slots) /\ Len(g) = Len(h) - 2 /\ i \in Slots /\ j \in Slots
      /\ \A S : /\ Occ(h, S) = Occ(g, S) + In(i, S) + In(j, S)
                /\ Occ(g, S) \in Nat /\ In(i, S) \in Nat /\ In(j, S) \in Nat
  BY <1>1, CutTwo
<1>3. Calm(Z, Len(g)) /\ Len(g) \in Nat
  BY <1>2, LenProperties
<1> DEFINE a == <<"iput", j>>
           b == <<"iput", i>>
           q == <<a>> \o Z
           w == <<b>> \o q
<1>4. Calm(q, Len(g)) /\ Mounts(q) = Mounts(Z) /\ Splits(q, a, Z)
  BY <1>2, <1>3, PutAhead
<1>5. q \in Seq(Ops)
  BY <1>4 DEF Calm, Good
<1> HIDE DEF q
<1>6. Calm(w, Len(g)) /\ Mounts(w) = Mounts(q) /\ Splits(w, b, q)
  BY <1>2, <1>3, <1>4, PutAhead
<1>7. w \in Seq(Ops)
  BY <1>6 DEF Calm, Good
<1>8. new = w
  BY DEF PutsBoth, q
<1> HIDE DEF w
<1>9. Even(Z, w, h, g)
  <2> SUFFICES ASSUME NEW k \in Slots
               PROVE  /\ Occ(h, Only(k)) + Occ(Z, Calls(k)) = Occ(g, Only(k)) + Occ(w, Calls(k))
                      /\ Occ(w, Fills(k)) = Occ(Z, Fills(k))
    BY DEF Even
  <2>1. Occ(q, Calls(k)) = In(j, Only(k)) + Occ(Z, Calls(k)) /\ Occ(q, Fills(k)) = Occ(Z, Fills(k))
    BY <1>4, <1>5, PutSplit
  <2>2. Occ(w, Calls(k)) = In(i, Only(k)) + Occ(q, Calls(k)) /\ Occ(w, Fills(k)) = Occ(q, Fills(k))
    BY <1>5, <1>6, <1>7, PutSplit
  <2>3. PICK n1 \in Nat, n2 \in Nat, n3 \in Nat, n4 \in Nat :
           /\ n1 = Occ(g, Only(k)) /\ n2 = In(i, Only(k)) /\ n3 = In(j, Only(k)) /\ n4 = Occ(Z, Calls(k))
    <3>1. Occ(Z, Calls(k)) \in Nat
      BY WhereIsFinite
    <3> QED
      BY <1>2, <3>1
  <2>4. (n1 + n2 + n3) + n4 = n1 + (n2 + (n3 + n4))
    OBVIOUS
  <2>5. Occ(h, Only(k)) + Occ(Z, Calls(k)) = (n1 + n2 + n3) + n4
    BY <1>2, <2>3
  <2>6. Occ(g, Only(k)) + Occ(w, Calls(k)) = n1 + (n2 + (n3 + n4))
    BY <2>1, <2>2, <2>3
  <2> QED
    BY <2>1, <2>2, <2>4, <2>5, <2>6
<1> QED
  BY <1>1, <1>3, <1>4, <1>6, <1>8, <1>9 DEF LetsTwo

LEMMA TwoHeld ==
    ASSUME NEW kn, NEW td, NEW sl, NEW sup, NEW hm, NEW hd, NEW t, NEW x, NEW Q,
           About(kn, td, sl, sup, hm, hd, t, x, Q), MayEnd(x), td[t][Len(td[t])][1] = "onto"
    PROVE  Len(hd[t]) >= 2
<1>1. /\ hd[t] \in Seq(Slots) /\ Len(hd[t]) \in Nat /\ x \in Ops /\ Q \in Seq(Ops)
      /\ Stack(<<x>> \o Q, hd[t], sup, kn, t)
  BY AboutIs
<1>2. td[t] = <<x>> \o Q
  BY DEF About
<1>3. Ending(Q)
  <2>1. Before(x, Q, Len(hd[t]))
    BY <1>1, Popped
  <2> QED
    BY <2>1 DEF Before
<1>4. PICK P \in Seq(Ops) : P = <<x>> \o Q
  BY <1>1, Ahead
<1>5. Ending(P) /\ P # << >> /\ Fits(P, Len(hd[t]))
  <2>1. P # << >> /\ Len(P) = Len(Q) + 1 /\ P[1] = x /\ \A k \in 1 .. Len(Q) : P[k + 1] = Q[k]
    BY <1>1, <1>4, Ahead
  <2>2. Fits(P, Len(hd[t]))
    BY <1>1, <1>4 DEF Stack, Good
  <2>3. ASSUME NEW k \in 1 .. Len(P)
        PROVE  P[k][1] \in Lookups \/ (k = Len(P) /\ P[k][1] \in Finals)
    <3>1. CASE k = 1
      BY <2>1, <3>1 DEF MayEnd, Lookups
    <3>2. CASE k # 1
      <4>1. PICK l \in 1 .. Len(Q) : k = l + 1
        <5>1. Len(Q) \in Nat
          BY <1>1, LenProperties
        <5>2. k - 1 \in 1 .. Len(Q) /\ k = (k - 1) + 1
          BY <2>1, <3>2, <5>1
        <5> QED
          BY <5>2
      <4>2. P[k] = Q[l]
        BY <2>1, <4>1
      <4>3. Q[l][1] \in Lookups \/ (l = Len(Q) /\ Q[l][1] \in Finals)
        BY <1>3 DEF Ending
      <4> QED
        BY <2>1, <4>1, <4>2, <4>3
    <3> QED
      BY <3>1, <3>2
  <2> QED
    BY <2>1, <2>2, <2>3 DEF Ending
<1>6. Len(hd[t]) >= 2
  <2>1. P[Len(P)][1] = "onto"
    BY <1>2, <1>4
  <2> QED
    BY <1>1, <1>5, <2>1, LastOnto
<1> QED
  BY <1>6

LEMMA NotMountedStep ==
    ASSUME NEW kn, NEW td, NEW sl, NEW sup, NEW hm, NEW hd, NEW t, NEW x, NEW Q,
           About(kn, td, sl, sup, hm, hd, t, x, Q), MayEnd(x), OneMounter,
           td[t][Len(td[t])][1] = "onto",
           NEW i, i = hd[t][Len(hd[t])], NEW j, j = hd[t][Len(hd[t]) - 1], NEW nil, nil = << >>,
           NEW kn2, NEW td2, NEW hd2,
           Leaves(td, td2, hd, hd2, t, kn2, <<<<"iput", i>>>> \o (<<<<"iput", j>>>> \o nil), Cut(hd[t], 2))
    PROVE  IInvOf(kn2, td2, sl, sup, hm, hd2)
<1>1. hd[t] \in Seq(Slots) /\ Len(hd[t]) \in Nat /\ Len(hd[t]) >= 2
  BY AboutIs, TwoHeld
<1>7. PICK h, Z, new : /\ h \in Seq(Slots) /\ h = hd[t] /\ Z = nil /\ Len(h) >= 2 /\ Len(h) \in Nat
                                      /\ new = <<<<"iput", i>>>> \o (<<<<"iput", j>>>> \o nil)
  BY <1>1
<1>8. Z \in Seq(Ops) /\ Calm(Z, Len(h) - 2) /\ Mounts(Z) = {} /\ PutsBoth(new, Z, i, j)
  <2>1. Len(h) - 2 \in Nat
    BY <1>7
  <2>2. Calm(nil, Len(h) - 2) /\ nil \in Seq(Ops) /\ Mounts(nil) = {}
    BY <2>1, CalmNothing, NothingLeft
  <2> QED
    BY <1>7, <2>2 DEF PutsBoth
<1>9. i = h[Len(h)] /\ j = h[Len(h) - 1]
  BY <1>7
<1>10. LetsTwo(new, Z, h, Cut(h, 2))
  BY <1>7, <1>8, <1>9, LetGoBoth
<1>11. Calm(new, Len(Cut(hd[t], 2))) /\ Mounts(new) = {} /\ Even(nil, new, hd[t], Cut(hd[t], 2))
  BY <1>7, <1>8, <1>10 DEF LetsTwo
<1>12. Leaves(td, td2, hd, hd2, t, kn2, new, Cut(hd[t], 2))
  BY <1>7
<1> QED
  BY <1>11, <1>12, EndStep

-----------------------------------------------------------------------------
(* The actions of the module.                                              *)

\* The micro-step of t and the ones after it.
Doing(t, x, Q) == About(kernel, todo, slot, super, home, held, t, x, Q)

LEMMA DoesIs ==
    ASSUME IInv, NEW t \in Tasks, NEW op, Does(t, op),
           NEW x, x = Head(todo[t]), NEW Q, Q = Tail(todo[t])
    PROVE  Doing(t, x, Q) /\ x[1] = op /\ x \in Ops /\ Q \in Seq(Ops)
<1>1. todo[t] \in Seq(Ops) /\ todo[t] # << >> /\ kernel \in {t, None} /\ x[1] = op
  BY DEF IInv, IInvOf, Does
<1>2. x \in Ops /\ Q \in Seq(Ops) /\ todo[t] = <<x>> \o Q
  BY <1>1, HeadFirst
<1> QED
  BY <1>1, <1>2 DEF Doing, About, IInv

\* The inodes of t become h2.
HeldTo(t, h2) == Differ(held, held', t) /\ Lists(held', Slots) /\ held'[t] = h2

LEMMA HeldSame ==
    ASSUME IInv, NEW t \in Tasks, UNCHANGED held
    PROVE  HeldTo(t, held[t])
  BY DEF HeldTo, Differ, Lists, IInv, IInvOf

SetTo(f, g, t, h) == g = [f EXCEPT ![t] = h]

LEMMA HeldSet ==
    ASSUME IInv, NEW t \in Tasks, NEW h2 \in Seq(Slots), SetTo(held, held', t, h2)
    PROVE  HeldTo(t, h2)
<1>1. held \in [Tasks -> Seq(Slots)]
  BY DEF IInv, IInvOf
<1> QED
  BY <1>1 DEF HeldTo, Differ, Lists, SetTo

LEMMA HeldMore ==
    ASSUME IInv, NEW t \in Tasks, NEW i \in Slots, Holds(t, i)
    PROVE  HeldTo(t, Append(held[t], i))
<1>1. held \in [Tasks -> Seq(Slots)]
  BY DEF IInv, IInvOf
<1>2. Append(held[t], i) \in Seq(Slots)
  BY <1>1
<1>3. SetTo(held, held', t, Append(held[t], i))
  BY <1>1 DEF SetTo, Holds
<1> QED
  BY <1>2, <1>3, HeldSet

LEMMA HeldLess ==
    ASSUME IInv, NEW t \in Tasks, NEW n \in Nat, n <= Len(held[t]), Forgets(t, n)
    PROVE  HeldTo(t, Cut(held[t], n))
<1>1. held \in [Tasks -> Seq(Slots)]
  BY DEF IInv, IInvOf
<1>2. held[t] \in Seq(Slots) /\ n \in 0 .. Len(held[t])
  BY <1>1
<1>3. Cut(held[t], n) \in Seq(Slots)
  BY <1>2, CutIs
<1>4. SetTo(held, held', t, Cut(held[t], n))
  BY <1>1 DEF SetTo, Forgets, Cut
<1> QED
  BY <1>3, <1>4, HeldSet

\* The micro-steps of t become new, and its inodes h2.
To(t, new, h2) == Leaves(todo, todo', held, held', t, kernel', new, h2)

LEMMA ListTo ==
    ASSUME IInv, NEW t \in Tasks, NEW new \in Seq(Ops), SetTo(todo, todo', t, new), kernel' \in {t, None},
           NEW h2, HeldTo(t, h2)
    PROVE  To(t, new, h2)
<1>1. todo \in [Tasks -> Seq(Ops)]
  BY DEF IInv, IInvOf
<1>2. Differ(todo, todo', t) /\ Lists(todo', Ops) /\ todo'[t] = new
  BY <1>1 DEF Differ, Lists, SetTo
<1> QED
  BY <1>2 DEF To, Leaves, HeldTo

LEMMA ThenAll ==
    ASSUME IInv, NEW t \in Tasks, NEW ops, NEW waits, Then(t, ops, waits),
           NEW Q, Q = Tail(todo[t]), NEW new \in Seq(Ops), new = ops \o Q, NEW h2, HeldTo(t, h2)
    PROVE  To(t, new, h2)
<1>1. todo \in [Tasks -> Seq(Ops)]
  BY DEF IInv, IInvOf
<1>2. SetTo(todo, todo', t, new)
  BY <1>1 DEF SetTo, Then
<1>3. kernel' \in {t, None}
  BY DEF Then
<1> QED
  BY <1>2, <1>3, ListTo

LEMMA ThenNone ==
    ASSUME IInv, NEW t \in Tasks, NEW waits, Then(t, << >>, waits),
           NEW Q \in Seq(Ops), Q = Tail(todo[t]), NEW h2, HeldTo(t, h2)
    PROVE  To(t, Q, h2)
<1>1. Q = << >> \o Q
  OBVIOUS
<1> QED
  BY <1>1, ThenAll

LEMMA ThenOne ==
    ASSUME IInv, NEW t \in Tasks, NEW waits, NEW a \in Ops, Then(t, <<a>>, waits),
           NEW Q \in Seq(Ops), Q = Tail(todo[t]), NEW h2, HeldTo(t, h2)
    PROVE  To(t, <<a>> \o Q, h2)
<1>1. <<a>> \o Q \in Seq(Ops)
  BY Ahead
<1> QED
  BY <1>1, ThenAll

LEMMA OpsTwo ==
    ASSUME NEW a \in Ops, NEW b \in Ops, NEW Q \in Seq(Ops)
    PROVE  /\ <<a, b>> \o Q = <<a>> \o (<<b>> \o Q)
           /\ <<a>> \o (<<b>> \o Q) \in Seq(Ops)
<1>1. <<a, b>> \o Q = <<a>> \o (<<b>> \o Q)
  BY TwoAhead
<1>2. <<b>> \o Q \in Seq(Ops)
  BY Ahead
<1>3. <<a>> \o (<<b>> \o Q) \in Seq(Ops)
  BY <1>2, Ahead
<1> QED
  BY <1>1, <1>3

LEMMA ThenTwo ==
    ASSUME IInv, NEW t \in Tasks, NEW waits, NEW a \in Ops, NEW b \in Ops, Then(t, <<a, b>>, waits),
           NEW Q \in Seq(Ops), Q = Tail(todo[t]), NEW h2, HeldTo(t, h2)
    PROVE  To(t, <<a>> \o (<<b>> \o Q), h2)
<1> DEFINE ops == <<a, b>>
           new == <<a>> \o (<<b>> \o Q)
<1>1. ops \o Q = new /\ new \in Seq(Ops)
  BY OpsTwo
<1>2. Then(t, ops, waits)
  OBVIOUS
<1>3. To(t, new, h2)
  <2> HIDE DEF ops, new
  <2> QED
    BY <1>1, <1>2, ThenAll
<1> QED
  BY <1>3

LEMMA OpsThree ==
    ASSUME NEW a \in Ops, NEW b \in Ops, NEW c \in Ops, NEW Q \in Seq(Ops)
    PROVE  /\ <<a, b, c>> \o Q = <<a>> \o (<<b>> \o (<<c>> \o Q))
           /\ <<a>> \o (<<b>> \o (<<c>> \o Q)) \in Seq(Ops)
<1>1. <<a, b, c>> \o Q = <<a>> \o (<<b>> \o (<<c>> \o Q))
  <2>1. <<a>> \in Seq(Ops) /\ <<b, c>> \in Seq(Ops)
    OBVIOUS
  <2>2. (<<a>> \o <<b, c>>) \o Q = <<a>> \o (<<b, c>> \o Q)
    BY <2>1, ConcatAssociative
  <2>3. <<a>> \o <<b, c>> = <<a, b, c>>
    BY Triple
  <2>4. <<b, c>> \o Q = <<b>> \o (<<c>> \o Q)
    BY OpsTwo
  <2> QED
    BY <2>2, <2>3, <2>4
<1>2. <<b>> \o (<<c>> \o Q) \in Seq(Ops)
  BY OpsTwo
<1>3. <<a>> \o (<<b>> \o (<<c>> \o Q)) \in Seq(Ops)
  BY <1>2, Ahead
<1> QED
  BY <1>1, <1>3

LEMMA ThenThree ==
    ASSUME IInv, NEW t \in Tasks, NEW waits, NEW a \in Ops, NEW b \in Ops, NEW c \in Ops,
           Then(t, <<a, b, c>>, waits),
           NEW Q \in Seq(Ops), Q = Tail(todo[t]), NEW h2, HeldTo(t, h2)
    PROVE  To(t, <<a>> \o (<<b>> \o (<<c>> \o Q)), h2)
<1> DEFINE ops == <<a, b, c>>
           new == <<a>> \o (<<b>> \o (<<c>> \o Q))
<1>1. ops \o Q = new /\ new \in Seq(Ops)
  BY OpsThree
<1>2. Then(t, ops, waits)
  OBVIOUS
<1>3. To(t, new, h2)
  <2> HIDE DEF ops, new
  <2> QED
    BY <1>1, <1>2, ThenAll
<1> QED
  BY <1>3

FourOf(p, a, b, c, e) == p = <<a, b, c, e>>
FourBefore(q, a, b, c, e, Q) == q = <<a>> \o (<<b>> \o (<<c>> \o (<<e>> \o Q)))

LEMMA OpsFour ==
    ASSUME NEW a \in Ops, NEW b \in Ops, NEW c \in Ops, NEW e \in Ops, NEW Q \in Seq(Ops),
           NEW p, FourOf(p, a, b, c, e), NEW q, FourBefore(q, a, b, c, e, Q)
    PROVE  p \o Q = q /\ q \in Seq(Ops)
<1>1. <<a, b, c, e>> \o Q = <<a>> \o (<<b>> \o (<<c>> \o (<<e>> \o Q)))
  <2>1. <<a>> \in Seq(Ops) /\ <<b, c, e>> \in Seq(Ops)
    OBVIOUS
  <2>2. (<<a>> \o <<b, c, e>>) \o Q = <<a>> \o (<<b, c, e>> \o Q)
    BY <2>1, ConcatAssociative
  <2>3. <<a>> \o <<b, c, e>> = <<a, b, c, e>>
    BY Quadruple
  <2>4. <<b, c, e>> \o Q = <<b>> \o (<<c>> \o (<<e>> \o Q))
    BY OpsThree
  <2> QED
    BY <2>2, <2>3, <2>4
<1>2. <<b>> \o (<<c>> \o (<<e>> \o Q)) \in Seq(Ops)
  BY OpsThree
<1>3. <<a>> \o (<<b>> \o (<<c>> \o (<<e>> \o Q))) \in Seq(Ops)
  BY <1>2, Ahead
<1> QED
  BY <1>1, <1>3 DEF FourOf, FourBefore

LEMMA ThenFour ==
    ASSUME IInv, NEW t \in Tasks, NEW waits,
           NEW a \in Ops, NEW b \in Ops, NEW c \in Ops, NEW e \in Ops,
           NEW ops, FourOf(ops, a, b, c, e), Then(t, ops, waits),
           NEW Q \in Seq(Ops), Q = Tail(todo[t]), NEW new, FourBefore(new, a, b, c, e, Q),
           NEW h2, HeldTo(t, h2)
    PROVE  To(t, new, h2)
<1>1. ops \o Q = new /\ new \in Seq(Ops)
  BY OpsFour
<1> QED
  BY <1>1, ThenAll

LEMMA FailKeeps ==
    ASSUME IInv, NEW line, Fail(line), UNCHANGED <<super, home>>
    PROVE  IInv'
  BY DEF IInv, Fail
-----------------------------------------------------------------------------
(* The micro-steps of iget and iput.                                       *)

LEMMA GetSuperIs ==
    ASSUME NEW d
    PROVE  get_super(d) = Found(super, d)
  BY DEF get_super, Found, FoundIn

LEMMA TablesIs ==
    ASSUME IInv
    PROVE  /\ SlotInv(slot) /\ SuperInv(super) /\ slot \in [Slots -> SlotRec] /\ super \in [Supers -> SuperRec]
           /\ Phase(AllMounts(todo), super)
           /\ \A t \in Tasks : todo[t] \in Seq(Ops) /\ held[t] \in Seq(Slots) /\ home[t] \in [Homes -> Slots]
  BY DEF IInv, IInvOf, SlotInv, SuperInv

\* A free inode, as iget and get_pipe_inode choose it.
LEMMA FreeSlot ==
    ASSUME IInv, Free(slot) # {}, NEW i, i = Min(Free(slot))
    PROVE  i \in Slots /\ slot[i].dev = None
<1>1. slot \in [Slots -> SlotRec]
  BY TablesIs
<1>2. Free(slot) \in SUBSET Nat
  BY <1>1, InodeAssumption DEF Free
<1>3. i \in Free(slot)
  BY <1>2, MinIsIn
<1> QED
  BY <1>1, <1>3 DEF Free

\* An inode that iget finds.
LEMMA FoundSlot ==
    ASSUME IInv, NEW s, s # None, NEW n, find_inode(s, n) # {}, NEW i, i = Min(find_inode(s, n))
    PROVE  i \in Slots /\ slot[i].dev # None /\ slot[i].mount \in {None, Root, Disk}
<1>1. slot \in [Slots -> SlotRec] /\ SlotInv(slot)
  BY TablesIs
<1>2. find_inode(s, n) \in SUBSET Nat
  BY <1>1, InodeAssumption DEF find_inode, Linked
<1>3. i \in find_inode(s, n)
  BY <1>2, MinIsIn
<1>4. i \in Slots /\ slot[i].sb = s
  BY <1>3 DEF find_inode, Linked
<1>5. SlotOk(slot[i]) /\ slot[i] \in SlotRec
  BY <1>1, <1>4 DEF SlotInv
<1>6. Listed(slot[i])
  BY <1>4, <1>5 DEF SlotOk
<1> QED
  BY <1>4, <1>5, <1>6 DEF Listed, SlotRec

\* The device and the super block that iget is given.
LEMMA IgetDevice ==
    ASSUME IInv, NEW d \in Devs, NEW s, s = Found(super, d), s # None
    PROVE  d \in {Root, Disk} /\ s \in Supers /\ (d = Root => s = 1) /\ (d = Disk => s = First)
<1>1. SuperInv(super) /\ super \in [Supers -> SuperRec] /\ Phase(AllMounts(todo), super)
  BY TablesIs
<1>2. s \in Supers /\ super[s].dev = d
  BY <1>1, FoundIs
<1>3. super[s] \in SuperRec
  BY <1>1, <1>2
<1>4. d \in {Root, Disk}
  BY <1>2, <1>3, Distinct DEF SuperRec, Devs
<1>5. d = Root => s = 1
  BY <1>1, FoundIs
<1>6. d = Disk => s = First
  BY <1>1, FoundDisk
<1> QED
  BY <1>2, <1>4, <1>5, <1>6

\* What iget does not find is not in the table.
LEMMA NotThere ==
    ASSUME IInv, NEW d \in {Root, Disk}, NEW s, d = Root => s = 1, d = Disk => s = First,
           NEW n, find_inode(s, n) = {}
    PROVE  \A j \in Slots : ~(slot[j].dev = d /\ slot[j].nr = n)
<1> SUFFICES ASSUME NEW j \in Slots, slot[j].dev = d, slot[j].nr = n
             PROVE  FALSE
  OBVIOUS
<1>1. SlotOk(slot[j])
  BY TablesIs DEF SlotInv
<1>2. slot[j].sb = s
  BY <1>1 DEF SlotOk
<1> QED
  BY <1>2 DEF find_inode, Linked

LEMMA IgetKeeps ==
    ASSUME IInv, NEW t \in Tasks, Iget(t)
    PROVE  IInv' /\ stolen' = stolen
<1>1. PICK x, Q : x = Head(todo[t]) /\ Q = Tail(todo[t])
  OBVIOUS
<1>2. Doing(t, x, Q) /\ x[1] = "iget" /\ x \in Ops /\ Q \in Seq(Ops)
  BY <1>1, DoesIs DEF Iget
<1>3. PICK d, n, s : d = x[2] /\ n = x[3] /\ s = Found(super, d)
  OBVIOUS
<1>4. d \in Devs /\ n \in Names
  BY <1>2, <1>3, KindsOfOps
<1>5. UNCHANGED <<super, home, stolen>>
  BY DEF Iget, Keeps
<1>6. PICK found : found = find_inode(s, n)
  OBVIOUS
<1>7. PICK i : i = IF found = {} THEN Min(Free(slot)) ELSE Min(found)
  OBVIOUS
<1>8. PICK m : m = Found(super, slot[i].mount)
  OBVIOUS
<1>9. IF s = None THEN Fail(95)
      ELSE IF found = {} /\ Free(slot) = {} THEN Fail(32)
      ELSE IF found = {}
      THEN /\ slot' = [slot EXCEPT ![i].dev = d, ![i].nr = n, ![i].count = @ + 1, ![i].sb = s]
           /\ \E waits \in BOOLEAN : Then(t, <<<<"fill", i>>>>, waits)
           /\ UNCHANGED held
      ELSE IF slot[i].mount = None
      THEN slot' = Counted(i, 1) /\ Holds(t, i) /\ Then(t, << >>, FALSE)
      ELSE IF m = None THEN Fail(116)
      ELSE /\ slot' = Counted(i, 1)
           /\ Then(t, <<<<"iput", i>>, <<"enter", m>>>>, FALSE)
           /\ UNCHANGED held
  <2>1. IgetOf(t, found)
    BY <1>1, <1>3, <1>6, GetSuperIs DEF Iget, Arg
  <2> QED
    BY <2>1, <1>1, <1>3, <1>7, <1>8, GetSuperIs DEF IgetOf, Arg
<1>10. CASE s = None \/ (found = {} /\ Free(slot) = {})
  BY <1>5, <1>9, <1>10, FailKeeps
<1>11. CASE s # None /\ found = {} /\ Free(slot) # {}
  <2>1. i \in Slots /\ slot[i].dev = None
    BY <1>7, <1>11, FreeSlot
  <2>2. d \in {Root, Disk} /\ s \in Supers /\ (d = Root => s = 1) /\ (d = Disk => s = First)
    BY <1>3, <1>4, <1>11, IgetDevice
  <2>3. \A j \in Slots : ~(slot[j].dev = d /\ slot[j].nr = n)
    BY <1>6, <1>11, <2>2, NotThere
  <2>4. Takes(slot, slot', i, d, n, s)
    BY <1>9, <1>11 DEF Takes
  <2>5. <<"fill", i>> \in Ops
    BY <2>1, OpsOfKinds
  <2>6. To(t, <<<<"fill", i>>>> \o Q, held[t])
    BY <1>1, <1>2, <1>9, <1>11, <2>5, ThenOne, HeldSame
  <2>7. IInvOf(kernel', todo', slot', super, home, held')
    BY <1>2, <1>4, <2>1, <2>2, <2>3, <2>4, <2>6, TakeStep DEF Doing, To
  <2> QED
    BY <1>5, <2>7 DEF IInv
<1>12. CASE s # None /\ found # {} /\ slot[i].mount = None
  <2>1. i \in Slots /\ slot[i].dev # None
    BY <1>6, <1>7, <1>12, FoundSlot
  <2>2. Recount(slot, slot', i, 1)
    BY <1>9, <1>12 DEF Counted, Recount
  <2>3. To(t, Q, Append(held[t], i))
    BY <1>1, <1>2, <1>9, <1>12, <2>1, ThenNone, HeldMore
  <2>4. IInvOf(kernel', todo', slot', super, home, held')
    BY <1>2, <2>1, <2>2, <2>3, HoldStep DEF Doing, To
  <2> QED
    BY <1>5, <2>4 DEF IInv
<1>13. CASE s # None /\ found # {} /\ slot[i].mount # None /\ m = None
  BY <1>5, <1>9, <1>13, FailKeeps
<1>14. CASE s # None /\ found # {} /\ slot[i].mount # None /\ m # None
  <2>1. i \in Slots /\ slot[i].dev # None
    BY <1>6, <1>7, <1>14, FoundSlot
  <2>2. Recount(slot, slot', i, 1)
    BY <1>9, <1>14 DEF Counted, Recount
  <2>3. m \in Supers
    BY <1>8, <1>14, TablesIs, FoundIs
  <2>4. <<"iput", i>> \in Ops /\ <<"enter", m>> \in Ops
    BY <2>1, <2>3, OpsOfKinds
  <2>5. To(t, <<<<"iput", i>>>> \o (<<<<"enter", m>>>> \o Q), held[t])
    BY <1>1, <1>2, <1>9, <1>14, <2>4, ThenTwo, HeldSame
  <2>6. IInvOf(kernel', todo', slot', super, home, held')
    BY <1>2, <2>1, <2>2, <2>3, <2>5, CrossStep DEF Doing, To
  <2> QED
    BY <1>5, <2>6 DEF IInv
<1> QED
  BY <1>5, <1>10, <1>11, <1>12, <1>13, <1>14
LEMMA FillKeeps ==
    ASSUME IInv, NEW t \in Tasks, Fill(t)
    PROVE  IInv' /\ stolen' = stolen
<1>1. PICK x, Q : x = Head(todo[t]) /\ Q = Tail(todo[t])
  OBVIOUS
<1>2. Doing(t, x, Q) /\ x[1] = "fill" /\ x \in Ops /\ Q \in Seq(Ops)
  BY <1>1, DoesIs DEF Fill
<1>3. PICK i : i = x[2]
  OBVIOUS
<1>4. i \in Slots /\ x = <<"fill", i>>
  BY <1>2, <1>3, KindsOfOps
<1>5. /\ slot' = [slot EXCEPT ![i].desc = Node(i)] /\ Holds(t, i) /\ Then(t, << >>, FALSE)
      /\ UNCHANGED <<super, home, stolen>>
  BY <1>1, <1>3 DEF Fill, Arg, Keeps
<1>6. Reads(slot, slot', i)
  BY <1>5 DEF Reads, Node
<1>7. To(t, Q, Append(held[t], i))
  BY <1>1, <1>2, <1>4, <1>5, ThenNone, HeldMore
<1>8. IInvOf(kernel', todo', slot', super, home, held')
  BY <1>2, <1>4, <1>6, <1>7, FillStep DEF Doing, To
<1> QED
  BY <1>5, <1>8 DEF IInv

LEMMA EnterKeeps ==
    ASSUME IInv, NEW t \in Tasks, Enter(t)
    PROVE  IInv' /\ stolen' = stolen
<1>1. PICK x, Q : x = Head(todo[t]) /\ Q = Tail(todo[t])
  OBVIOUS
<1>2. Doing(t, x, Q) /\ x[1] = "enter" /\ x \in Ops /\ Q \in Seq(Ops)
  BY <1>1, DoesIs DEF Enter
<1>3. PICK i : i = super[x[2]].iroot
  OBVIOUS
<1>4. i \in Slots \cup {None}
  BY <1>2, <1>3, KindsOfOps, TablesIs DEF SuperRec
<1>5. /\ UNCHANGED <<super, home, stolen>>
      /\ IF i = None THEN Fail(119)
         ELSE IF slot[i].dev = None THEN Fail(119)
         ELSE slot' = Counted(i, 1) /\ Holds(t, i) /\ Then(t, << >>, FALSE)
  BY <1>1, <1>3 DEF Enter, Arg, Keeps
<1>6. CASE i = None \/ slot[i].dev = None
  BY <1>5, <1>6, FailKeeps
<1>7. CASE i # None /\ slot[i].dev # None
  <2>1. i \in Slots /\ Recount(slot, slot', i, 1)
    BY <1>4, <1>5, <1>7 DEF Counted, Recount
  <2>2. To(t, Q, Append(held[t], i))
    BY <1>1, <1>2, <1>5, <1>7, <2>1, ThenNone, HeldMore
  <2>3. IInvOf(kernel', todo', slot', super, home, held')
    BY <1>2, <1>7, <2>1, <2>2, HoldStep DEF Doing, To
  <2> QED
    BY <1>5, <2>3 DEF IInv
<1> QED
  BY <1>5, <1>6, <1>7

LEMMA IputKeeps ==
    ASSUME IInv, NEW t \in Tasks, Iput(t)
    PROVE  IInv' /\ stolen' = stolen
<1>1. PICK x, Q : x = Head(todo[t]) /\ Q = Tail(todo[t])
  OBVIOUS
<1>2. Doing(t, x, Q) /\ x[1] = "iput" /\ x \in Ops /\ Q \in Seq(Ops)
  BY <1>1, DoesIs DEF Iput
<1>3. PICK i : i = x[2]
  OBVIOUS
<1>4. i \in Slots /\ x = <<"iput", i>> /\ <<"drop", i>> \in Ops
  BY <1>2, <1>3, KindsOfOps, OpsOfKinds
<1>5. /\ UNCHANGED <<super, home, stolen>>
      /\ IF ~Complete(i) THEN Fail(191)
         ELSE /\ \E waits \in IF slot[i].dev = "pipe" THEN {FALSE} ELSE BOOLEAN :
                   Then(t, <<<<"drop", i>>>>, waits)
              /\ UNCHANGED <<slot, held>>
  BY <1>1, <1>3 DEF Iput, Arg, Keeps
<1>6. CASE ~Complete(i)
  BY <1>5, <1>6, FailKeeps
<1>7. CASE Complete(i)
  <2>1. PICK waits : Then(t, <<<<"drop", i>>>>, waits)
    BY <1>5, <1>7
  <2>2. To(t, <<<<"drop", i>>>> \o Q, held[t])
    BY <1>1, <1>2, <1>4, <1>5, <1>7, <2>1, ThenOne, HeldSame
  <2>3. IInvOf(kernel', todo', slot, super, home, held')
    BY <1>2, <1>4, <2>2, IputStep DEF Doing, To
  <2> QED
    BY <1>5, <1>7, <2>3 DEF IInv
<1> QED
  BY <1>5, <1>6, <1>7

LEMMA DropKeeps ==
    ASSUME IInv, NEW t \in Tasks, Drop(t)
    PROVE  IInv' /\ stolen' = stolen
<1>1. PICK x, Q : x = Head(todo[t]) /\ Q = Tail(todo[t])
  OBVIOUS
<1>2. Doing(t, x, Q) /\ x[1] = "drop" /\ x \in Ops /\ Q \in Seq(Ops)
  BY <1>1, DoesIs DEF Drop, DropAt
<1>3. PICK i : i = x[2]
  OBVIOUS
<1>4. i \in Slots /\ x = <<"drop", i>>
  BY <1>2, <1>3, KindsOfOps
<1>5. /\ UNCHANGED <<super, home, stolen>>
      /\ IF slot[i].count = 1 /\ i = 1 THEN Fail(38)
         ELSE /\ slot' = [slot EXCEPT ![i] = IF slot[i].count = 1 THEN Unused(slot[i].mount)
                                             ELSE [slot[i] EXCEPT !.count = @ - 1]]
              /\ Then(t, << >>, FALSE) /\ UNCHANGED held
  BY <1>1, <1>3 DEF Drop, DropAt, Arg, Keeps
<1>6. CASE slot[i].count = 1 /\ i = 1
  BY <1>5, <1>6, FailKeeps
<1>7. CASE ~(slot[i].count = 1 /\ i = 1)
  <2>1. Release1(slot, slot', i)
    BY <1>5, <1>7 DEF Release1
  <2>2. To(t, Q, held[t])
    BY <1>1, <1>2, <1>5, <1>7, ThenNone, HeldSame
  <2>3. kernel' = t \/ Q = << >>
    BY <1>5, <1>7, <2>2 DEF Then, To, Leaves
  <2>4. IInvOf(kernel', todo', slot', super, home, held')
    BY <1>2, <1>4, <1>7, <2>1, <2>2, <2>3, DropStep DEF Doing, To
  <2> QED
    BY <1>5, <2>4 DEF IInv
<1> QED
  BY <1>5, <1>6, <1>7

-----------------------------------------------------------------------------
(* The micro-steps of a lookup.                                            *)

LEMMA TopIs ==
    ASSUME IInv, NEW t \in Tasks, Len(held[t]) >= 1
    PROVE  /\ held[t] \in Seq(Slots) /\ Len(held[t]) \in Nat /\ Top(t) = held[t][Len(held[t])]
           /\ Top(t) \in Slots /\ slot[Top(t)].dev # None
           /\ slot[Top(t)].dev \in Devs
<1>1. held[t] \in Seq(Slots) /\ Len(held[t]) \in Nat /\ slot \in [Slots -> SlotRec]
  BY TablesIs, LenProperties
<1>2. Top(t) = held[t][Len(held[t])]
  BY DEF Top, Last
<1>3. Len(held[t]) \in 1 .. Len(held[t])
  BY <1>1
<1>4. Top(t) \in Slots /\ slot[Top(t)].dev # None
  BY <1>2, <1>3, HeldInUse DEF IInv
<1> QED
  BY <1>1, <1>2, <1>4 DEF SlotRec

\* The inode that a micro-step is about.
LEMMA DoingTop ==
    ASSUME IInv, NEW t \in Tasks, NEW x, NEW Q, Doing(t, x, Q), Needs(x[1]) = 1
    PROVE  /\ held[t] \in Seq(Slots) /\ Len(held[t]) \in Nat /\ Len(held[t]) >= 1
           /\ Top(t) = held[t][Len(held[t])] /\ Top(t) \in Slots
           /\ slot[Top(t)].dev # None /\ slot[Top(t)].dev \in Devs
<1>1. Len(held[t]) >= 1
  BY AboutIs DEF Doing
<1> QED
  BY <1>1, TopIs

LEMMA StartKeeps ==
    ASSUME IInv, NEW t \in Tasks, Start(t)
    PROVE  IInv' /\ stolen' = stolen
<1>1. PICK x, Q : x = Head(todo[t]) /\ Q = Tail(todo[t])
  OBVIOUS
<1>2. Doing(t, x, Q) /\ x[1] = "start" /\ x \in Ops /\ Q \in Seq(Ops)
  BY <1>1, DoesIs DEF Start
<1>3. PICK w, i : w = x[2] /\ i = home[t][w]
  OBVIOUS
<1>4. w \in Homes /\ i \in Slots /\ slot[i].dev # None
  <2>1. w \in Homes
    BY <1>2, <1>3, KindsOfOps
  <2>2. Calm(Q, Len(held[t]) + Gain(x[1])) /\ todo[t] = <<x>> \o Q
    BY <1>2, AboutIs DEF Doing, Drops, About
  <2>3. ~Has(Q, <<"homed", w>>) /\ x # <<"homed", w>>
    BY <1>2, <2>2, CalmLacks
  <2>4. ~Has(todo[t], <<"homed", w>>)
    BY <1>2, <2>2, <2>3, HasAhead
  <2> QED
    BY <1>3, <2>1, <2>4, HomeInUse DEF IInv
<1>5. /\ UNCHANGED <<super, home, stolen>>
      /\ slot' = Counted(i, 1) /\ Holds(t, i) /\ Then(t, << >>, FALSE)
  BY <1>1, <1>3 DEF Start, Arg, Keeps
<1>6. Recount(slot, slot', i, 1)
  BY <1>5 DEF Counted, Recount
<1>7. To(t, Q, Append(held[t], i))
  BY <1>1, <1>2, <1>4, <1>5, ThenNone, HeldMore
<1>8. IInvOf(kernel', todo', slot', super, home, held')
  BY <1>2, <1>4, <1>6, <1>7, HoldStep DEF Doing, To
<1> QED
  BY <1>5, <1>8 DEF IInv
\* A directory is replaced by the one above it.
LEMMA HeldUp ==
    ASSUME IInv, NEW t \in Tasks, Len(held[t]) >= 1, NEW i \in Slots,
           held' = [held EXCEPT ![t] = Append(Front(@), i)]
    PROVE  HeldTo(t, Append(Cut(held[t], 1), i))
<1>1. held \in [Tasks -> Seq(Slots)] /\ held[t] \in Seq(Slots)
  BY DEF IInv, IInvOf
<1>2. Front(held[t]) = Cut(held[t], 1)
  BY DEF Front, Cut
<1>3. 1 \in 0 .. Len(held[t])
  BY <1>1
<1>4. Cut(held[t], 1) \in Seq(Slots)
  BY <1>1, <1>3, CutIs
<1>5. Append(Cut(held[t], 1), i) \in Seq(Slots)
  BY <1>4
<1>6. SetTo(held, held', t, Append(Cut(held[t], 1), i))
  BY <1>1, <1>2 DEF SetTo
<1> QED
  BY <1>5, <1>6, HeldSet

LEMMA ParentKeeps ==
    ASSUME IInv, NEW t \in Tasks, Parent(t)
    PROVE  IInv' /\ stolen' = stolen
<1>1. PICK x, Q : x = Head(todo[t]) /\ Q = Tail(todo[t])
  OBVIOUS
<1>2. Doing(t, x, Q) /\ x[1] = "parent" /\ x \in Ops /\ Q \in Seq(Ops)
  BY <1>1, DoesIs DEF Parent
<1>3. Needs(x[1]) = 1
  BY <1>2 DEF Needs
<1>4. PICK i, s, up : i = Top(t) /\ s = Found(super, slot[i].dev) /\ up = super[s].imount
  OBVIOUS
<1>5. /\ Len(held[t]) >= 1 /\ i = held[t][Len(held[t])] /\ i \in Slots /\ slot[i].dev # None
  BY <1>2, <1>3, <1>4, DoingTop
<1>6. /\ UNCHANGED <<super, home, stolen>>
      /\ IF ~Complete(i) THEN Fail(191)
         ELSE IF x[2] # Up \/ slot[i].nr # 1
         THEN Then(t, << >>, FALSE) /\ UNCHANGED <<slot, held>>
         ELSE IF s = None \/ up = None THEN Fail(64)
         ELSE /\ slot' = Counted(up, 1)
              /\ held' = [held EXCEPT ![t] = Append(Front(@), up)]
              /\ Then(t, <<<<"iput", i>>>>, FALSE)
  BY <1>1, <1>4, GetSuperIs DEF Parent, Arg, Keeps
<1>7. CASE Fail(191) \/ Fail(64)
  BY <1>6, <1>7, FailKeeps
<1>8. CASE Then(t, << >>, FALSE) /\ UNCHANGED <<slot, held>>
  <2>1. To(t, Q, held[t])
    BY <1>1, <1>2, <1>8, ThenNone, HeldSame
  <2>2. IInvOf(kernel', todo', slot, super, home, held')
    BY <1>2, <2>1, PassStep DEF Doing, To
  <2> QED
    BY <1>6, <1>8, <2>2 DEF IInv
<1>9. CASE /\ s # None /\ up # None /\ slot' = Counted(up, 1)
           /\ held' = [held EXCEPT ![t] = Append(Front(@), up)]
           /\ Then(t, <<<<"iput", i>>>>, FALSE)
  <2>1. s \in Supers /\ super[s].dev = slot[i].dev /\ super[s] \in SuperRec
    BY <1>4, <1>9, TablesIs, FoundIs
  <2>2. up \in Slots
    BY <1>4, <1>9, <2>1 DEF SuperRec
  <2>3. ~HasKind(todo[t], "clear")
    <3>1. Calm(Q, Len(held[t]) + Gain(x[1])) /\ todo[t] = <<x>> \o Q
      BY <1>2, AboutIs DEF Doing, Drops, About
    <3>2. ~HasKind(Q, "clear") /\ x[1] # "clear"
      BY <1>2, <3>1 DEF Calm
    <3> QED
      BY <1>2, <3>1, <3>2, HasAhead
  <2>4. slot[up].dev # None
    <3>1. kernel \in {t, None} /\ "imount" \in Fields
      BY <1>2 DEF Doing, About, Fields
    <3>2. super[s]["imount"] = up
      BY <1>4
    <3>3. super[s].dev # None /\ super[s].imount # None
      BY <1>4, <1>5, <1>9, <2>1
    <3> QED
      BY <2>1, <2>2, <2>3, <3>1, <3>2, <3>3, FieldInUse DEF IInv
  <2>5. Recount(slot, slot', up, 1)
    BY <1>9 DEF Counted, Recount
  <2>6. <<"iput", i>> \in Ops
    BY <1>5, OpsOfKinds
  <2>7. HeldTo(t, Append(Cut(held[t], 1), up))
    BY <1>5, <1>9, <2>2, HeldUp
  <2>8. To(t, <<<<"iput", i>>>> \o Q, Append(Cut(held[t], 1), up))
    BY <1>1, <1>2, <1>9, <2>6, <2>7, ThenOne
  <2>9. IInvOf(kernel', todo', slot', super, home, held')
    BY <1>2, <1>5, <2>2, <2>4, <2>5, <2>8, UpStep DEF Doing, To
  <2> QED
    BY <1>6, <2>9 DEF IInv
<1> QED
  BY <1>6, <1>7, <1>8, <1>9

\* The call of a lookup that ends with nothing to do but puts is a step.
LEMMA NotFoundKeeps ==
    ASSUME IInv, OneMounter, NEW t \in Tasks, NEW x, NEW Q, Doing(t, x, Q), MayEnd(x),
           NotFound(t), UNCHANGED <<slot, super, home>>
    PROVE  IInv'
<1>1. Needs(x[1]) = 1
  BY DEF MayEnd, Needs
<1>2. /\ held[t] \in Seq(Slots) /\ Len(held[t]) \in Nat /\ Len(held[t]) >= 1
      /\ Top(t) = held[t][Len(held[t])] /\ Top(t) \in Slots
  BY <1>1, DoingTop
<1>3. PICK i, j, nil : i = Top(t) /\ j = Second(t) /\ nil = << >>
  OBVIOUS
<1>4. i = held[t][Len(held[t])] /\ j = held[t][Len(held[t]) - 1] /\ <<"iput", i>> \in Ops /\ nil \in Seq(Ops)
  <2>1. i = held[t][Len(held[t])] /\ j = held[t][Len(held[t]) - 1] /\ nil \in Seq(Ops)
    BY <1>2, <1>3 DEF Second
  <2>2. <<"iput", i>> \in Ops
    BY <1>2, <1>3, OpsOfKinds
  <2> QED
    BY <2>1, <2>2
<1>5. kernel' \in {t, None}
  BY DEF NotFound
<1>6. todo \in [Tasks -> Seq(Ops)]
  BY DEF IInv, IInvOf
<1>7. CASE Last(todo[t]) = <<"onto">>
  <2>1. todo[t][Len(todo[t])][1] = "onto"
    BY <1>7 DEF Last
  <2>2. Len(held[t]) >= 2
    BY <2>1, TwoHeld DEF Doing
  <2>3. Len(held[t]) - 1 \in 1 .. Len(held[t])
    BY <1>2, <2>2
  <2>4. j \in Slots
    BY <1>2, <1>4, <2>3
  <2>5. <<"iput", j>> \in Ops
    BY <2>4, OpsOfKinds
  <2>6. <<<<"iput", i>>>> \o <<<<"iput", j>>>> = <<<<"iput", i>>>> \o (<<<<"iput", j>>>> \o nil)
    <3>1. <<<<"iput", j>>>> \in Seq(Ops)
      BY <2>5
    <3> QED
      BY <1>3, <3>1, ConcatEmptySeq
  <2>7. <<<<"iput", i>>>> \o (<<<<"iput", j>>>> \o nil) \in Seq(Ops)
    BY <1>4, <2>5, OpsTwo
  <2>8. SetTo(todo, todo', t, <<<<"iput", i>>>> \o (<<<<"iput", j>>>> \o nil))
    BY <1>3, <1>7, <2>6 DEF SetTo, NotFound
  <2>9. HeldTo(t, Cut(held[t], 2))
    BY <1>7, <2>2, HeldLess DEF NotFound
  <2>10. To(t, <<<<"iput", i>>>> \o (<<<<"iput", j>>>> \o nil), Cut(held[t], 2))
    BY <1>5, <2>7, <2>8, <2>9, ListTo
  <2>11. IInvOf(kernel', todo', slot, super, home, held')
    BY <1>3, <1>4, <2>1, <2>10, NotMountedStep DEF Doing, To
  <2> QED
    BY <2>11 DEF IInv
<1>8. CASE Last(todo[t]) # <<"onto">>
  <2>1. <<<<"iput", i>>>> \o nil \in Seq(Ops)
    BY <1>4, Ahead
  <2>2. SetTo(todo, todo', t, <<<<"iput", i>>>> \o nil)
    BY <1>3, <1>8 DEF SetTo, NotFound
  <2>3. HeldTo(t, Cut(held[t], 1))
    BY <1>2, <1>8, HeldLess DEF NotFound
  <2>4. To(t, <<<<"iput", i>>>> \o nil, Cut(held[t], 1))
    BY <1>5, <2>1, <2>2, <2>3, ListTo
  <2>5. IInvOf(kernel', todo', slot, super, home, held')
    BY <1>3, <1>4, <2>4, NotFoundStep DEF Doing, To
  <2> QED
    BY <2>5 DEF IInv
<1> QED
  BY <1>7, <1>8

LEMMA EntryIs ==
    ASSUME NEW n \in Names
    PROVE  Entry(n) \in Names
  BY Distinct DEF Entry

LEMMA WalkKeeps ==
    ASSUME IInv, OneMounter, NEW t \in Tasks, Walk(t)
    PROVE  IInv' /\ stolen' = stolen
<1>1. PICK x, Q : x = Head(todo[t]) /\ Q = Tail(todo[t])
  OBVIOUS
<1>2. Doing(t, x, Q) /\ x[1] = "walk" /\ x \in Ops /\ Q \in Seq(Ops)
  BY <1>1, DoesIs DEF Walk
<1>3. Needs(x[1]) = 1 /\ MayEnd(x)
  BY <1>2 DEF Needs, MayEnd
<1>4. PICK i, d, n : i = Top(t) /\ d = slot[i].dev /\ n = Entry(x[2])
  OBVIOUS
<1>5. /\ Len(held[t]) >= 1 /\ i = held[t][Len(held[t])] /\ i \in Slots /\ d \in Devs
  BY <1>2, <1>3, <1>4, DoingTop
<1>6. n \in Names
  BY <1>2, <1>4, KindsOfOps, EntryIs
<1>7. /\ UNCHANGED <<slot, super, home, stolen>>
      /\ IF IsDir(Node(i))
         THEN Then(t, <<<<"iput", i>>, <<"iget", d, n>>>>, FALSE) /\ Forgets(t, 1)
         ELSE NotFound(t)
  BY <1>1, <1>4 DEF Walk, Arg, Keeps
<1>8. CASE IsDir(Node(i))
  <2>1. <<"iput", i>> \in Ops /\ <<"iget", d, n>> \in Ops
    BY <1>5, <1>6, OpsOfKinds
  <2>2. HeldTo(t, Cut(held[t], 1))
    BY <1>5, <1>7, <1>8, HeldLess
  <2>3. Then(t, <<<<"iput", i>>, <<"iget", d, n>>>>, FALSE)
    BY <1>7, <1>8
  <2>4. To(t, <<<<"iput", i>>>> \o (<<<<"iget", d, n>>>> \o Q), Cut(held[t], 1))
    BY <1>1, <1>2, <2>1, <2>2, <2>3, ThenTwo
  <2>5. IInvOf(kernel', todo', slot, super, home, held')
    BY <1>2, <1>5, <1>6, <2>4, WalkStep DEF Doing, To
  <2> QED
    BY <1>7, <2>5 DEF IInv
<1>9. CASE ~IsDir(Node(i))
  BY <1>2, <1>3, <1>7, <1>9, NotFoundKeeps
<1> QED
  BY <1>8, <1>9

LEMMA LastNameKeeps ==
    ASSUME IInv, OneMounter, NEW t \in Tasks, LastName(t)
    PROVE  IInv' /\ stolen' = stolen
<1>1. PICK x, Q : x = Head(todo[t]) /\ Q = Tail(todo[t])
  OBVIOUS
<1>2. Doing(t, x, Q) /\ x[1] = "last" /\ x \in Ops /\ Q \in Seq(Ops)
  BY <1>1, DoesIs DEF LastName
<1>3. Needs(x[1]) = 1 /\ MayEnd(x)
  BY <1>2 DEF Needs, MayEnd
<1>4. PICK i, d, n : i = Top(t) /\ d = slot[i].dev /\ n = Entry(x[2])
  OBVIOUS
<1>5. i \in Slots /\ d \in Devs
  BY <1>2, <1>3, <1>4, DoingTop
<1>6. n \in Names
  BY <1>2, <1>4, KindsOfOps, EntryIs
<1>7. /\ UNCHANGED <<slot, super, home, stolen>>
      /\ IF IsDir(Node(i))
         THEN Then(t, <<<<"iget", d, n>>, <<"under">>>>, FALSE) /\ UNCHANGED held
         ELSE NotFound(t)
  BY <1>1, <1>4 DEF LastName, Arg, Keeps
<1>8. CASE IsDir(Node(i))
  <2>1. <<"under">> \in Ops /\ <<"iget", d, n>> \in Ops
    BY <1>5, <1>6, OpsOfKinds
  <2>2. HeldTo(t, held[t])
    BY <1>7, <1>8, HeldSame
  <2>3. Then(t, <<<<"iget", d, n>>, <<"under">>>>, FALSE)
    BY <1>7, <1>8
  <2>4. To(t, <<<<"iget", d, n>>>> \o (<<<<"under">>>> \o Q), held[t])
    BY <1>1, <1>2, <2>1, <2>2, <2>3, ThenTwo
  <2>5. IInvOf(kernel', todo', slot, super, home, held')
    BY <1>2, <1>5, <1>6, <2>4, LastStep DEF Doing, To
  <2> QED
    BY <1>7, <2>5 DEF IInv
<1>9. CASE ~IsDir(Node(i))
  BY <1>2, <1>3, <1>7, <1>9, NotFoundKeeps
<1> QED
  BY <1>8, <1>9

\* The two inodes on top, and what Second is.
LEMMA SecondIs ==
    ASSUME IInv, NEW t \in Tasks, Len(held[t]) >= 2
    PROVE  /\ held[t] \in Seq(Slots) /\ Len(held[t]) \in Nat
           /\ Top(t) = held[t][Len(held[t])] /\ Top(t) \in Slots
           /\ Second(t) = held[t][Len(held[t]) - 1] /\ Second(t) \in Slots
           /\ Len(held[t]) - 1 \in 1 .. Len(held[t])
<1>1. held[t] \in Seq(Slots) /\ Len(held[t]) \in Nat
  BY TablesIs, LenProperties
<1>2. Len(held[t]) >= 1
  BY <1>1
<1>3. Len(held[t]) - 1 \in 1 .. Len(held[t])
  BY <1>1
<1>4. held[t][Len(held[t]) - 1] \in Slots
  BY <1>1, <1>3
<1> QED
  BY <1>1, <1>2, <1>3, <1>4, TopIs DEF Second

LEMMA UnderKeeps ==
    ASSUME IInv, NEW t \in Tasks, Under(t)
    PROVE  IInv' /\ stolen' = stolen
<1>1. PICK x, Q : x = Head(todo[t]) /\ Q = Tail(todo[t])
  OBVIOUS
<1>2. Doing(t, x, Q) /\ x[1] = "under" /\ x \in Ops /\ Q \in Seq(Ops)
  BY <1>1, DoesIs DEF Under
<1>3. Len(held[t]) >= 2
  BY <1>2, AboutIs, Gains DEF Doing
<1>4. PICK h, k, i : h = held[t] /\ k = Len(held[t]) - 1 /\ i = Second(t)
  OBVIOUS
<1>5. h \in Seq(Slots) /\ k \in 1 .. Len(h) /\ i = h[k] /\ i \in Slots /\ Len(h) \in Nat
  BY <1>3, <1>4, SecondIs
<1>6. RemoveAt(h, k) \in Seq(Slots) /\ Len(RemoveAt(h, k)) = Len(h) - 1 /\ Sheds(h, RemoveAt(h, k), i)
  BY <1>5, OneLess DEF Sheds
<1>7. /\ UNCHANGED <<slot, super, home, stolen>> /\ Then(t, <<<<"iput", i>>>>, FALSE)
      /\ SetTo(held, held', t, RemoveAt(h, k))
  <2>1. held \in [Tasks -> Seq(Slots)]
    BY DEF IInv, IInvOf
  <2> QED
    BY <1>4, <2>1 DEF Under, Keeps, SetTo
<1>8. <<"iput", i>> \in Ops
  BY <1>5, OpsOfKinds
<1>9. To(t, <<<<"iput", i>>>> \o Q, RemoveAt(h, k))
  BY <1>1, <1>2, <1>6, <1>7, <1>8, HeldSet, ThenOne
<1>10. IInvOf(kernel', todo', slot, super, home, held')
  BY <1>2, <1>4, <1>5, <1>6, <1>9, LetGoStep DEF Doing, To
<1> QED
  BY <1>7, <1>10 DEF IInv
-----------------------------------------------------------------------------
(* The calls, and a change of directory.                                   *)

\* A task between two calls.
LEMMA CallIs ==
    ASSUME IInv, NEW t \in Tasks, NEW ops, Call(t, ops)
    PROVE  /\ Rests(kernel, todo, slot, super, home, held, t)
           /\ SetTo(todo, todo', t, ops) /\ kernel' \in {t, None}
           /\ UNCHANGED <<slot, super, home, stolen>>
  BY DEF Call, Keeps, Rests, IInv, SetTo

\* A lookup, and a micro-step that uses what it has found.
LEMMA CallTo ==
    ASSUME IInv, NEW t \in Tasks, NEW path \in Paths \cup Specials, NEW q,
           Calm(q, Len(held[t]) + 1), Ending(q), Call(t, Resolve(path) \o q), UNCHANGED held
    PROVE  To(t, Resolve(path) \o q, held[t])
<1>1. Len(held[t]) \in Nat
  BY TablesIs, LenProperties
<1>2. Calm(Resolve(path) \o q, Len(held[t]))
  BY <1>1, LookupIs
<1>3. Resolve(path) \o q \in Seq(Ops)
  BY <1>2 DEF Calm, Good
<1>4. SetTo(todo, todo', t, Resolve(path) \o q) /\ kernel' \in {t, None}
  BY CallIs
<1> QED
  BY <1>3, <1>4, HeldSame, ListTo

LEMMA NameiKeeps ==
    ASSUME IInv, NEW t \in Tasks, NEW path \in Paths, Namei(t, path)
    PROVE  IInv' /\ stolen' = stolen
<1>1. Call(t, Resolve(path)) /\ UNCHANGED held /\ path \in Paths \cup Specials
  BY DEF Namei
<1>2. PICK n \in Nat : n = Len(held[t])
  BY TablesIs, LenProperties
<1>3. Resolve(path) \in Seq(Ops)
  BY <1>1, <1>2, ResolveIsPlain
<1>4. PICK q : q = << >>
  OBVIOUS
<1>5. Resolve(path) \o q = Resolve(path)
  BY <1>3, <1>4, ConcatEmptySeq
<1>6. Calm(q, Len(held[t]) + 1) /\ Ending(q) /\ Mounts(q) = {}
  <2>1. n + 1 \in Nat
    BY <1>2
  <2> QED
    BY <1>2, <1>4, <2>1, CalmNothing, NothingLeft
<1>7. \A i : Occ(q, Calls(i)) = 0 /\ Occ(q, Fills(i)) = 0
  BY <1>2, <1>4, NothingLeft
<1>8. To(t, Resolve(path) \o q, held[t])
  <2>1. Call(t, Resolve(path) \o q)
    BY <1>1, <1>5
  <2> QED
    BY <1>1, <1>6, <2>1, CallTo
<1>9. Rests(kernel, todo, slot, super, home, held, t) /\ UNCHANGED <<slot, super, home, stolen>>
  BY <1>1, CallIs
<1>10. IInvOf(kernel', todo', slot, super, home, held')
  BY <1>1, <1>6, <1>7, <1>8, <1>9, OpenStep DEF To
<1> QED
  BY <1>9, <1>10 DEF IInv

LEMMA sys_chdirKeeps ==
    ASSUME IInv, NEW t \in Tasks, NEW which \in Homes, NEW path \in Paths, sys_chdir(t, which, path)
    PROVE  IInv' /\ stolen' = stolen
<1>1. PICK op, nil, q : op = <<"chdir", which>> /\ nil = << >> /\ q = <<op>> \o nil
  OBVIOUS
<1>2. op \in Ops /\ op[1] = "chdir" /\ nil \in Seq(Ops)
  <2>1. <<"chdir", which>> \in Ops
    BY OpsOfKinds
  <2> QED
    BY <1>1, <2>1
<1>3. q = <<op>>
  <2>1. <<op>> \in Seq(Ops)
    BY <1>2
  <2> QED
    BY <1>1, <2>1, ConcatEmptySeq
<1>4. Call(t, Resolve(path) \o q) /\ UNCHANGED held /\ path \in Paths \cup Specials
  BY <1>1, <1>3 DEF sys_chdir
<1>5. PICK n \in Nat : n = Len(held[t])
  BY TablesIs, LenProperties
<1>6. op[1] \in Finals /\ Needs(op[1]) = 1 /\ Gain(op[1]) = -1 /\ ~IsMount(op)
  BY <1>2 DEF Finals, Needs, Gain, IsMount, MountKinds
<1>7. Calm(q, n + 1) /\ Ending(q) /\ Mounts(q) = {} /\ \A S : Occ(q, S) = In(op, S)
  <2>1. PICK m \in Nat : m = n + 1 /\ m >= Needs(op[1]) /\ m + Gain(op[1]) \in Nat
    BY <1>6
  <2>2. op[1] \in Finals /\ nil = << >> /\ q = <<op>> \o nil /\ op \in Ops
    BY <1>1, <1>2, <1>6
  <2>3. Calm(q, m) /\ Ending(q) /\ Mounts(q) = (IF IsMount(op) THEN {op} ELSE {}) /\ \A S : Occ(q, S) = In(op, S)
    BY <2>1, <2>2, FinalAlone
  <2> QED
    BY <1>6, <2>1, <2>3
<1>8. \A i : Occ(q, Calls(i)) = 0 /\ Occ(q, Fills(i)) = 0
  BY <1>2, <1>7, InIs
<1>9. To(t, Resolve(path) \o q, held[t])
  BY <1>4, <1>5, <1>7, CallTo
<1>10. Rests(kernel, todo, slot, super, home, held, t) /\ UNCHANGED <<slot, super, home, stolen>>
  BY <1>4, CallIs
<1>11. IInvOf(kernel', todo', slot, super, home, held')
  BY <1>4, <1>5, <1>7, <1>8, <1>9, <1>10, OpenStep DEF To
<1> QED
  BY <1>10, <1>11 DEF IInv

LEMMA CloseKeeps ==
    ASSUME IInv, NEW t \in Tasks, NEW k \in 1 .. Len(held[t]), Close(t, k)
    PROVE  IInv' /\ stolen' = stolen
<1>1. PICK h, i, q : h = held[t] /\ i = held[t][k] /\ q = << >>
  OBVIOUS
<1>2. h \in Seq(Slots) /\ i \in Slots /\ k \in 1 .. Len(h)
  BY <1>1, TablesIs
<1>3. <<"iput", i>> \in Ops /\ q \in Seq(Ops)
  <2>1. <<"iput", i>> \in Ops
    BY <1>2, OpsOfKinds
  <2> QED
    BY <1>1, <2>1
<1>4. <<<<"iput", i>>>> \o q = <<<<"iput", i>>>> /\ <<<<"iput", i>>>> \o q \in Seq(Ops)
  <2>1. <<<<"iput", i>>>> \in Seq(Ops)
    BY <1>3
  <2> QED
    BY <1>1, <2>1, ConcatEmptySeq
<1>5. /\ Rests(kernel, todo, slot, super, home, held, t) /\ UNCHANGED <<slot, super, home, stolen>>
      /\ SetTo(todo, todo', t, <<<<"iput", i>>>> \o q) /\ kernel' \in {t, None}
  <2>1. Call(t, <<<<"iput", i>>>> \o q)
    BY <1>1, <1>4 DEF Close
  <2> QED
    BY <2>1, CallIs
<1>6. RemoveAt(h, k) \in Seq(Slots)
  BY <1>2, OneLess
<1>7. SetTo(held, held', t, RemoveAt(h, k))
  <2>1. held \in [Tasks -> Seq(Slots)]
    BY DEF IInv, IInvOf
  <2> QED
    BY <1>1, <2>1 DEF Close, SetTo
<1>8. To(t, <<<<"iput", i>>>> \o q, RemoveAt(h, k))
  BY <1>4, <1>5, <1>6, <1>7, HeldSet, ListTo
<1>9. IInvOf(kernel', todo', slot, super, home, held')
  BY <1>1, <1>5, <1>8, CloseStep DEF To
<1> QED
  BY <1>5, <1>9 DEF IInv

LEMMA get_pipe_inodeKeeps ==
    ASSUME IInv, NEW t \in Tasks, get_pipe_inode(t)
    PROVE  IInv' /\ stolen' = stolen
<1>1. PICK i, h : i = Min(Free(slot)) /\ h = held[t]
  OBVIOUS
<1>2. /\ UNCHANGED <<super, home, stolen>> /\ kernel = None /\ todo[t] = << >>
      /\ IF Free(slot) = {} THEN Fail(32)
         ELSE /\ slot' = [slot EXCEPT ![i].dev = "pipe", ![i].count = 2, ![i].desc = << >>]
              /\ held' = [held EXCEPT ![t] = @ \o <<i, i>>]
              /\ UNCHANGED <<kernel, todo, failed>>
  BY <1>1 DEF get_pipe_inode, Keeps
<1>3. CASE Free(slot) = {}
  BY <1>2, <1>3, FailKeeps
<1>4. CASE Free(slot) # {}
  <2>1. i \in Slots /\ slot[i].dev = None
    BY <1>1, <1>4, FreeSlot
  <2>2. Pipes(slot, slot', i)
    BY <1>2, <1>4 DEF Pipes
  <2>3. h \in Seq(Slots)
    BY <1>1, TablesIs
  <2>4. h \o <<i, i>> = Append(Append(h, i), i) /\ Append(Append(h, i), i) \in Seq(Slots)
    <3>1. <<i, i>> \in Seq(Slots) /\ Append(h, i) \in Seq(Slots) /\ Append(Append(h, i), i) \in Seq(Slots)
      BY <2>1, <2>3
    <3> QED
      BY <2>1, <2>3, <3>1
  <2>5. SetTo(held, held', t, Append(Append(h, i), i))
    <3>1. held \in [Tasks -> Seq(Slots)]
      BY DEF IInv, IInvOf
    <3> QED
      BY <1>1, <1>2, <1>4, <2>4, <3>1 DEF SetTo
  <2>6. HeldTo(t, Append(Append(h, i), i))
    BY <2>4, <2>5, HeldSet
  <2>7. Leaves(todo, todo, held, held', t, kernel', todo[t], Append(Append(h, i), i))
    BY <1>2, <1>4, <2>6 DEF Leaves, HeldTo, Differ, Lists, IInv, IInvOf
  <2>8. Rests(kernel, todo, slot, super, home, held, t)
    BY <1>2 DEF Rests, IInv
  <2>9. IInvOf(kernel', todo, slot', super, home, held')
    BY <1>1, <2>1, <2>2, <2>7, <2>8, PipeStep
  <2> QED
    BY <1>2, <1>4, <2>9 DEF IInv
<1> QED
  BY <1>2, <1>3, <1>4

LEMMA ChdirKeeps ==
    ASSUME IInv, NEW t \in Tasks, Chdir(t)
    PROVE  IInv' /\ stolen' = stolen
<1>1. PICK x, Q : x = Head(todo[t]) /\ Q = Tail(todo[t])
  OBVIOUS
<1>2. Doing(t, x, Q) /\ x[1] = "chdir" /\ x \in Ops /\ Q \in Seq(Ops)
  BY <1>1, DoesIs DEF Chdir
<1>3. PICK w, i, g : w = x[2] /\ i = Top(t) /\ g = Cut(held[t], 1)
  OBVIOUS
<1>4. w \in Homes /\ x = <<"chdir", w>> /\ <<"homed", w>> \in Ops /\ home[t][w] \in Slots
  <2>1. w \in Homes /\ x = <<"chdir", w>>
    BY <1>2, <1>3, KindsOfOps
  <2> QED
    BY <2>1, OpsOfKinds, TablesIs
<1>5. /\ held[t] \in Seq(Slots) /\ Len(held[t]) \in Nat /\ Len(held[t]) >= 1
      /\ i = held[t][Len(held[t])] /\ i \in Slots
  <2>1. Needs(x[1]) = 1
    BY <1>2 DEF Needs
  <2> QED
    BY <1>2, <1>3, <2>1, DoingTop
<1>6. /\ UNCHANGED <<super, home, stolen>>
      /\ IF ~Complete(i) THEN Fail(191)
         ELSE IF ~IsDir(Node(i)) \/ i = home[t][w]
         THEN Then(t, <<<<"iput", i>>>>, FALSE) /\ Forgets(t, 1) /\ UNCHANGED slot
         ELSE /\ Then(t, <<<<"iput", home[t][w]>>, <<"homed", w>>>>, FALSE)
              /\ UNCHANGED <<slot, held>>
  BY <1>1, <1>3 DEF Chdir, Arg, Keeps
<1>7. CASE Fail(191)
  BY <1>6, <1>7, FailKeeps
<1>8. CASE Then(t, <<<<"iput", i>>>>, FALSE) /\ Forgets(t, 1) /\ UNCHANGED slot
  <2>1. <<"iput", i>> \in Ops
    BY <1>5, OpsOfKinds
  <2>2. HeldTo(t, g)
    BY <1>3, <1>5, <1>8, HeldLess
  <2>3. To(t, <<<<"iput", i>>>> \o Q, g)
    BY <1>1, <1>2, <1>8, <2>1, <2>2, ThenOne
  <2>4. g \in Seq(Slots) /\ Len(g) = Len(held[t]) - 1 /\ Sheds(held[t], g, i)
    BY <1>3, <1>5, CutTop
  <2>5. IInvOf(kernel', todo', slot, super, home, held')
    BY <1>2, <1>5, <2>3, <2>4, LetGoStep DEF Doing, To
  <2> QED
    BY <1>6, <1>8, <2>5 DEF IInv
<1>9. CASE Then(t, <<<<"iput", home[t][w]>>, <<"homed", w>>>>, FALSE) /\ UNCHANGED <<slot, held>>
  <2>1. <<"iput", home[t][w]>> \in Ops
    BY <1>4, OpsOfKinds
  <2>2. HeldTo(t, held[t])
    BY <1>9, HeldSame
  <2>3. To(t, <<<<"iput", home[t][w]>>>> \o (<<<<"homed", w>>>> \o Q), held[t])
    BY <1>1, <1>2, <1>4, <1>9, <2>1, <2>2, ThenTwo
  <2>4. IInvOf(kernel', todo', slot, super, home, held')
    BY <1>2, <1>4, <2>3, ChdirStep DEF Doing, To
  <2> QED
    BY <1>6, <1>9, <2>4 DEF IInv
<1> QED
  BY <1>6, <1>7, <1>8, <1>9

LEMMA HomedKeeps ==
    ASSUME IInv, NEW t \in Tasks, Homed(t)
    PROVE  IInv' /\ stolen' = stolen
<1>1. PICK x, Q : x = Head(todo[t]) /\ Q = Tail(todo[t])
  OBVIOUS
<1>2. Doing(t, x, Q) /\ x[1] = "homed" /\ x \in Ops /\ Q \in Seq(Ops)
  BY <1>1, DoesIs DEF Homed
<1>3. PICK w, i : w = x[2] /\ i = Top(t)
  OBVIOUS
<1>4. w \in Homes /\ x = <<"homed", w>>
  BY <1>2, <1>3, KindsOfOps
<1>5. Len(held[t]) >= 1 /\ i = held[t][Len(held[t])] /\ i \in Slots
  <2>1. Needs(x[1]) = 1
    BY <1>2 DEF Needs
  <2> QED
    BY <1>2, <1>3, <2>1, DoingTop
<1>6. /\ home' = [home EXCEPT ![t][w] = i] /\ Forgets(t, 1) /\ Then(t, << >>, FALSE)
      /\ UNCHANGED <<slot, super, stolen>>
  BY <1>1, <1>3 DEF Homed, Arg
<1>7. HeldTo(t, Cut(held[t], 1))
  BY <1>5, <1>6, HeldLess
<1>8. To(t, Q, Cut(held[t], 1))
  BY <1>1, <1>2, <1>6, <1>7, ThenNone
<1>9. IInvOf(kernel', todo', slot, super, home', held')
  BY <1>2, <1>4, <1>5, <1>6, <1>8, HomedStep DEF Doing, To, Moved
<1> QED
  BY <1>6, <1>9 DEF IInv
-----------------------------------------------------------------------------
(* The micro-steps of mount.                                               *)

LEMMA MountCallKeeps ==
    ASSUME IInv, OneMounter, NEW t \in Mounters, NEW path \in Paths \cup Specials,
           NEW op \in Ops, op[1] \in {"isblk", "umount", "mkfs"}, Resting({op}),
           Call(t, Resolve(path) \o <<op>>), UNCHANGED held
    PROVE  IInv' /\ stolen' = stolen
<1>1. t \in Tasks
  BY DEF Tasks
<1>2. PICK nil, q : nil = << >> /\ q = <<op>> \o nil
  OBVIOUS
<1>3. q = <<op>>
  <2>1. <<op>> \in Seq(Ops)
    OBVIOUS
  <2> QED
    BY <1>2, <2>1, ConcatEmptySeq
<1>4. PICK n \in Nat : n = Len(held[t])
  BY <1>1, TablesIs, LenProperties
<1>5. op[1] \in Finals /\ Needs(op[1]) = 1 /\ Gain(op[1]) = -1
  BY DEF Finals, Needs, Gain
<1>6. Calm(q, n + 1) /\ Ending(q)
  <2>1. PICK m \in Nat : m = n + 1 /\ m >= Needs(op[1]) /\ m + Gain(op[1]) \in Nat
    BY <1>5
  <2>2. Calm(q, m) /\ Ending(q)
    BY <1>2, <1>5, <2>1, FinalAlone
  <2> QED
    BY <2>1, <2>2
<1>7. Call(t, Resolve(path) \o q)
  BY <1>3
<1>8. To(t, Resolve(path) \o q, held[t])
  BY <1>1, <1>4, <1>6, <1>7, CallTo
<1>9. Rests(kernel, todo, slot, super, home, held, t) /\ UNCHANGED <<slot, super, home, stolen>>
  BY <1>1, <1>7, CallIs
<1>10. IInvOf(kernel', todo', slot, super, home, held')
  BY <1>2, <1>8, <1>9, MountCallStep DEF To
<1> QED
  BY <1>9, <1>10 DEF IInv

LEMMA MountCall ==
    ASSUME IInv, OneMounter, NEW t \in Mounters, NEW path \in Paths, NEW special \in Specials,
           sys_mount(t, special, path)
    PROVE  IInv' /\ stolen' = stolen
<1>1. PICK op : op = <<"isblk", path>>
  OBVIOUS
<1>2. op \in Ops /\ op[1] = "isblk" /\ Resting({op}) /\ special \in Paths \cup Specials
  <2>1. <<"isblk", path>> \in Ops
    BY OpsOfKinds
  <2>2. Resting({<<"isblk", path>>})
    BY DEF Resting
  <2> QED
    BY <1>1, <2>1, <2>2
<1>3. Call(t, Resolve(special) \o <<op>>) /\ UNCHANGED held
  BY <1>1 DEF sys_mount
<1> QED
  BY <1>2, <1>3, MountCallKeeps

LEMMA UmountCall ==
    ASSUME IInv, OneMounter, NEW t \in Mounters, NEW path \in Paths, sys_umount(t, path)
    PROVE  IInv' /\ stolen' = stolen
<1>1. PICK op : op = <<"umount">>
  OBVIOUS
<1>2. op \in Ops /\ op[1] = "umount" /\ Resting({op}) /\ path \in Paths \cup Specials
  BY <1>1, OpsOfKinds DEF Resting
<1>3. Call(t, Resolve(path) \o <<op>>) /\ UNCHANGED held
  BY <1>1 DEF sys_umount
<1> QED
  BY <1>2, <1>3, MountCallKeeps

LEMMA MkfsCall ==
    ASSUME IInv, OneMounter, NEW t \in Mounters, NEW special \in Specials, sys_mkfs(t, special)
    PROVE  IInv' /\ stolen' = stolen
<1>1. PICK op : op = <<"mkfs">>
  OBVIOUS
<1>2. op \in Ops /\ op[1] = "mkfs" /\ Resting({op}) /\ special \in Paths \cup Specials
  BY <1>1, OpsOfKinds DEF Resting
<1>3. Call(t, Resolve(special) \o <<op>>) /\ UNCHANGED held
  BY <1>1 DEF sys_mkfs
<1> QED
  BY <1>2, <1>3, MountCallKeeps

\* The inodes that a micro-step with two of them is about.
LEMMA DoingTwo ==
    ASSUME IInv, NEW t \in Tasks, NEW x, NEW Q, Doing(t, x, Q), Needs(x[1]) = 2,
           NEW i, i = Top(t), NEW j, j = Second(t)
    PROVE  /\ Len(held[t]) >= 2 /\ i = held[t][Len(held[t])] /\ i \in Slots
           /\ j = held[t][Len(held[t]) - 1] /\ j \in Slots
           /\ <<"iput", i>> \in Ops /\ <<"iput", j>> \in Ops
<1>1. Len(held[t]) >= 2
  BY AboutIs DEF Doing
<1>2. /\ i = held[t][Len(held[t])] /\ i \in Slots
      /\ j = held[t][Len(held[t]) - 1] /\ j \in Slots
  BY <1>1, SecondIs
<1>3. <<"iput", i>> \in Ops /\ <<"iput", j>> \in Ops
  BY <1>2, OpsOfKinds
<1> QED
  BY <1>1, <1>2, <1>3

LEMMA MountDeviceKeeps ==
    ASSUME IInv, OneMounter, NEW t \in Tasks, MountDevice(t)
    PROVE  IInv' /\ stolen' = stolen
<1>1. PICK x, Q : x = Head(todo[t]) /\ Q = Tail(todo[t])
  OBVIOUS
<1>2. Doing(t, x, Q) /\ x[1] = "isblk" /\ x \in Ops /\ Q \in Seq(Ops)
  BY <1>1, DoesIs DEF MountDevice
<1>3. PICK i, path : i = Top(t) /\ path = x[2]
  OBVIOUS
<1>4. path \in Paths /\ <<"onto">> \in Ops
  BY <1>2, <1>3, KindsOfOps, OpsOfKinds
<1>5. Len(held[t]) >= 1 /\ i = held[t][Len(held[t])] /\ i \in Slots
  BY <1>2, <1>3, MountGains, DoingTop
<1>6. /\ UNCHANGED <<slot, super, home, stolen>>
      /\ IF ~Complete(i) THEN Fail(191)
         ELSE IF IsBlk(Node(i))
         THEN Then(t, Resolve(path) \o <<<<"onto">>>>, FALSE) /\ UNCHANGED held
         ELSE Then(t, <<<<"iput", i>>>>, FALSE) /\ Forgets(t, 1)
  BY <1>1, <1>3 DEF MountDevice, Arg, Keeps
<1>7. CASE Fail(191)
  BY <1>6, <1>7, FailKeeps
<1>8. CASE Then(t, Resolve(path) \o <<<<"onto">>>>, FALSE) /\ UNCHANGED held
  <2>1. PICK op : op = <<"onto">>
    OBVIOUS
  <2>2. Resolve(path) \in Seq(Ops) /\ <<op>> \in Seq(Ops)
    <3>1. path \in Paths \cup Specials /\ 0 \in Nat
      BY <1>4
    <3>2. Resolve(path) \in Seq(Ops)
      BY <3>1, ResolveIsPlain
    <3> QED
      BY <1>4, <2>1, <3>2
  <2>3. PICK ops, new : ops = Resolve(path) \o <<op>> /\ new = Resolve(path) \o (<<op>> \o Q)
    OBVIOUS
  <2>4. new = ops \o Q
    BY <1>2, <2>2, <2>3, ConcatAssociative
  <2>5. new \in Seq(Ops)
    <3>1. <<op>> \o Q \in Seq(Ops)
      BY <1>2, <2>2, ConcatProperties
    <3> QED
      BY <2>2, <2>3, <3>1, ConcatProperties
  <2>6. Then(t, ops, FALSE)
    BY <1>8, <2>1, <2>3
  <2>7. To(t, new, held[t])
    BY <1>1, <1>8, <2>4, <2>5, <2>6, HeldSame, ThenAll
  <2>8. To(t, Resolve(path) \o (<<<<"onto">>>> \o Q), held[t])
    BY <2>1, <2>3, <2>7
  <2>9. IInvOf(kernel', todo', slot, super, home, held')
    BY <1>2, <1>4, <2>8, DeviceStep DEF Doing, To
  <2> QED
    BY <1>6, <2>9 DEF IInv
<1>9. CASE Then(t, <<<<"iput", i>>>>, FALSE) /\ Forgets(t, 1)
  <2>1. <<"iput", i>> \in Ops
    BY <1>5, OpsOfKinds
  <2>2. HeldTo(t, Cut(held[t], 1))
    BY <1>5, <1>9, HeldLess
  <2>3. To(t, <<<<"iput", i>>>> \o Q, Cut(held[t], 1))
    BY <1>1, <1>2, <1>9, <2>1, <2>2, ThenOne
  <2>4. IInvOf(kernel', todo', slot, super, home, held')
    BY <1>2, <1>5, <2>3, GiveUpStep DEF Doing, To
  <2> QED
    BY <1>6, <2>4 DEF IInv
<1> QED
  BY <1>6, <1>7, <1>8, <1>9

\* A free super block, as mount and mkfs choose it.
LEMMA FreeTaken ==
    ASSUME IInv, OneMounter, NEW t \in Tasks, NEW x, NEW Q, Doing(t, x, Q),
           x[1] \in {"isblk", "onto", "umount", "mkfs"}, Free(super) # {}, NEW s, s = Min(Free(super))
    PROVE  s \in Others
<1>1. Idle(super) /\ SuperInv(super)
  BY FinalIs DEF Doing
<1>2. MayTake(super, s)
  BY <1>1, FreeSuper
<1> QED
  BY <1>2 DEF MayTake

LEMMA MountOntoKeeps ==
    ASSUME IInv, OneMounter, NEW t \in Tasks, MountOnto(t)
    PROVE  IInv' /\ stolen' = stolen
<1>1. PICK x, Q : x = Head(todo[t]) /\ Q = Tail(todo[t])
  OBVIOUS
<1>2. Doing(t, x, Q) /\ x[1] = "onto" /\ x \in Ops /\ Q \in Seq(Ops)
  BY <1>1, DoesIs DEF MountOnto
<1>3. PICK i, j, s, f : i = Top(t) /\ j = Second(t) /\ s = Found(super, Disk) /\ f = Min(Free(super))
  OBVIOUS
<1>4. /\ Len(held[t]) >= 2 /\ i = held[t][Len(held[t])] /\ j = held[t][Len(held[t]) - 1]
      /\ <<"iput", i>> \in Ops /\ <<"iput", j>> \in Ops
  <2>1. Needs(x[1]) = 2
    BY <1>2, MountGains
  <2> QED
    BY <1>2, <1>3, <2>1, DoingTwo
<1>5. /\ UNCHANGED <<home, stolen>>
      /\ \/ (Fail(191) \/ Fail(30)) /\ UNCHANGED super
         \/ Rollback(t, None) /\ UNCHANGED <<slot, super>>
         \/ /\ s # None /\ super' = [super EXCEPT ![s].count = @ + 1]
            /\ Then(t, <<<<"mounted", s>>>>, FALSE) /\ UNCHANGED <<slot, held>>
         \/ /\ s = None /\ Free(super) # {}
            /\ \E waits \in BOOLEAN : Then(t, <<<<"read", f>>, <<"mounted", f>>>>, waits)
            /\ UNCHANGED <<slot, super, held>>
  BY <1>3, GetSuperIs DEF MountOnto
<1>6. CASE (Fail(191) \/ Fail(30)) /\ UNCHANGED super
  BY <1>5, <1>6, FailKeeps
<1>7. CASE Rollback(t, None) /\ UNCHANGED <<slot, super>>
  <2>1. PICK a, b : a = <<"iput", j>> /\ b = <<"iput", i>>
    OBVIOUS
  <2>2. a \in Ops /\ b \in Ops
    BY <1>4, <2>1
  <2>3. Then(t, <<a, b>>, FALSE) /\ Forgets(t, 2)
    <3>1. << >> \o <<a, b>> = <<a, b>>
      <4>1. <<a, b>> \in Seq(Ops)
        BY <2>2
      <4> QED
        BY <4>1, ConcatEmptySeq
    <3> QED
      BY <1>3, <1>7, <2>1, <3>1 DEF Rollback
  <2>4. HeldTo(t, Cut(held[t], 2))
    BY <1>4, <2>3, HeldLess
  <2>5. To(t, <<a>> \o (<<b>> \o Q), Cut(held[t], 2))
    BY <1>1, <1>2, <2>2, <2>3, <2>4, ThenTwo
  <2>6. To(t, <<<<"iput", j>>>> \o (<<<<"iput", i>>>> \o Q), Cut(held[t], 2))
    BY <2>1, <2>5
  <2>7. IInvOf(kernel', todo', slot, super, home, held')
    BY <1>2, <1>4, <2>6, OntoGiveUpStep DEF Doing, To
  <2> QED
    BY <1>5, <1>7, <2>7 DEF IInv
<1>8. CASE /\ s # None /\ super' = [super EXCEPT ![s].count = @ + 1]
           /\ Then(t, <<<<"mounted", s>>>>, FALSE) /\ UNCHANGED <<slot, held>>
  <2>1. s \in Others
    <3>1. SuperInv(super) /\ Phase(AllMounts(todo), super)
      BY TablesIs
    <3> QED
      BY <1>3, <1>8, <3>1, FoundDisk
  <2>2. <<"mounted", s>> \in Ops
    BY <2>1, OpsOfKinds
  <2>3. To(t, <<<<"mounted", s>>>> \o Q, held[t])
    BY <1>1, <1>2, <1>8, <2>2, HeldSame, ThenOne
  <2>4. Recounts(super, super', s)
    BY <1>8 DEF Recounts
  <2>5. IInvOf(kernel', todo', slot, super', home, held')
    BY <1>2, <1>3, <1>8, <2>3, <2>4, OntoAgainStep DEF Doing, To
  <2> QED
    BY <1>5, <1>8, <2>5 DEF IInv
<1>9. CASE /\ s = None /\ Free(super) # {}
           /\ \E waits \in BOOLEAN : Then(t, <<<<"read", f>>, <<"mounted", f>>>>, waits)
           /\ UNCHANGED <<slot, super, held>>
  <2>1. f \in Others
    BY <1>2, <1>3, <1>9, FreeTaken
  <2>2. PICK a, b : a = <<"read", f>> /\ b = <<"mounted", f>>
    OBVIOUS
  <2>3. a \in Ops /\ b \in Ops
    BY <2>1, <2>2, OpsOfKinds
  <2>4. PICK waits : Then(t, <<a, b>>, waits)
    BY <1>9, <2>2
  <2>5. To(t, <<a>> \o (<<b>> \o Q), held[t])
    BY <1>1, <1>2, <1>9, <2>3, <2>4, HeldSame, ThenTwo
  <2>6. To(t, <<<<"read", f>>>> \o (<<<<"mounted", f>>>> \o Q), held[t])
    BY <2>2, <2>5
  <2>7. IInvOf(kernel', todo', slot, super, home, held')
    BY <1>2, <1>3, <1>9, <2>6, OntoReadStep DEF Doing, To
  <2> QED
    BY <1>5, <1>9, <2>7 DEF IInv
<1> QED
  BY <1>5, <1>6, <1>7, <1>8, <1>9
LEMMA ReadSuperKeeps ==
    ASSUME IInv, OneMounter, NEW t \in Tasks, ReadSuper(t)
    PROVE  IInv' /\ stolen' = stolen
<1>1. PICK x, Q : x = Head(todo[t]) /\ Q = Tail(todo[t])
  OBVIOUS
<1>2. Doing(t, x, Q) /\ x[1] = "read" /\ x \in Ops /\ Q \in Seq(Ops)
  BY <1>1, DoesIs DEF ReadSuper
<1>3. /\ super' = [super EXCEPT ![x[2]].dev = Disk, ![x[2]].count = 1] /\ Then(t, << >>, FALSE)
      /\ UNCHANGED <<slot, held, home, stolen>>
  BY <1>1 DEF ReadSuper, Arg
<1>4. Claims(super, super', x[2])
  BY <1>3 DEF Claims
<1>5. To(t, Q, held[t])
  BY <1>1, <1>2, <1>3, HeldSame, ThenNone
<1>6. IInvOf(kernel', todo', slot, super', home, held')
  BY <1>2, <1>4, <1>5, ReadStep DEF Doing, To
<1> QED
  BY <1>3, <1>6 DEF IInv

LEMMA MountFreeKeeps ==
    ASSUME IInv, OneMounter, NEW t \in Tasks, MountFree(t)
    PROVE  IInv' /\ stolen' = stolen
<1>1. PICK x, Q : x = Head(todo[t]) /\ Q = Tail(todo[t])
  OBVIOUS
<1>2. Doing(t, x, Q) /\ x[1] = "mounted" /\ x \in Ops /\ Q \in Seq(Ops)
  BY <1>1, DoesIs DEF MountFree
<1>3. PICK i, j, s : i = Top(t) /\ j = Second(t) /\ s = x[2]
  OBVIOUS
<1>4. /\ Len(held[t]) >= 2 /\ i = held[t][Len(held[t])] /\ j = held[t][Len(held[t]) - 1]
      /\ <<"iput", i>> \in Ops /\ <<"iput", j>> \in Ops
  <2>1. Needs(x[1]) = 2
    BY <1>2, MountGains
  <2> QED
    BY <1>2, <1>3, <2>1, DoingTwo
<1>5. s \in Others /\ s # None
  <2>1. s \in Others
    BY <1>2, <1>3, KindsOfOps
  <2> QED
    BY <2>1, Distinct DEF Others
<1>6. /\ UNCHANGED <<slot, super, home, stolen>>
      /\ IF super[s].imount # None THEN Rollback(t, s)
         ELSE Then(t, <<<<"iget", Disk, 1>>, <<"attach", s>>>>, FALSE) /\ UNCHANGED held
  BY <1>1, <1>3 DEF MountFree, Arg, Keeps
<1>7. CASE super[s].imount # None
  <2>1. PICK a, b, c : a = <<"put", s>> /\ b = <<"iput", j>> /\ c = <<"iput", i>>
    OBVIOUS
  <2>2. a \in Ops /\ b \in Ops /\ c \in Ops
    <3>1. <<"put", s>> \in Ops
      BY <1>5, OpsOfKinds
    <3> QED
      BY <1>4, <2>1, <3>1
  <2>3. Then(t, <<a, b, c>>, FALSE) /\ Forgets(t, 2)
    <3>1. <<a>> \o <<b, c>> = <<a, b, c>>
      BY <2>2, Triple
    <3> QED
      BY <1>3, <1>5, <1>6, <1>7, <2>1, <3>1 DEF Rollback
  <2>4. HeldTo(t, Cut(held[t], 2))
    BY <1>4, <2>3, HeldLess
  <2>5. To(t, <<a>> \o (<<b>> \o (<<c>> \o Q)), Cut(held[t], 2))
    BY <1>1, <1>2, <2>2, <2>3, <2>4, ThenThree
  <2>6. To(t, <<<<"put", x[2]>>>> \o (<<<<"iput", j>>>> \o (<<<<"iput", i>>>> \o Q)), Cut(held[t], 2))
    BY <1>3, <2>1, <2>5
  <2>7. super[x[2]].imount # None
    BY <1>3, <1>7
  <2>8. IInvOf(kernel', todo', slot, super, home, held')
    BY <1>2, <1>4, <2>6, <2>7, MountedGiveUpStep DEF Doing, To
  <2> QED
    BY <1>6, <2>8 DEF IInv
<1>8. CASE super[s].imount = None
  <2>1. PICK a, b : a = <<"iget", Disk, 1>> /\ b = <<"attach", s>>
    OBVIOUS
  <2>2. a \in Ops /\ b \in Ops
    <3>1. Disk \in Devs /\ 1 \in Names
      BY Distinct DEF Devs
    <3>2. <<"attach", s>> \in Ops /\ <<"iget", Disk, 1>> \in Ops
      BY <1>5, <3>1, OpsOfKinds
    <3> QED
      BY <2>1, <3>2
  <2>3. Then(t, <<a, b>>, FALSE) /\ UNCHANGED held
    BY <1>6, <1>8, <2>1
  <2>4. To(t, <<a>> \o (<<b>> \o Q), held[t])
    BY <1>1, <1>2, <2>2, <2>3, HeldSame, ThenTwo
  <2>5. To(t, <<<<"iget", Disk, 1>>>> \o (<<<<"attach", x[2]>>>> \o Q), held[t])
    BY <1>3, <2>1, <2>4
  <2>6. super[x[2]].imount = None
    BY <1>3, <1>8
  <2>7. IInvOf(kernel', todo', slot, super, home, held')
    BY <1>2, <2>5, <2>6, MountedGoStep DEF Doing, To
  <2> QED
    BY <1>6, <2>7 DEF IInv
<1> QED
  BY <1>7, <1>8

LEMMA AttachKeeps ==
    ASSUME IInv, OneMounter, NEW t \in Tasks, Attach(t)
    PROVE  IInv' /\ stolen' = stolen
<1>1. PICK x, Q : x = Head(todo[t]) /\ Q = Tail(todo[t])
  OBVIOUS
<1>2. Doing(t, x, Q) /\ x[1] = "attach" /\ x \in Ops /\ Q \in Seq(Ops)
  BY <1>1, DoesIs DEF Attach
<1>3. PICK i, j, m : i = Top(t) /\ j = Second(t) /\ m = held[t][Len(held[t]) - 2]
  OBVIOUS
<1>4. held[t] \in Seq(Slots) /\ Len(held[t]) \in Nat /\ Len(held[t]) >= 3
  BY <1>2, AboutIs, MountGains DEF Doing
<1>5. i = held[t][Len(held[t])] /\ j = held[t][Len(held[t]) - 1] /\ m \in Slots
  <2>1. Len(held[t]) >= 2 /\ Len(held[t]) - 2 \in 1 .. Len(held[t])
    BY <1>4
  <2>2. m \in Slots
    BY <1>3, <1>4, <2>1
  <2> QED
    BY <1>3, <2>1, <2>2, SecondIs
<1>6. /\ super' = [super EXCEPT ![x[2]].iroot = i, ![x[2]].imount = j]
      /\ slot' = [slot EXCEPT ![j].mount = Disk]
      /\ Forgets(t, 3) /\ Then(t, <<<<"iput", m>>>>, FALSE)
      /\ UNCHANGED <<home, stolen>>
  BY <1>1, <1>3 DEF Attach, Arg
<1>7. Attaches(super, super', x[2], i, j) /\ Covers(slot, slot', j, Disk)
  BY <1>6 DEF Attaches, Covers
<1>8. <<"iput", m>> \in Ops
  BY <1>5, OpsOfKinds
<1>9. HeldTo(t, Cut(held[t], 3))
  BY <1>4, <1>6, HeldLess
<1>10. To(t, <<<<"iput", m>>>> \o Q, Cut(held[t], 3))
  BY <1>1, <1>2, <1>6, <1>8, <1>9, ThenOne
<1>11. IInvOf(kernel', todo', slot', super', home, held')
  BY <1>2, <1>3, <1>5, <1>7, <1>10, AttachStep DEF Doing, To
<1> QED
  BY <1>6, <1>11 DEF IInv

LEMMA PutLastFree ==
    ASSUME NEW kn, NEW td, NEW sl, NEW sup, NEW hm, NEW hd, NEW t, NEW x, NEW Q,
           About(kn, td, sl, sup, hm, hd, t, x, Q), x[1] = "put", OneMounter,
           sup[x[2]].count = 1, NEW sup2, Puts(sup, sup2, x[2])
    PROVE  sup[x[2]].imount = None
<1>1. /\ x[2] \in Others /\ x = <<"put", x[2]>> /\ sup[x[2]].imount = None
      /\ IsMount(x) /\ Calm(Q, Len(hd[t])) /\ Mounts(Q) = {} /\ {x} \cup Mounts(Q) = {x}
      /\ SuperInv(sup2) /\ Phase({}, sup2) /\ SuperKeeps(sup, sup2, x[2])
      /\ sup2[x[2]].dev = None /\ sup[x[2]].dev = Disk
      /\ hd[t] \in Seq(Slots) /\ Len(hd[t]) \in Nat /\ Q \in Seq(Ops) /\ SlotInv(sl)
  BY PutLastIs
<1> QED
  BY <1>1

LEMMA PutSuperKeeps ==
    ASSUME IInv, OneMounter, NEW t \in Tasks, PutSuper(t)
    PROVE  IInv' /\ stolen' = stolen
<1>1. PICK x, Q : x = Head(todo[t]) /\ Q = Tail(todo[t])
  OBVIOUS
<1>2. Doing(t, x, Q) /\ x[1] = "put" /\ x \in Ops /\ Q \in Seq(Ops)
  BY <1>1, DoesIs DEF PutSuper
<1>3. PICK s, j, m : s = x[2] /\ j = super[x[2]].iroot /\ m = super[x[2]].imount
  OBVIOUS
<1>4. s \in Others /\ super[s].count \in Nat /\ j \in Slots \cup {None}
  <2>1. s \in Others /\ SuperInv(super)
    BY <1>2, <1>3, KindsOfOps, TablesIs
  <2> QED
    BY <1>3, <2>1, SuperRecIs
<1>5. UNCHANGED <<home, stolen>>
  BY DEF PutSuper
<1>6. CASE super[s].count = 0
  <2>1. Fail(51) /\ UNCHANGED super
    BY <1>1, <1>3, <1>6 DEF PutSuper, Arg
  <2> QED
    BY <1>5, <2>1, FailKeeps
<1>7. CASE super[s].count # 0
  <2>1. /\ Puts(super, super', s) /\ UNCHANGED <<slot, held>>
        /\ Then(t, IF super[s].count > 1 THEN << >>
                   ELSE (IF m = None THEN << >> ELSE <<<<"iput", m>>>>)
                        \o (IF j = None THEN << >> ELSE <<<<"iput", j>>>>), FALSE)
    BY <1>1, <1>3, <1>7 DEF PutSuper, Arg, Puts
  <2>2. Puts(super, super', x[2])
    BY <1>3, <2>1
  <2>3. HeldTo(t, held[t])
    BY <2>1, HeldSame
  <2>4. CASE super[s].count > 1
    <3>1. Then(t, << >>, FALSE)
      BY <2>1, <2>4
    <3>2. To(t, Q, held[t])
      BY <1>1, <1>2, <2>3, <3>1, ThenNone
    <3>3. super[x[2]].count > 1
      BY <1>3, <2>4
    <3>4. IInvOf(kernel', todo', slot, super', home, held')
      BY <1>2, <2>2, <3>2, <3>3, PutOneStep DEF Doing, To
    <3> QED
      BY <1>5, <2>1, <3>4 DEF IInv
  <2>5. CASE super[s].count = 1
    <3>1. super[x[2]].count = 1
      BY <1>3, <2>5
    <3>2. m = None
      <4>1. super[x[2]].imount = None
        BY <1>2, <2>2, <3>1, PutLastFree DEF Doing
      <4> QED
        BY <1>3, <4>1
    <3>3. Then(t, << >> \o (IF j = None THEN << >> ELSE <<<<"iput", j>>>>), FALSE)
      <4>1. ~(super[s].count > 1)
        BY <2>5
      <4> QED
        BY <2>1, <3>2, <4>1, Zenon
    <3>4. CASE j = None
      <4>1. << >> \o << >> = << >>
        OBVIOUS
      <4>2. Then(t, << >>, FALSE)
        BY <3>3, <3>4, <4>1
      <4>3. To(t, Q, held[t])
        BY <1>1, <1>2, <2>3, <4>2, ThenNone
      <4>4. super[x[2]].iroot = None
        BY <1>3, <3>4
      <4>5. IInvOf(kernel', todo', slot, super', home, held')
        BY <1>2, <2>2, <3>1, <4>3, <4>4, PutFreeStep DEF Doing, To
      <4> QED
        BY <1>5, <2>1, <4>5 DEF IInv
    <3>5. CASE j # None
      <4>1. PICK a : a = <<"iput", j>>
        OBVIOUS
      <4>2. j \in Slots /\ a \in Ops
        <5>1. j \in Slots
          BY <1>4, <3>5
        <5>2. <<"iput", j>> \in Ops
          BY <5>1, OpsOfKinds
        <5> QED
          BY <4>1, <5>1, <5>2
      <4>3. << >> \o <<a>> = <<a>>
        <5>1. <<a>> \in Seq(Ops)
          BY <4>2
        <5> QED
          BY <5>1, ConcatEmptySeq
      <4>4. Then(t, <<a>>, FALSE)
        BY <3>3, <3>5, <4>1, <4>3
      <4>5. To(t, <<a>> \o Q, held[t])
        BY <1>1, <1>2, <2>3, <4>2, <4>4, ThenOne
      <4>6. To(t, <<<<"iput", j>>>> \o Q, held[t])
        BY <4>1, <4>5
      <4>7. super[x[2]].iroot = j
        BY <1>3
      <4>8. IInvOf(kernel', todo', slot, super', home, held')
        BY <1>2, <2>2, <3>1, <4>2, <4>6, <4>7, PutRootStep DEF Doing, To
      <4> QED
        BY <1>5, <2>1, <4>8 DEF IInv
    <3> QED
      BY <3>4, <3>5
  <2> QED
    BY <1>4, <1>7, <2>4, <2>5
<1> QED
  BY <1>6, <1>7
-----------------------------------------------------------------------------
(* The micro-steps of umount and mkfs.                                     *)

LEMMA UmountKeeps ==
    ASSUME IInv, OneMounter, NEW t \in Tasks, Umount(t), ~stolen'
    PROVE  IInv' /\ stolen' = stolen
<1>1. PICK x, Q : x = Head(todo[t]) /\ Q = Tail(todo[t])
  OBVIOUS
<1>2. Doing(t, x, Q) /\ x[1] = "umount" /\ x \in Ops /\ Q \in Seq(Ops)
  BY <1>1, DoesIs DEF Umount
<1>3. PICK i, s : i = Top(t) /\ s = IF IsBlk(Node(i)) THEN Found(super, Disk) ELSE Found(super, slot[i].dev)
  OBVIOUS
<1>4. Len(held[t]) >= 1 /\ i = held[t][Len(held[t])] /\ i \in Slots /\ <<"iput", i>> \in Ops
  <2>1. Len(held[t]) >= 1 /\ i = held[t][Len(held[t])] /\ i \in Slots
    BY <1>2, <1>3, MountGains, DoingTop
  <2> QED
    BY <2>1, OpsOfKinds
<1>5. PICK ops : ops = <<<<"release", s, "iroot">>, <<"release", s, "imount">>, <<"put", s>>, <<"iput", i>>>>
  OBVIOUS
<1>6. /\ UNCHANGED <<slot, super, home>>
      /\ \/ (Fail(191) \/ Fail(222)) /\ UNCHANGED stolen
         \/ Then(t, <<<<"iput", i>>>>, FALSE) /\ Forgets(t, 1) /\ UNCHANGED stolen
         \/ stolen'
         \/ /\ ~(~IsBlk(Node(i)) /\ slot[i].nr # 1) /\ i # super[Found(super, Root)].imount /\ s # None
            /\ Then(t, ops, FALSE) /\ Forgets(t, 1) /\ UNCHANGED stolen
  BY <1>3, <1>5, GetSuperIs DEF Umount
<1>7. CASE (Fail(191) \/ Fail(222)) /\ UNCHANGED stolen
  BY <1>6, <1>7, FailKeeps
<1>8. CASE Then(t, <<<<"iput", i>>>>, FALSE) /\ Forgets(t, 1) /\ UNCHANGED stolen
  <2>1. HeldTo(t, Cut(held[t], 1))
    BY <1>4, <1>8, HeldLess
  <2>2. To(t, <<<<"iput", i>>>> \o Q, Cut(held[t], 1))
    BY <1>1, <1>2, <1>4, <1>8, <2>1, ThenOne
  <2>3. IInvOf(kernel', todo', slot, super, home, held')
    BY <1>2, <1>4, <2>2, GiveUpStep DEF Doing, To
  <2> QED
    BY <1>6, <1>8, <2>3 DEF IInv
<1>9. CASE /\ ~(~IsBlk(Node(i)) /\ slot[i].nr # 1) /\ i # super[Found(super, Root)].imount /\ s # None
           /\ Then(t, ops, FALSE) /\ Forgets(t, 1) /\ UNCHANGED stolen
  <2>1. s = Found(super, Disk) \/ (s = Found(super, slot[i].dev) /\ slot[i].nr = 1)
    BY <1>3, <1>9
  <2>2. s = First /\ First \in Others /\ AllOff(super, Others \ {First}) /\ On(super, 1)
    <3>1. /\ About(kernel, todo, slot, super, home, held, t, x, Q) /\ x[1] = "umount"
          /\ i = held[t][Len(held[t])]
      BY <1>2, <1>4 DEF Doing
    <3>2. Chosen(super, slot, i, s)
      BY <1>9, <2>1 DEF Chosen
    <3> QED
      BY <3>1, <3>2, UmountIs
  <2>3. PICK a, b, c, e : /\ a = <<"release", s, "iroot">> /\ b = <<"release", s, "imount">>
                          /\ c = <<"put", s>> /\ e = <<"iput", i>>
    OBVIOUS
  <2>4. a \in Ops /\ b \in Ops /\ c \in Ops /\ e \in Ops
    <3>1. s \in Others /\ "iroot" \in Fields /\ "imount" \in Fields
      BY <2>2 DEF Fields
    <3>2. <<"release", s, "iroot">> \in Ops /\ <<"release", s, "imount">> \in Ops /\ <<"put", s>> \in Ops
      BY <3>1, OpsOfKinds
    <3> QED
      BY <1>4, <2>3, <3>2
  <2>5. FourOf(ops, a, b, c, e)
    BY <1>5, <2>3 DEF FourOf
  <2>6. PICK new : FourBefore(new, a, b, c, e, Q)
    BY DEF FourBefore
  <2>7. HeldTo(t, Cut(held[t], 1))
    BY <1>4, <1>9, HeldLess
  <2>8. To(t, new, Cut(held[t], 1))
    BY <1>1, <1>2, <1>9, <2>4, <2>5, <2>6, <2>7, ThenFour
  <2>9. To(t, <<<<"release", s, "iroot">>>> \o (<<<<"release", s, "imount">>>>
                 \o (<<<<"put", s>>>> \o (<<<<"iput", i>>>> \o Q))), Cut(held[t], 1))
    BY <2>3, <2>6, <2>8 DEF FourBefore
  <2>10. IInvOf(kernel', todo', slot, super, home, held')
    BY <1>2, <1>4, <2>2, <2>9, UmountStep DEF Doing, To
  <2> QED
    BY <1>6, <1>9, <2>10 DEF IInv
<1> QED
  BY <1>6, <1>7, <1>8, <1>9

LEMMA ReleaseKeeps ==
    ASSUME IInv, OneMounter, NEW t \in Tasks, Release(t)
    PROVE  IInv' /\ stolen' = stolen
<1>1. PICK x, Q : x = Head(todo[t]) /\ Q = Tail(todo[t])
  OBVIOUS
<1>2. Doing(t, x, Q) /\ x[1] = "release" /\ x \in Ops /\ Q \in Seq(Ops)
  BY <1>1, DoesIs DEF Release
<1>3. PICK s, f, j : s = x[2] /\ f = x[3] /\ j = super[x[2]][f]
  OBVIOUS
<1>4. s \in Others /\ f \in Fields /\ j \in Slots \cup {None}
  <2>1. s \in Others /\ f \in Fields /\ SuperInv(super)
    BY <1>2, <1>3, KindsOfOps, TablesIs
  <2>2. super[s].iroot \in Slots \cup {None} /\ super[s].imount \in Slots \cup {None}
    BY <2>1, SuperRecIs
  <2> QED
    BY <1>3, <2>1, <2>2 DEF Fields
<1>5. /\ UNCHANGED <<super, home, stolen, held>>
      /\ IF j = None THEN Fail(236) /\ UNCHANGED slot
         ELSE /\ Then(t, <<<<"iput", j>>, <<"clear", s, f>>>>, FALSE)
              /\ slot' = IF f = "imount" THEN [slot EXCEPT ![j].mount = None] ELSE slot
  BY <1>1, <1>3 DEF Release, Arg, Keeps
<1>6. CASE j = None
  BY <1>5, <1>6, FailKeeps
<1>7. CASE j # None
  <2>1. PICK a, b : a = <<"iput", j>> /\ b = <<"clear", s, f>>
    OBVIOUS
  <2>2. a \in Ops /\ b \in Ops
    <3>1. j \in Slots
      BY <1>4, <1>7
    <3>2. <<"iput", j>> \in Ops /\ <<"clear", s, f>> \in Ops
      BY <1>4, <3>1, OpsOfKinds
    <3> QED
      BY <2>1, <3>2
  <2>3. Then(t, <<a, b>>, FALSE)
    BY <1>5, <1>7, <2>1
  <2>4. To(t, <<a>> \o (<<b>> \o Q), held[t])
    BY <1>1, <1>2, <1>5, <2>2, <2>3, HeldSame, ThenTwo
  <2>5. To(t, <<<<"iput", j>>>> \o (<<<<"clear", x[2], f>>>> \o Q), held[t])
    BY <1>3, <2>1, <2>4
  <2>6. slot' = slot \/ Covers(slot, slot', j, None)
    BY <1>5, <1>7 DEF Covers
  <2>7. IInvOf(kernel', todo', slot', super, home, held')
    BY <1>2, <1>3, <1>7, <2>5, <2>6, ReleaseStep DEF Doing, To
  <2> QED
    BY <1>5, <2>7 DEF IInv
<1> QED
  BY <1>6, <1>7

LEMMA ClearKeeps ==
    ASSUME IInv, OneMounter, NEW t \in Tasks, Clear(t)
    PROVE  IInv' /\ stolen' = stolen
<1>1. PICK x, Q : x = Head(todo[t]) /\ Q = Tail(todo[t])
  OBVIOUS
<1>2. Doing(t, x, Q) /\ x[1] = "clear" /\ x \in Ops /\ Q \in Seq(Ops)
  BY <1>1, DoesIs DEF Clear
<1>3. /\ super' = [super EXCEPT ![x[2]][x[3]] = None] /\ Then(t, << >>, FALSE)
      /\ UNCHANGED <<slot, held, home, stolen>>
  BY <1>1 DEF Clear, Arg
<1>4. Clears(super, super', x[2], x[3])
  BY <1>3 DEF Clears
<1>5. To(t, Q, held[t])
  BY <1>1, <1>2, <1>3, HeldSame, ThenNone
<1>6. IInvOf(kernel', todo', slot, super', home, held')
  BY <1>2, <1>4, <1>5, ClearStep DEF Doing, To
<1> QED
  BY <1>3, <1>6 DEF IInv

LEMMA MkfsKeeps ==
    ASSUME IInv, OneMounter, NEW t \in Tasks, Mkfs(t)
    PROVE  IInv' /\ stolen' = stolen
<1>1. PICK x, Q : x = Head(todo[t]) /\ Q = Tail(todo[t])
  OBVIOUS
<1>2. Doing(t, x, Q) /\ x[1] = "mkfs" /\ x \in Ops /\ Q \in Seq(Ops)
  BY <1>1, DoesIs DEF Mkfs
<1>3. PICK i, s : i = Top(t) /\ s = Min(Free(super))
  OBVIOUS
<1>4. Len(held[t]) >= 1 /\ i = held[t][Len(held[t])] /\ i \in Slots /\ <<"iput", i>> \in Ops
  <2>1. Len(held[t]) >= 1 /\ i = held[t][Len(held[t])] /\ i \in Slots
    BY <1>2, <1>3, MountGains, DoingTop
  <2> QED
    BY <2>1, OpsOfKinds
<1>5. /\ UNCHANGED <<slot, home, stolen>>
      /\ \/ (Fail(191) \/ Fail(30)) /\ UNCHANGED super
         \/ Then(t, <<<<"iput", i>>>>, FALSE) /\ Forgets(t, 1) /\ UNCHANGED super
         \/ /\ Free(super) # {} /\ super' = [super EXCEPT ![s].dev = Disk, ![s].count = 1]
            /\ \E waits \in BOOLEAN : Then(t, <<<<"iget", Disk, 1>>, <<"made", s>>>>, waits)
            /\ UNCHANGED held
  BY <1>3 DEF Mkfs
<1>6. CASE (Fail(191) \/ Fail(30)) /\ UNCHANGED super
  BY <1>5, <1>6, FailKeeps
<1>7. CASE Then(t, <<<<"iput", i>>>>, FALSE) /\ Forgets(t, 1) /\ UNCHANGED super
  <2>1. HeldTo(t, Cut(held[t], 1))
    BY <1>4, <1>7, HeldLess
  <2>2. To(t, <<<<"iput", i>>>> \o Q, Cut(held[t], 1))
    BY <1>1, <1>2, <1>4, <1>7, <2>1, ThenOne
  <2>3. IInvOf(kernel', todo', slot, super, home, held')
    BY <1>2, <1>4, <2>2, GiveUpStep DEF Doing, To
  <2> QED
    BY <1>5, <1>7, <2>3 DEF IInv
<1>8. CASE /\ Free(super) # {} /\ super' = [super EXCEPT ![s].dev = Disk, ![s].count = 1]
           /\ \E waits \in BOOLEAN : Then(t, <<<<"iget", Disk, 1>>, <<"made", s>>>>, waits)
           /\ UNCHANGED held
  <2>1. s \in Others
    BY <1>2, <1>3, <1>8, FreeTaken
  <2>2. PICK a, b : a = <<"iget", Disk, 1>> /\ b = <<"made", s>>
    OBVIOUS
  <2>3. a \in Ops /\ b \in Ops
    <3>1. Disk \in Devs /\ 1 \in Names
      BY Distinct DEF Devs
    <3>2. <<"made", s>> \in Ops /\ <<"iget", Disk, 1>> \in Ops
      BY <2>1, <3>1, OpsOfKinds
    <3> QED
      BY <2>2, <3>2
  <2>4. PICK waits : Then(t, <<a, b>>, waits)
    BY <1>8, <2>2
  <2>5. To(t, <<a>> \o (<<b>> \o Q), held[t])
    BY <1>1, <1>2, <1>8, <2>3, <2>4, HeldSame, ThenTwo
  <2>6. To(t, <<<<"iget", Disk, 1>>>> \o (<<<<"made", s>>>> \o Q), held[t])
    BY <2>2, <2>5
  <2>7. Claims(super, super', s)
    BY <1>8 DEF Claims
  <2>8. IInvOf(kernel', todo', slot, super', home, held')
    <3>1. /\ About(kernel, todo, slot, super, home, held, t, x, Q) /\ x[1] = "mkfs"
          /\ Free(super) # {} /\ s = Min(Free(super))
      BY <1>2, <1>3, <1>8 DEF Doing
    <3> QED
      BY <2>6, <2>7, <3>1, MkfsStep DEF To
  <2> QED
    BY <1>5, <2>8 DEF IInv
<1> QED
  BY <1>5, <1>6, <1>7, <1>8

LEMMA MadeKeeps ==
    ASSUME IInv, OneMounter, NEW t \in Tasks, Made(t)
    PROVE  IInv' /\ stolen' = stolen
<1>1. PICK x, Q : x = Head(todo[t]) /\ Q = Tail(todo[t])
  OBVIOUS
<1>2. Doing(t, x, Q) /\ x[1] = "made" /\ x \in Ops /\ Q \in Seq(Ops)
  BY <1>1, DoesIs DEF Made
<1>3. PICK i, j, s : i = Top(t) /\ j = Second(t) /\ s = x[2]
  OBVIOUS
<1>4. /\ Len(held[t]) >= 2 /\ i = held[t][Len(held[t])] /\ j = held[t][Len(held[t]) - 1]
      /\ <<"iput", j>> \in Ops
  <2>1. Needs(x[1]) = 2
    BY <1>2, MountGains
  <2> QED
    BY <1>2, <1>3, <2>1, DoingTwo
<1>5. <<"put", s>> \in Ops
  <2>1. s \in Others
    BY <1>2, <1>3, KindsOfOps
  <2> QED
    BY <2>1, OpsOfKinds
<1>6. /\ UNCHANGED <<slot, home, stolen>>
      /\ IF ~Complete(i) THEN Fail(191) /\ UNCHANGED super
         ELSE /\ super' = [super EXCEPT ![s].iroot = i] /\ Forgets(t, 2)
              /\ \E waits \in BOOLEAN : Then(t, <<<<"put", s>>, <<"iput", j>>>>, waits)
  BY <1>1, <1>3 DEF Made, Arg
<1>7. CASE ~Complete(i)
  BY <1>6, <1>7, FailKeeps
<1>8. CASE Complete(i)
  <2>1. PICK a, b : a = <<"put", s>> /\ b = <<"iput", j>>
    OBVIOUS
  <2>2. a \in Ops /\ b \in Ops
    BY <1>4, <1>5, <2>1
  <2>3. PICK waits : Then(t, <<a, b>>, waits)
    BY <1>6, <1>8, <2>1
  <2>4. HeldTo(t, Cut(held[t], 2))
    BY <1>4, <1>6, <1>8, HeldLess
  <2>5. To(t, <<a>> \o (<<b>> \o Q), Cut(held[t], 2))
    BY <1>1, <1>2, <2>2, <2>3, <2>4, ThenTwo
  <2>6. To(t, <<<<"put", x[2]>>>> \o (<<<<"iput", j>>>> \o Q), Cut(held[t], 2))
    BY <1>3, <2>1, <2>5
  <2>7. Roots(super, super', x[2], i)
    BY <1>3, <1>6, <1>8 DEF Roots
  <2>8. IInvOf(kernel', todo', slot, super', home, held')
    BY <1>2, <1>4, <2>6, <2>7, MadeStep DEF Doing, To
  <2> QED
    BY <1>6, <2>8 DEF IInv
<1> QED
  BY <1>7, <1>8
-----------------------------------------------------------------------------
(* The invariant.                                                          *)

LEMMA InitIsOk ==
    ASSUME Init
    PROVE  IInv
<1>1. /\ kernel = None /\ todo = [t \in Tasks |-> << >>] /\ held = [t \in Tasks |-> << >>]
      /\ home = [t \in Tasks |-> [h \in Homes |-> 1]]
  BY DEF Init
<1>2. todo \in [Tasks -> Seq(Ops)] /\ held \in [Tasks -> Seq(Slots)] /\ home \in [Tasks -> [Homes -> Slots]]
  BY <1>1, Distinct
<1>3. \A t \in Tasks : Stack(todo[t], held[t], super, kernel, t) /\ Mounts(todo[t]) = {}
  <2> TAKE t \in Tasks
  <2>1. PICK q, h : q = todo[t] /\ h = held[t] /\ q = << >> /\ h = << >>
    BY <1>1
  <2>2. h \in Seq(Slots) /\ Len(h) = 0 /\ 0 \in Nat
    BY <2>1
  <2>3. Calm(q, 0) /\ Mounts(q) = {}
    BY <2>1, <2>2, CalmNothing, NothingLeft
  <2>4. Stack(q, h, super, kernel, t)
    BY <2>2, <2>3, CalmStack
  <2> QED
    BY <2>1, <2>3, <2>4
<1>4. AllMounts(todo) = {}
  BY <1>3 DEF AllMounts
<1>5. super = [s \in Supers |-> IF s = 1 THEN [dev |-> Root, count |-> 1, iroot |-> 1, imount |-> 1]
                                ELSE [dev |-> None, count |-> 0, iroot |-> None, imount |-> None]]
  BY DEF Init
<1>6. \A s \in Supers : /\ s = 1 => super[s] = [dev |-> Root, count |-> 1, iroot |-> 1, imount |-> 1]
                        /\ s # 1 => super[s] = [dev |-> None, count |-> 0, iroot |-> None, imount |-> None]
  BY <1>5
<1>7. SuperInv(super)
  <2>1. \A s \in Supers : super[s] \in SuperRec
    BY <1>6, Distinct DEF SuperRec
  <2>2. super \in [Supers -> SuperRec]
    BY <1>5, <2>1
  <2> QED
    BY <1>6, <2>2, Distinct DEF SuperInv, Others
<1>8. Phase(AllMounts(todo), super)
  <2>1. Resting(AllMounts(todo))
    BY <1>4 DEF Resting
  <2>2. AllOff(super, Others)
    BY <1>6 DEF AllOff, Off, Others
  <2> QED
    BY <2>1, <2>2 DEF Phase, Idle
<1>9. PICK n \in Nat : n = Cardinality(Tasks \X Homes)
  BY TasksFinite, FS_CardinalityType
<1>10. slot = [i \in Slots |->
                 IF i = 1 THEN [dev |-> Root, nr |-> 1, count |-> 2 + n,
                                mount |-> Root, sb |-> 1, desc |-> <<Root, 1>>]
                 ELSE [dev |-> None, nr |-> 0, count |-> 0, mount |-> None, sb |-> None, desc |-> << >>]]
  BY <1>9 DEF Init, Unused
<1>11. /\ slot[1] = [dev |-> Root, nr |-> 1, count |-> 2 + n, mount |-> Root, sb |-> 1, desc |-> <<Root, 1>>]
       /\ \A i \in Slots : i # 1 => slot[i] = [dev |-> None, nr |-> 0, count |-> 0, mount |-> None,
                                               sb |-> None, desc |-> << >>]
  BY <1>10, Distinct
<1>12. SlotInv(slot)
  <2>1. slot[1] \in SlotRec
    <3>1. 2 + n \in Nat /\ Root \in Devs /\ 1 \in Names /\ 1 \in Supers
      BY <1>9, Distinct DEF Devs
    <3> QED
      BY <1>11, <3>1 DEF SlotRec
  <2>2. \A i \in Slots : i # 1 => slot[i] \in SlotRec
    BY <1>11 DEF SlotRec
  <2>3. slot \in [Slots -> SlotRec]
    BY <1>10, <2>1, <2>2
  <2>4. SlotOk(slot[1])
    BY <1>9, <1>11, Distinct DEF SlotOk, Listed
  <2>5. \A i \in Slots : i # 1 => SlotOk(slot[i])
    BY <1>11, Distinct DEF SlotOk, Listed
  <2>6. \A i, j \in Slots : SameInode(slot[i], slot[j]) => i = j
    BY <1>11, Distinct DEF SameInode, Listed
  <2> QED
    BY <1>11, <2>3, <2>4, <2>5, <2>6 DEF SlotInv
<1>13. \A S : Total(todo, S) = 0 /\ Total(held, S) = 0
  <2> TAKE S
  <2>1. Places(todo, S) = {} /\ Places(held, S) = {}
    BY <1>1 DEF Places
  <2> QED
    BY <2>1, FS_EmptySet DEF Total
<1>14. \A i \in Slots : Unread(slot[i]) = 0
  BY <1>11 DEF Unread, Listed
<1>15. \A i \in Slots : IsSum(slot[i].count, 0, 0, HomeRefs(home, todo, i), SuperRefs(super, AllMounts(todo), i))
  <2> TAKE i \in Slots
  <2>1. \A u \in Tasks, w \in Homes : home[u][w] = 1 /\ ~Has(todo[u], <<"homed", w>>)
    BY <1>1 DEF Has
  <2>2. CASE i = 1
    <3>1. HomeSet(home, todo, i) = Tasks \X Homes
      BY <2>1, <2>2 DEF HomeSet
    <3>2. HomeRefs(home, todo, i) = n
      BY <1>9, <3>1 DEF HomeRefs
    <3>3. PICK p, r : p = <<1, "iroot">> /\ r = <<1, "imount">>
      OBVIOUS
    <3>4. SuperSet(super, AllMounts(todo), i) = {p, r} /\ p # r
      <4>1. \A s \in Supers, f \in Fields : CountsFor(super, {}, s, f, i) <=> s = 1
        <5> TAKE s \in Supers, f \in Fields
        <5>1. f = "iroot" \/ f = "imount"
          BY DEF Fields
        <5>2. CASE s = 1
          BY <1>6, <2>2, <5>1, <5>2, Distinct DEF CountsFor, CountsIn
        <5>3. CASE s # 1
          BY <1>6, <5>3 DEF CountsFor, CountsIn
        <5> QED
          BY <5>2, <5>3
      <4>2. \A x \in SuperSet(super, AllMounts(todo), i) : x \in {p, r}
        <5> TAKE x \in SuperSet(super, AllMounts(todo), i)
        <5>1. PICK s \in Supers, f \in Fields : x = <<s, f>>
          BY DEF SuperSet
        <5>2. s = 1
          BY <1>4, <4>1, <5>1, InSuperSet
        <5> QED
          BY <3>3, <5>1, <5>2 DEF Fields
      <4>3. p \in SuperSet(super, AllMounts(todo), i) /\ r \in SuperSet(super, AllMounts(todo), i)
        BY <1>4, <3>3, <4>1, InSuperSet, Distinct DEF Fields
      <4> QED
        BY <3>3, <4>2, <4>3
    <3>5. SuperRefs(super, AllMounts(todo), i) = 2
      <4>1. IsFiniteSet({p}) /\ Cardinality({p}) = 1
        BY FS_Singleton
      <4>2. Cardinality({p} \cup {r}) = 1 + 1
        BY <3>4, <4>1, FS_AddElement
      <4>3. {p} \cup {r} = {p, r}
        OBVIOUS
      <4> QED
        BY <3>4, <4>2, <4>3 DEF SuperRefs
    <3>6. PICK c : c = slot[i].count /\ c = 2 + n
      BY <1>11, <2>2
    <3>7. IsSum(c, 0, 0, n, 2)
      BY <1>9, <3>6 DEF IsSum
    <3> QED
      BY <3>2, <3>5, <3>6, <3>7
  <2>3. CASE i # 1
    <3>1. HomeSet(home, todo, i) = {}
      BY <2>1, <2>3 DEF HomeSet
    <3>2. SuperSet(super, AllMounts(todo), i) = {}
      <4> SUFFICES ASSUME NEW x \in SuperSet(super, AllMounts(todo), i)
                   PROVE  FALSE
        OBVIOUS
      <4>1. PICK s \in Supers, f \in Fields : x = <<s, f>>
        BY DEF SuperSet
      <4>2. CountsFor(super, AllMounts(todo), s, f, i)
        BY <4>1, InSuperSet
      <4>3. f = "iroot" \/ f = "imount"
        BY DEF Fields
      <4> QED
        BY <1>6, <2>3, <4>2, <4>3 DEF CountsFor, CountsIn
    <3> QED
      BY <1>11, <2>3, <3>1, <3>2, FS_EmptySet DEF IsSum, HomeRefs, SuperRefs
  <2> QED
    BY <2>2, <2>3
<1> QED
  BY <1>1, <1>2, <1>3, <1>7, <1>8, <1>12, <1>13, <1>14, <1>15 DEF IInv, IInvOf

\* A micro-step of a task.
LEMMA StepKeeps ==
    ASSUME IInv, OneMounter, NEW t \in Tasks, Step(t), ~stolen'
    PROVE  IInv' /\ stolen' = stolen
<1>1. CASE Iget(t) \/ Fill(t) \/ Enter(t) \/ Iput(t) \/ Drop(t)
  BY <1>1, IgetKeeps, FillKeeps, EnterKeeps, IputKeeps, DropKeeps
<1>2. CASE Start(t) \/ Parent(t) \/ Walk(t) \/ LastName(t) \/ Under(t)
  BY <1>2, StartKeeps, ParentKeeps, WalkKeeps, LastNameKeeps, UnderKeeps
<1>3. CASE Chdir(t) \/ Homed(t)
  BY <1>3, ChdirKeeps, HomedKeeps
<1>4. CASE MountDevice(t) \/ MountOnto(t) \/ ReadSuper(t) \/ MountFree(t) \/ Attach(t)
  BY <1>4, MountDeviceKeeps, MountOntoKeeps, ReadSuperKeeps, MountFreeKeeps, AttachKeeps
<1>5. CASE PutSuper(t) \/ Umount(t) \/ Release(t) \/ Clear(t) \/ Mkfs(t) \/ Made(t)
  BY <1>5, PutSuperKeeps, UmountKeeps, ReleaseKeeps, ClearKeeps, MkfsKeeps, MadeKeeps
<1> QED
  BY <1>1, <1>2, <1>3, <1>4, <1>5 DEF Step

LEMMA NextKeeps ==
    ASSUME IInv, OneMounter, Next, ~stolen'
    PROVE  IInv' /\ stolen' = stolen
<1>1. CASE \E t \in Tasks : Step(t)
  BY <1>1, StepKeeps
<1>2. ASSUME NEW t \in Users,
             \/ get_pipe_inode(t)
             \/ \E k \in 1 .. Len(held[t]) : Close(t, k)
             \/ \E path \in Paths : Namei(t, path) \/ \E which \in Homes : sys_chdir(t, which, path)
      PROVE  IInv' /\ stolen' = stolen
  <2>1. t \in Tasks
    BY DEF Tasks
  <2> QED
    BY <1>2, <2>1, get_pipe_inodeKeeps, CloseKeeps, NameiKeeps, sys_chdirKeeps
<1>3. ASSUME NEW t \in Mounters, NEW path \in Paths, sys_umount(t, path)
      PROVE  IInv' /\ stolen' = stolen
  BY <1>3, UmountCall
<1>4. ASSUME NEW t \in Mounters, NEW path \in Paths, NEW special \in Specials, sys_mount(t, special, path)
      PROVE  IInv' /\ stolen' = stolen
  BY <1>4, MountCall
<1>5. ASSUME NEW t \in Mounters, NEW special \in Specials, sys_mkfs(t, special)
      PROVE  IInv' /\ stolen' = stolen
  BY <1>5, MkfsCall
<1> QED
  BY <1>1, <1>2, <1>3, <1>4, <1>5 DEF Next
-----------------------------------------------------------------------------
(* What the invariant says of the properties.                              *)

LEMMA MountsPending ==
    ASSUME NEW op, IsMount(op)
    PROVE  AnyPending(op) <=> op \in AllMounts(todo)
<1>1. ASSUME NEW t \in Tasks
      PROVE  Pending(t, {op}) # {} <=> op \in Mounts(todo[t])
  BY DEF Pending, Mounts
<1> QED
  BY <1>1 DEF AnyPending, AllMounts

LEMMA CountedFields ==
    ASSUME NEW s, NEW f
    PROVE  Counts(s, f) <=> CountsIn(super, AllMounts(todo), s, f)
<1>1. IsMount(<<"clear", s, f>>) /\ IsMount(<<"put", s>>)
  BY DEF IsMount, MountKinds
<1>2. AnyPending(<<"clear", s, f>>) <=> <<"clear", s, f>> \in AllMounts(todo)
  BY <1>1, MountsPending
<1>3. AnyPending(<<"put", s>>) <=> <<"put", s>> \in AllMounts(todo)
  BY <1>1, MountsPending
<1> QED
  BY <1>2, <1>3 DEF Counts, CountsIn

LEMMA CountIsSum ==
    ASSUME IInv, NEW i \in Slots
    PROVE  slot[i].count = References(i)
<1>1. Cardinality(Places(held, {i})) = Total(held, Only(i))
  BY DEF Total, Only
<1>2. Cardinality(Places(todo, {<<"iput", i>>, <<"drop", i>>, <<"fill", i>>})) = Total(todo, Calls(i))
  BY DEF Total, Calls
<1>3. {x \in Tasks \X Homes : home[x[1]][x[2]] = i /\ Pending(x[1], {<<"homed", x[2]>>}) = {}}
        = HomeSet(home, todo, i)
  <2>1. \A t, w : Pending(t, {<<"homed", w>>}) = {} <=> ~Has(todo[t], <<"homed", w>>)
    BY DEF Pending, Has
  <2> QED
    BY <2>1 DEF HomeSet
<1>4. {x \in Supers \X {"iroot", "imount"} : super[x[1]][x[2]] = i /\ Counts(x[1], x[2])}
        = SuperSet(super, AllMounts(todo), i)
  BY CountedFields DEF SuperSet, Fields
<1>5. IsSum(slot[i].count, Total(held, Only(i)), Total(todo, Calls(i)),
            HomeRefs(home, todo, i), SuperRefs(super, AllMounts(todo), i))
  BY DEF IInv, IInvOf
<1> QED
  BY <1>1, <1>2, <1>3, <1>4, <1>5 DEF IsSum, References, HomeRefs, SuperRefs

LEMMA InvariantMeans ==
    ASSUME IInv
    PROVE  CountIsReferences /\ OneInodePerNumber /\ IncompleteIsRead
<1>1. CountIsReferences
  BY CountIsSum DEF CountIsReferences
<1>2. ASSUME NEW i \in Slots, NEW j \in Slots, slot[i].dev \notin {None, "pipe"}, Node(i) = Node(j)
      PROVE  i = j
  <2>1. SameInode(slot[i], slot[j])
    BY <1>2 DEF SameInode, Listed, Node
  <2> QED
    BY <2>1 DEF IInv, IInvOf, SlotInv
<1>3. ASSUME NEW i \in Slots, slot[i].dev # None, ~Complete(i)
      PROVE  Cardinality({t \in Tasks : Pending(t, {<<"fill", i>>}) # {}}) = 1
  <2>1. Unread(slot[i]) = 1
    BY <1>3 DEF Unread, Listed, Complete, Node
  <2>2. Total(todo, Fills(i)) = 1 /\ Lists(todo, Ops)
    BY <2>1 DEF IInv, IInvOf, Lists
  <2>3. Tasks # {}
    <3>1. Tasks = {} => Places(todo, Fills(i)) = {}
      BY DEF Places
    <3> QED
      BY <2>2, <3>1, FS_EmptySet DEF Total
  <2>4. IsFiniteSet(Places(todo, Fills(i)))
    BY <2>2, <2>3, PlacesFinite
  <2>5. PICK p : Places(todo, Fills(i)) = {p}
    BY <2>2, <2>4, FS_Singleton DEF Total
  <2>6. \A t \in Tasks : todo[t] \in Seq(Ops) /\ DOMAIN todo[t] = 1 .. Len(todo[t])
    BY <2>2, LenProperties DEF Lists
  <2>7. \A t \in Tasks : \A k : k \in Pending(t, {<<"fill", i>>}) <=> <<t, k>> \in {p}
    <3>1. \A t \in Tasks : Pending(t, {<<"fill", i>>}) = {k \in DOMAIN todo[t] : todo[t][k] \in Fills(i)}
      BY <2>6 DEF Pending, Fills
    <3>2. \A t \in Tasks : \A k : <<t, k>> \in Places(todo, Fills(i)) <=>
            k \in {j \in DOMAIN todo[t] : todo[t][j] \in Fills(i)}
      BY DEF Places
    <3> QED
      BY <2>5, <3>1, <3>2
  <2>8. PICK u, m : u \in Tasks /\ p = <<u, m>>
    BY <2>5 DEF Places
  <2>9. {t \in Tasks : Pending(t, {<<"fill", i>>}) # {}} = {u}
    <3>1. m \in Pending(u, {<<"fill", i>>})
      BY <2>7, <2>8
    <3>2. \A t \in Tasks : Pending(t, {<<"fill", i>>}) # {} => t = u
      BY <2>7, <2>8
    <3> QED
      BY <2>8, <3>1, <3>2
  <2> QED
    BY <2>9, FS_Singleton
<1> QED
  BY <1>1, <1>2, <1>3 DEF OneInodePerNumber, IncompleteIsRead

\* Only umount releases a reference that nobody holds, and nothing takes it back.
LEMMA StaysStolen ==
    ASSUME Next, ~stolen'
    PROVE  ~stolen
<1> USE DEF Keeps
<1>1. ASSUME NEW t, Step(t)
      PROVE  ~stolen
  <2>1. CASE Iget(t) \/ Fill(t) \/ Enter(t) \/ Iput(t) \/ Drop(t) \/ Start(t) \/ Parent(t)
    BY <2>1 DEF Iget, Fill, Enter, Iput, Drop, DropAt, Start, Parent
  <2>2. CASE Walk(t) \/ LastName(t) \/ Under(t) \/ Chdir(t) \/ Homed(t) \/ MountDevice(t)
    BY <2>2 DEF Walk, LastName, Under, Chdir, Homed, MountDevice
  <2>3. CASE MountOnto(t) \/ ReadSuper(t) \/ MountFree(t) \/ Attach(t) \/ PutSuper(t)
    BY <2>3 DEF MountOnto, ReadSuper, MountFree, Attach, PutSuper
  <2>4. CASE Umount(t)
    BY <2>4 DEF Umount
  <2>5. CASE Release(t) \/ Clear(t) \/ Mkfs(t) \/ Made(t)
    BY <2>5 DEF Release, Clear, Mkfs, Made
  <2> QED
    BY <1>1, <2>1, <2>2, <2>3, <2>4, <2>5 DEF Step
<1>2. ASSUME NEW t, NEW ops, Call(t, ops)
      PROVE  ~stolen
  BY <1>2 DEF Call
<1>3. ASSUME NEW t, get_pipe_inode(t)
      PROVE  ~stolen
  BY <1>3 DEF get_pipe_inode
<1> QED
  BY <1>1, <1>2, <1>3 DEF Next, Close, Namei, sys_chdir, sys_umount, sys_mount, sys_mkfs

\* After umount has met a busy file system the counts are short of references.
TableInv == ~stolen => IInv

LEMMA TableStarts == Init => TableInv
BY InitIsOk DEF TableInv

LEMMA TableSteps ==
    ASSUME TableInv, OneMounter, [Next]_vars
    PROVE  TableInv'
<1>1. CASE Next
  BY <1>1, StaysStolen, NextKeeps DEF TableInv
<1>2. CASE UNCHANGED vars
  BY <1>2 DEF vars, TableInv, IInv
<1> QED
  BY <1>1, <1>2

LEMMA TableMeans ==
    ASSUME TableInv
    PROVE  CountIsReferences /\ OneInodePerNumber /\ IncompleteIsRead /\ SuperBlocksInPhase
<1>1. CASE ~stolen
  BY <1>1, InvariantMeans DEF TableInv, IInv, IInvOf, SuperBlocksInPhase
<1>2. CASE stolen
  BY <1>2 DEF CountIsReferences, OneInodePerNumber, IncompleteIsRead, SuperBlocksInPhase
<1> QED
  BY <1>1, <1>2

LEMMA TableAlways ==
    ASSUME OneMounter
    PROVE  Spec => []TableInv
<1>1. Init => TableInv
  BY TableStarts
<1>2. TableInv /\ [Next]_vars => TableInv'
  BY TableSteps
<1> QED
  BY <1>1, <1>2, PTL DEF Spec

\* The count of an inode is the number of files, locals, directories and super
\* blocks that point to it at every micro-step of iget, iput, chdir, mount and
\* umount, for any number of tasks, inodes and paths of any length, if only
\* one task mounts, umounts and formats.
THEOREM CountsAreReferences ==
    ASSUME OneMounter
    PROVE  Spec => []CountIsReferences
BY TableAlways, TableMeans, PTL

\* iget never puts an inode into the table twice.
THEOREM InodesAreUnique ==
    ASSUME OneMounter
    PROVE  Spec => []OneInodePerNumber
BY TableAlways, TableMeans, PTL

\* An inode in the table without its block is being read by one task.
THEOREM InodesAreRead ==
    ASSUME OneMounter
    PROVE  Spec => []IncompleteIsRead
BY TableAlways, TableMeans, PTL

\* No mount, umount or mkfs leaves a super block behind that is taken and not
\* mounted, or counted twice, whichever of its checks fails.
THEOREM SuperBlocksAreInPhase ==
    ASSUME OneMounter
    PROVE  Spec => []SuperBlocksInPhase
BY TableAlways, TableMeans, PTL
=============================================================================
