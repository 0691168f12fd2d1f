------------------------------ MODULE Storage ------------------------------
(***************************************************************************)
(* The blocks of a minix file system: mkfs (super.c), the two bitmaps and  *)
(* bmap (bmap.c), and the files read, written, truncated and deleted       *)
(* through them (inode.c).                                                 *)
(*                                                                         *)
(* balloc, bfree and ialloc write the bitmap at once and wait for the disk *)
(* with it; what their caller does with the number comes after.            *)
(***************************************************************************)
EXTENDS Integers, FiniteSetsExt, SequencesExt

CONSTANTS
    Tasks,
    Total, ICount,   \* blocks of the device and the inodes asked of mkfs
    BlockBits,       \* BLOCK_BITS
    ByteBits,        \* bits of a byte
    BlockInodes,     \* BLOCK_INODES
    Direct, Indexes, \* DIRECT_BLOCK and BLOCK_INDEXES
    MaxBlock,        \* bound: the last block a file is written at
    MaxFiles,        \* bound: inodes in use at a time
    Device,          \* the device of a special file, kept in zone[0]
    Words            \* what a file is filled with, taken for block numbers

ASSUME StorageAssumption ==
    /\ {Total, ICount, MaxBlock, MaxFiles, Device} \subseteq Nat
    /\ {BlockBits, ByteBits, BlockInodes, Direct, Indexes} \subseteq Nat \ {0}
    /\ Words \subseteq Nat
    /\ ICount \in 1 .. BlockBits - 1  \* one block of inode map, see ialloc

VARIABLES
    fs,      \* the disk: [desc, imap, zmap, zone, data, size, special]
    files,   \* inodes that a directory entry names
    op,      \* what each task is at
    failed,  \* line of the assertion that stopped the kernel, or 0
    tainted, \* an inode or an index block was taken with old entries in it
    raced    \* two tasks met on one file: see SameHole and FreesMeet

vars == <<fs, files, op, failed, tainted, raced>>

Slots == 0 .. Direct + 1
DivRoundUp(a, b) == (a + b - 1) \div b
Idle == [pc |-> "idle"]

-----------------------------------------------------------------------------
AfterMaps(imap_blocks, zmap_blocks, inode_blocks) == 2 + imap_blocks + inode_blocks
AfterInodes(imap_blocks, zmap_blocks, inode_blocks) == 2 + imap_blocks + zmap_blocks + inode_blocks

SuperDesc ==
    LET inode_blocks == DivRoundUp(ICount, BlockInodes)
        imap_blocks == DivRoundUp(ICount, BlockBits)
        zcount == Total - imap_blocks - inode_blocks - 2
        zmap_blocks == DivRoundUp(zcount, BlockBits)
    IN  [inodes |-> ICount, zones |-> Total, zcount |-> zcount,
         imap_blocks |-> imap_blocks, zmap_blocks |-> zmap_blocks,
         firstdatazone |-> AfterInodes(imap_blocks, zmap_blocks, inode_blocks)]

\* The bits of the last of n blocks are set from count on; the lower bits of
\* the byte of count are cleared.
MarkTail(bits, count, n) ==
    LET base == (n - 1) * BlockBits
        offset == count % BlockBits
        begin == ByteBits * (offset \div ByteBits)
    IN  {b \in bits : b < base + begin} \cup (base + offset .. base + BlockBits - 1)

Bits(n) == 0 .. n * BlockBits - 1

\* Bit b of the zone map is block b + firstdatazone - 1.
BlockOf(f, b) == b + f.desc.firstdatazone - 1
BitOf(f, idx) == idx - f.desc.firstdatazone + 1

\* The root directory has inode 1 and the first free block.
Init ==
    LET desc == SuperDesc
        zmap == MarkTail({0}, desc.zcount, desc.zmap_blocks)
        root == Min(Bits(desc.zmap_blocks) \ zmap)
        blank == [s \in Slots |-> 0]
        made == [desc |-> desc,
                 imap |-> MarkTail({0, 1}, ICount + 1, desc.imap_blocks),
                 zmap |-> zmap \cup {root},
                 zone |-> [nr \in 1 .. ICount |-> blank],
                 data |-> [b \in 1 .. Total - 1 |-> [k \in 0 .. Indexes - 1 |-> 0]],
                 size |-> [nr \in 1 .. ICount |-> 0],
                 special |-> {}]
    IN  /\ fs = [made EXCEPT !.zone[1][0] = BlockOf(made, root), !.size[1] = 1]
        /\ files = {1}
        /\ op = [t \in Tasks |-> Idle]
        /\ failed = 0 /\ tainted = FALSE /\ raced = FALSE

Fails(line) == failed' = line /\ UNCHANGED <<fs, files, op, tainted, raced>>
Goes(t, next) == op' = [op EXCEPT ![t] = next]
Works(t, pc) == failed = 0 /\ op[t].pc = pc

\* Nothing locks an inode: any number of tasks work on a file.
Takes(t, nr) == Works(t, "idle") /\ nr \in files \ {1}
Others(t, nr) == {op[u] : u \in {v \in Tasks \ {t} : op[v].pc # "idle" /\ op[v].nr = nr}}

Truncates(o) == o.pc = "truncate"
Writes(o) == o.pc \in {"bmap", "alloc", "found"} /\ o.create

\* A writer finds missing the entry that another one is waiting to fill, or the
\* file being truncated.
SameHole(t, w) ==
    w.create /\ \E o \in Others(t, w.nr) :
        Truncates(o) \/ (o.pc = "alloc" /\ o.buf = w.buf /\ o.index = w.index)

\* A truncation goes on while the file is written or truncated.
FreesMeet(t, nr) == \E o \in Others(t, nr) : Truncates(o) \/ Writes(o)

-----------------------------------------------------------------------------
FreeBits == Bits(fs.desc.zmap_blocks) \ fs.zmap

\* balloc: then(idx, f) is what follows.
balloc(then(_, _)) ==
    IF FreeBits = {} THEN Fails(20)
    ELSE LET idx == BlockOf(fs, Min(FreeBits))
         IN  IF idx >= fs.desc.zones THEN Fails(33)
             ELSE then(idx, [fs EXCEPT !.zmap = @ \cup {Min(FreeBits)}])

\* The map that bfree takes idx to be in.
MapOf(idx) == (idx - 1) \div BlockBits

bfree(f, idx, then(_)) ==
    LET b == BitOf(f, idx)
    IN  IF idx >= f.desc.zones THEN Fails(47)
        ELSE IF MapOf(idx) >= f.desc.zmap_blocks THEN Fails(60)
        ELSE IF b < MapOf(idx) * BlockBits \/ b \notin f.zmap THEN Fails(66)
        ELSE then([f EXCEPT !.zmap = @ \ {b}])

\* bmap at one level: slot index of the inode (buf = 0) or of an index block.
Entry(f, w) == IF w.buf = 0 THEN f.zone[w.nr][w.index] ELSE f.data[w.buf][w.index]
WithEntry(f, w, b) ==
    IF w.buf = 0 THEN [f EXCEPT !.zone[w.nr][w.index] = b] ELSE [f EXCEPT !.data[w.buf][w.index] = b]

bmap(nr, block, create) ==
    LET walk(level, index, rest, divider) ==
            [pc |-> "bmap", nr |-> nr, block |-> block, create |-> create, buf |-> 0,
             level |-> level, index |-> index, rest |-> rest, divider |-> divider]
    IN  IF block < Direct THEN walk(0, block, block, 1)
        ELSE IF block < Direct + Indexes THEN walk(1, Direct, block - Direct, 1)
        ELSE walk(2, Direct + 1, block - Direct - Indexes, Indexes)

Descend(w, b) ==
    IF w.level = 0 \/ b = 0 THEN [w EXCEPT !.pc = "found", !.buf = b]
    ELSE [w EXCEPT !.pc = "bmap", !.buf = b, !.level = @ - 1,
                   !.index = w.rest \div w.divider, !.rest = @ % w.divider,
                   !.divider = @ \div Indexes]

BmapLevel(t, w) ==
    IF Entry(fs, w) = 0 /\ w.create
    THEN balloc(LAMBDA idx, f :
             /\ fs' = f
             /\ raced' = (raced \/ SameHole(t, w))
             /\ Goes(t, [w EXCEPT !.pc = "alloc"] @@ [got |-> idx])
             /\ UNCHANGED <<files, failed, tainted>>)
    ELSE /\ Goes(t, Descend(w, Entry(fs, w)))
         /\ raced' = (raced \/ SameHole(t, w))
         /\ UNCHANGED <<fs, files, failed, tainted>>

BmapNext(t) == Works(t, "bmap") /\ BmapLevel(t, op[t])

\* The bitmap is on the disk: the number goes to the entry.
BmapAlloc(t) ==
    LET w == op[t]
        stale == w.level > 0 /\ \E k \in DOMAIN fs.data[w.got] : fs.data[w.got][k] # 0
    IN  /\ Works(t, "alloc")
        /\ fs' = WithEntry(fs, w, w.got)
        /\ tainted' = (tainted \/ stale)
        /\ Goes(t, Descend([x \in DOMAIN w \ {"got"} |-> w[x]], w.got))
        /\ UNCHANGED <<files, failed, raced>>

-----------------------------------------------------------------------------
\* inode_read and inode_write, a block at a time; a write may leave a hole.
Start(t, nr, block, create) ==
    /\ Takes(t, nr) /\ nr \notin fs.special
    /\ create \/ block < fs.size[nr]
    /\ BmapLevel(t, bmap(nr, block, create))

\* Reading a block that was never written fails.
inode_read(t) ==
    /\ Works(t, "found") /\ ~op[t].create
    /\ IF op[t].buf = 0 THEN Fails(245)
       ELSE Goes(t, Idle) /\ UNCHANGED <<fs, files, failed, tainted, raced>>

inode_write(t, word) ==
    LET w == op[t]
        old == fs.size[w.nr]
    IN  /\ Works(t, "found") /\ w.create
        /\ fs' = [fs EXCEPT !.data[w.buf] = [k \in DOMAIN @ |-> word],
                            !.size[w.nr] = IF w.block + 1 > old THEN w.block + 1 ELSE old]
        /\ Goes(t, Idle)
        /\ UNCHANGED <<files, failed, tainted, raced>>

\* inode_bfree: the blocks under entry b, in the order they are freed.
Under0(b) == IF b = 0 THEN <<>> ELSE <<b>>
Leaves1(f, b) == FlattenSeq([k \in 1 .. Indexes |-> Under0(f.data[b][k - 1])])
Under1(f, b) == IF b = 0 THEN <<>> ELSE Leaves1(f, b) \o <<b>>
Under2(f, b) == IF b = 0 THEN <<>> ELSE FlattenSeq([k \in 1 .. Indexes |-> Under1(f, f.data[b][k - 1])]) \o <<b>>

inode_bfree(f, nr, s) ==
    LET b == f.zone[nr][s]
    IN  IF s < Direct THEN Under0(b) ELSE IF s = Direct THEN Under1(f, b) ELSE Under2(f, b)

\* With each block the slot that is cleared after it, if it is the slot's.
Frees(f, nr) ==
    LET slot(s) == LET bs == inode_bfree(f, nr, s - 1)
                   IN  [i \in DOMAIN bs |-> <<bs[i], IF i = Len(bs) THEN {s - 1} ELSE {}>>]
    IN  FlattenSeq([s \in 1 .. Direct + 2 |-> slot(s)])

KeepSlot(f, w) == f
ClearSlot(f, w) == [f EXCEPT !.zone[w.nr] = [s \in Slots |-> IF s \in w.freed THEN 0 ELSE @[s]]]

\* The inode is empty, and ifree gives back the number of one deleted.
Emptied(f, w) ==
    LET empty == IF w.nr \in f.special THEN f ELSE [f EXCEPT !.size[w.nr] = 0]
    IN  IF w.delete THEN [empty EXCEPT !.imap = @ \ {w.nr}, !.special = @ \ {w.nr}] ELSE empty

Left(w) == IF w.delete THEN files \ {w.nr} ELSE files

\* One bfree and its wait, after clearing the slot of the one before.
FreeNext(t, w) ==
    LET f == ClearSlot(fs, w)
    IN  IF w.todo = <<>>
        THEN /\ fs' = Emptied(f, w)
             /\ files' = Left(w) /\ Goes(t, Idle)
             /\ raced' = (raced \/ FreesMeet(t, w.nr))
             /\ UNCHANGED <<failed, tainted>>
        ELSE bfree(f, Head(w.todo)[1], LAMBDA g :
                 /\ fs' = g /\ files' = Left(w)
                 /\ Goes(t, [w EXCEPT !.todo = Tail(@), !.freed = Head(w.todo)[2]])
                 /\ raced' = (raced \/ FreesMeet(t, w.nr))
                 /\ UNCHANGED <<failed, tainted>>)

inode_truncate(t, nr, delete) ==
    /\ Takes(t, nr)
    /\ FreeNext(t, [pc |-> "truncate", nr |-> nr, delete |-> delete, freed |-> {},
                    todo |-> IF nr \in fs.special THEN <<>> ELSE Frees(fs, nr)])

Truncate(t) == Works(t, "truncate") /\ FreeNext(t, op[t])

-----------------------------------------------------------------------------
\* bmap.c:91 makes the map BLOCK_BITS bytes long, not BLOCK_SIZE, so that the scan
\* of a full map leaves its buffer. With one block of inode map (the assumption)
\* what it finds there fails an assertion, as finding nothing does.
FreeInodes == Bits(fs.desc.imap_blocks) \ fs.imap

\* The entry of a new file or of a device (mknod) gets the number of ialloc.
ialloc(t, special) ==
    /\ Works(t, "idle") /\ Cardinality(fs.imap \cap 1 .. fs.desc.inodes) <= MaxFiles
    /\ IF FreeInodes = {} \/ Min(FreeInodes) >= fs.desc.inodes THEN Fails(95)
       ELSE /\ fs' = [fs EXCEPT !.imap = @ \cup {Min(FreeInodes)}]
            /\ Goes(t, [pc |-> "create", nr |-> Min(FreeInodes), special |-> special])
            /\ UNCHANGED <<files, failed, tainted, raced>>

\* new_inode sets the size; the zone numbers stay what they were.
new_inode(t) ==
    LET nr == op[t].nr
    IN  /\ Works(t, "create")
        /\ files' = files \cup {nr}
        /\ fs' = IF op[t].special
                 THEN [fs EXCEPT !.size[nr] = 0, !.special = @ \cup {nr}, !.zone[nr][0] = Device]
                 ELSE [fs EXCEPT !.size[nr] = 0]
        /\ tainted' = (tainted \/ (~op[t].special /\ \E s \in Slots : fs.zone[nr][s] # 0))
        /\ Goes(t, Idle)
        /\ UNCHANGED <<failed, raced>>

Next ==
    \E t \in Tasks :
        \/ \E special \in BOOLEAN : ialloc(t, special)
        \/ new_inode(t)
        \/ \E nr \in files :
            \/ \E block \in 0 .. MaxBlock, create \in BOOLEAN : Start(t, nr, block, create)
            \/ \E delete \in BOOLEAN : inode_truncate(t, nr, delete)
        \/ BmapNext(t) \/ BmapAlloc(t)
        \/ inode_read(t) \/ \E word \in Words : inode_write(t, word)
        \/ Truncate(t)

Spec == Init /\ [][Next]_vars

-----------------------------------------------------------------------------
\* What the code does not protect itself from has not happened.
Kept == ~tainted /\ ~raced

\* The blocks a file uses, index blocks too.
BlocksOf(nr) ==
    IF nr \in fs.special THEN <<>> ELSE FlattenSeq([s \in 1 .. Direct + 2 |-> inode_bfree(fs, nr, s - 1)])

AtRest == files \ {op[t].nr : t \in {u \in Tasks : op[u].pc = "truncate"}}
Pending == {op[t].got : t \in {u \in Tasks : op[u].pc = "alloc"}}

\* Until an inode or index block is taken with old entries in it, or two tasks
\* meet at one hole or in one truncation, no block belongs to two files, twice to
\* one, or to a file and to a task that has just allocated it: whichever way the
\* readers and writers of the same and of different files, truncations and
\* deletions interleave.
BlocksExclusive ==
    Kept =>
        LET held == FoldSet(LAMBDA nr, s : BlocksOf(nr) \o s, <<>>, AtRest)
        IN  /\ IsInjective(held) /\ Pending \cap ToSet(held) = {}
            /\ \A t, u \in Tasks : t # u /\ {op[t].pc, op[u].pc} = {"alloc"} => op[t].got # op[u].got
            /\ \A b \in ToSet(held) \cup Pending : BitOf(fs, b) \in fs.zmap

\* The blocks after the maps and the inodes.
DataBlocks ==
    2 + fs.desc.imap_blocks + fs.desc.zmap_blocks + DivRoundUp(ICount, BlockInodes) .. Total - 1


\* The layout of mkfs and the arithmetic of the bitmaps agree: every block of a
\* file is on the device, after the maps and the inodes, and the number of every
\* file is taken in the inode map.
OnlyDataBlocks ==
    Kept =>
        /\ \A nr \in files : ToSet(BlocksOf(nr)) \subseteq DataBlocks
        /\ files \subseteq fs.imap \cap 1 .. fs.desc.inodes
=============================================================================
