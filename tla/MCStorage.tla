----------------------------- MODULE MCStorage -----------------------------
(* A disk of 9 blocks: 3 are left for files, and inodes for two files.       *)
(* The contents of a block matter while it is in use, and afterwards if they *)
(* are not zero.                                                             *)
EXTENDS Storage, TLC

Clean == Kept
Same == Permutations(Tasks)

At(t) == op[t].pc \in {"bmap", "alloc"} /\ op[t].buf # 0
Used(b) == \/ b < fs.desc.firstdatazone \/ BitOf(fs, b) \in fs.zmap
           \/ \E t \in Tasks : At(t) /\ op[t].buf = b
\* What counts of a walk to the block of a file: a reader has the inode behind it.
Ahead(o) ==
    CASE o.pc = "found" /\ o.create -> [nr |-> o.nr, buf |-> o.buf, block |-> o.block]
      [] o.pc = "found" /\ ~o.create -> [found |-> o.buf # 0]
      [] o.pc = "bmap" /\ ~o.create -> [o EXCEPT !.nr = 0, !.block = 0]
      [] OTHER -> o

\* A state that is not Kept, or with the kernel stopped, has no more to show.
Seen ==
    IF ~Kept \/ failed # 0 THEN <<Kept, failed>>
    ELSE <<fs.imap, fs.zmap, fs.zone, fs.size, fs.special,
           [b \in DOMAIN fs.data |->
                IF Used(b) THEN fs.data[b] ELSE \E k \in DOMAIN fs.data[b] : fs.data[b][k] # 0],
           files, [t \in Tasks |-> Ahead(op[t])]>>
=============================================================================
