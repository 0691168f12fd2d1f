------------------------------ MODULE MCFiles ------------------------------
(* Two tasks, two inodes besides the root's, one open file.  What a free     *)
(* inode and a free file hold makes no difference.                           *)
EXTENDS Files, TLC

Same == Permutations(Names)
Seen == <<imap, [n \in imap |-> node[n]],
          [n \in {m \in imap : node[m].kind = "dir"} |-> entry[n]],
          [f \in 1 .. FileNr |-> IF table[f].count = 0 THEN 0 ELSE table[f]],
          fds, alive, op, opened>>
=============================================================================
