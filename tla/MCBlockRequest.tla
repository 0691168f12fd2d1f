--------------------------- MODULE MCBlockRequest ---------------------------
(* Instances of BlockRequest: two disks of one controller and three tasks.   *)
(* idx is read of linked requests only, disk of a task inside a transfer.    *)
EXTENDS BlockRequest

Symmetry ==
    Permutations(DirectUsers \ Exiters) \cup Permutations(Disks)

InTransfer(t) == pc[t] \in {"queued", "lock", "sector", "finish"}

Seen ==
    <<current, state, request_list, direct, controller, exiting, pc, left,
      [t \in Tasks |-> IF InTransfer(t) THEN <<disk[t], IF disk[t] = None THEN 0 ELSE idx[t]>>
                       ELSE <<None, 0>>]>>
=============================================================================
