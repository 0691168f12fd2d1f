------------------------------ MODULE MCProcess ------------------------------
(* Instances of Process: idle, init and two or three slots for processes.    *)
(* waitpid is read of a task that is inside task_waitpid only.               *)
EXTENDS Process

MCBoot == 99
MCAny == -1

Seen ==
    <<current, state, ppid, pc, torn,
      [t \in Tasks |-> IF pc[t] = "waiting" THEN waitpid[t] ELSE Idle]>>
=============================================================================
