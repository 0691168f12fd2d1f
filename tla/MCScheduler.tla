----------------------------- MODULE MCScheduler -----------------------------
(* Instances of Scheduler: the idle task and two or three others, whose      *)
(* slices are shorter than the five ticks of task_init so that several of    *)
(* them end within the bound of the clock.                                   *)
EXTENDS Scheduler

MCPriority == [t \in Tasks |-> IF t = Idle THEN 1 ELSE 2]
=============================================================================
