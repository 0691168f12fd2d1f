---------------------------- MODULE AbstractLock ----------------------------
(***************************************************************************)
(* What lock_acquire and lock_release promise their callers: a lock has at *)
(* most one owner, the owner may acquire it again, and it becomes free     *)
(* when the owner has released it as often as it acquired it.              *)
(***************************************************************************)
EXTENDS Naturals

CONSTANTS Tasks, None

VARIABLES
    owner,  \* the task that has the lock, or None
    depth   \* how many releases it owes

lockVars == <<owner, depth>>

LockInit == owner = None /\ depth = 0

Acquire(t) ==
    /\ owner \in {None, t}
    /\ owner' = t
    /\ depth' = depth + 1

Release(t) ==
    /\ owner = t
    /\ depth' = depth - 1
    /\ owner' = IF depth = 1 THEN None ELSE t

LockNext == \E t \in Tasks : Acquire(t) \/ Release(t)

LockSpec == LockInit /\ [][LockNext]_lockVars
=============================================================================
