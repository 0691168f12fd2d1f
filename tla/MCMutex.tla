------------------------------- MODULE MCMutex -------------------------------
(* Instances of Mutex: four clients of one lock, or three.                   *)
EXTENDS Mutex
=============================================================================
