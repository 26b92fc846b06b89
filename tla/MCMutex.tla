------------------------------ MODULE MCMutex -------------------------------
(* Three tasks, one of them above one of the two ceilings, and two mutexes. *)
EXTENDS OSMutex, TLC

CONSTANTS high, mid, low, idle, m1, m2

MCTask == {high, mid, low}
MCInitPrio == high :> 1 @@ mid :> 3 @@ low :> 4
Mutexes == Permutations({m1, m2})
=============================================================================
