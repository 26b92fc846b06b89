------------------------------- MODULE MCPool -------------------------------
(* Three tasks, an event that is a mailbox or a queue of two, two blocks. *)
EXTENDS OSPool, TLC

CONSTANTS high, mid, low, idle, chan, b1, b2

MCTask == {high, mid, low}
MCInitPrio == high :> 1 @@ mid :> 2 @@ low :> 3
Blocks == Permutations({b1, b2})
=============================================================================
