------------------------------- MODULE MCTask -------------------------------
(* Three tasks and the three priorities they start with. *)
EXTENDS OSTask, TLC

CONSTANTS high, mid, low, idle, sem

MCTasks == {high, mid, low}
MCInitPrio == high :> 1 @@ mid :> 2 @@ low :> 3
=============================================================================
