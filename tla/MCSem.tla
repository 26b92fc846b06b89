------------------------------- MODULE MCSem --------------------------------
(* Two tasks, a semaphore of the application and one of the timers. *)
EXTENDS OSSem, TLC

CONSTANTS high, low, idle, sem, tmr

MCTask == {high, low}
MCInitPrio == high :> 1 @@ low :> 2
=============================================================================
