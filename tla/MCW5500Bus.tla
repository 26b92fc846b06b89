---------------------------- MODULE MCW5500Bus ----------------------------
(* The handler, one task that it interrupts and one below that. *)
EXTENDS W5500Bus, TLC

CONSTANTS EXTI3, SNMP, CheckLink

MCRank == EXTI3 :> 3 @@ SNMP :> 2 @@ CheckLink :> 1
=============================================================================
