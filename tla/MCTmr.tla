-------------------------------- MODULE MCTmr --------------------------------
(* Three timers on two spokes, the time wrapping after five ticks: one-shot  *)
(* timers, and periodic ones that start with their period.                   *)
EXTENDS OSTmr

MCKind == {[dly |-> 2, period |-> 0, periodic |-> FALSE],
           [dly |-> 0, period |-> 3, periodic |-> TRUE]}
=============================================================================
