------------------------------- MODULE MCFlag --------------------------------
(* Two groups of two flags: in the first nobody waits for a flag to be clear, *)
(* and the flags may be consumed.                                            *)
EXTENDS OSFlag, TLC

CONSTANTS high, mid, low, idle, a, b

MCTask == {high, mid, low}
MCInitPrio == high :> 1 @@ mid :> 2 @@ low :> 3

Ask(flags, sense, all, consume) ==
  [flags |-> flags, type |-> [sense |-> sense, all |-> all, consume |-> consume]]

MCAsks == << {Ask({a, b}, "SET", TRUE, TRUE), Ask({a, b}, "SET", FALSE, TRUE)},
             {Ask({a}, "CLR", TRUE, FALSE)} >>
MCPosts == << {{a}, {b}}, {{a}} >>
=============================================================================
