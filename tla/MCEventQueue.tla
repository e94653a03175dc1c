---------------------------- MODULE MCEventQueue ----------------------------
(* EventQueue with four events of two priorities, one of which is negative,  *)
(* as CPU_Switch_Pri is.                                                     *)
EXTENDS EventQueue, TLC

CONSTANTS a, b, c, d

Priorities == (a :> 0) @@ (b :> 0) @@ (c :> 0) @@ (d :> -1)

Alike == Permutations({a, b, c})
=============================================================================
