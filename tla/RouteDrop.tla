------------------------------ MODULE RouteDrop ------------------------------
(***************************************************************************)
(* What a fleet-descent phase promises: it is given a complete solution    *)
(* and hands back the same one, or a complete one with fewer routes.       *)
(* Whatever happens inside (ejections, budgets, roll-backs, the deadline)  *)
(* is not seen.                                                            *)
(***************************************************************************)
EXTENDS Naturals, FiniteSets

CONSTANT Complete(_)   \* the sets of routes that serve every client once

VARIABLES sol, running

Init == Complete(sol) /\ running = FALSE

\* between phases the search goes wherever it goes
Begin == ~running /\ running' = TRUE /\ Complete(sol')

End ==
  /\ running /\ running' = FALSE
  /\ \/ UNCHANGED sol
     \/ Complete(sol') /\ Cardinality(sol') < Cardinality(sol)

Spec == Init /\ [][Begin \/ End]_<<sol, running>>
=============================================================================
