--------------------------------- MODULE Totals ---------------------------------
(* SUM, in the queries and over the counters of the replicas. *)
EXTENDS Integers, FiniteSets, Functions

\* The sum of the values g takes.
Total(g) == FoldFunction(+, 0, g)
=================================================================================
