-------------------------------- MODULE Orders --------------------------------
(***************************************************************************)
(* The loops over a list that pass over some of its elements keep the      *)
(* others in their order.                                                  *)
(***************************************************************************)
EXTENDS Naturals, FiniteSets

\* The numbers in S in ascending order; one sequence for a finite set.
Ordered(S) ==
    {o \in [1..Cardinality(S) -> S] : \A a, b \in DOMAIN o : a < b => o[a] < o[b]}
=============================================================================
