------------------------------ MODULE MCWorlds ------------------------------
(* Instances of Worlds for TLC. *)
EXTENDS Worlds, TLC

\* Bound: what follows once two have changed one world at once is left out,
\* since no property speaks of it; one snapshot is deleted by hand, one world
\* left in disorder, or one server outlives the manager.
Bounded ==
  /\ mixed = {} /\ Cardinality(byHand) + Cardinality(torn) + Cardinality(strays) <= 1

\* The two files of a world are interchangeable.
Symmetric == Permutations(Files)
=============================================================================
