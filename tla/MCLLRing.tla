------------------------------ MODULE MCLLRing ------------------------------
(***************************************************************************)
(* Model checking LLRing: threads of one kind are interchangeable, and so  *)
(* are the values, which the ring never looks at.                          *)
(***************************************************************************)
EXTENDS LLRing, TLC

Symmetry ==
  Permutations(Producers) \cup Permutations(Consumers) \cup Permutations(Values)
=============================================================================
