------------------------------- MODULE MCMaps -------------------------------
(***************************************************************************)
(* Model checking of MapSystem: the second map has padded values, the      *)
(* third ends before the second key.                                       *)
(***************************************************************************)
EXTENDS MapSystem

MapSizes == [id \in 1 .. MaxMaps |-> IF id = 3 THEN 1 ELSE 2]
=============================================================================
