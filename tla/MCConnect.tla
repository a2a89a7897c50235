----------------------------- MODULE MCConnect -----------------------------
(***************************************************************************)
(* Model checking ChannelConnect: processes are interchangeable, and so    *)
(* are the objects the kernel hands out.                                   *)
(***************************************************************************)
EXTENDS ChannelConnect, TLC

Symmetry == Permutations(Procs) \cup Permutations(Regions)
=============================================================================
