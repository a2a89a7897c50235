------------------------------- MODULE MCHeart -------------------------------
(***************************************************************************)
(* Heart with frames of size one.                                          *)
(***************************************************************************)
EXTENDS Heart

MCFrameAt == [i \in 0 .. FillSize - 1 |-> i]
==============================================================================
