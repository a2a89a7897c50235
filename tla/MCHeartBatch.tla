---------------------------- MODULE MCHeartBatch ----------------------------
(***************************************************************************)
(* HeartBatch with frames that are model values.  No action compares two   *)
(* frames but for equality, so they may be permuted.                       *)
(***************************************************************************)
EXTENDS HeartBatch, TLC

CONSTANTS f0, f1, f2, f3

MCFrameAt == 0 :> f0 @@ 1 :> f1 @@ 2 :> f2 @@ 3 :> f3
Symmetry  == Permutations({f0, f1, f2, f3})
=============================================================================
