---------------------------- MODULE MCFollower ----------------------------
(***************************************************************************)
(* Instances of Follower for TLC.  Rows r1 and r2 are triggers of their    *)
(* own; r3 repeats r1's dedup key.                                         *)
(***************************************************************************)
EXTENDS Follower, TLC

CONSTANTS r1, r2, r3, k1, k2

TwoRows == {r1, r2}
ThreeRows == {r1, r2, r3}
Keys == {k1, k2}
DistinctKeys == (r1 :> k1) @@ (r2 :> k2)
SharedKey == (r1 :> k1) @@ (r2 :> k2) @@ (r3 :> k1)
=============================================================================
