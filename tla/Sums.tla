-------------------------------- MODULE Sums --------------------------------
(***************************************************************************)
(* Sums over finite sets: Array.reduce((acc, x) => acc + x, 0) and the     *)
(* loops that add up.                                                      *)
(***************************************************************************)
EXTENDS Integers, Functions

SumOf(F) == FoldFunction(+, 0, F)

=============================================================================
