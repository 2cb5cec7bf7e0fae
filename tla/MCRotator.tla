----------------------------- MODULE MCRotator -----------------------------
(***************************************************************************)
(* An instance of Rotator for TLC.  Ten basis points stand for ten         *)
(* thousand, with the caps in the code's order: no cap lets cash go from   *)
(* everything to its maximum.  s1 is long only, s2 has a short, s3 lacks   *)
(* confidence.                                                             *)
(***************************************************************************)
EXTENDS Rotator, TLC

Universe == <<"CASH", "a", "b">>
MCSignal == {"s1", "s2", "s3"}
MCWeights ==
  [s \in MCSignal |->
     IF s = "s2" THEN ("CASH" :> 2) @@ ("a" :> 5) @@ ("b" :> -3)
                 ELSE ("CASH" :> 3) @@ ("a" :> 3) @@ ("b" :> 4)]
MCConfident == {"s1", "s2"}
\* A vault that is all idle, as a new one is, and one that is not.
MCVaults ==
  {[alloc |-> ("CASH" :> 0) @@ ("a" :> 0) @@ ("b" :> 0), idle |-> Nav],
   [alloc |-> ("CASH" :> 8) @@ ("a" :> 7) @@ ("b" :> 11), idle |-> Nav - 26]}
=============================================================================
