----------------------------- MODULE MCBuffers -----------------------------
(***************************************************************************)
(* Small instances of Buffers for TLC: buffers of one size, as the program *)
(* configures them (main.cpp), and of two sizes.                           *)
(***************************************************************************)
EXTENDS Buffers, TLC

CONSTANTS t1, t2, b1, b2, b3, b4

OneLength  == <<256>>
OneCode    == [b \in {b1, b2, b3} |-> 1]

TwoLengths == <<64, 256>>
TwoCodes   == b1 :> 1 @@ b2 :> 1 @@ b3 :> 2
ThreeCodes == b1 :> 1 @@ b2 :> 1 @@ b3 :> 2 @@ b4 :> 2

Symmetry == Permutations(Thread)
=============================================================================
