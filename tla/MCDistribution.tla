---------------------------- MODULE MCDistribution ----------------------------
(* Model-checking instance of Distribution: the node and one originator, two   *)
(* receipts, a pool large enough for a tenth of it to be worth paying.         *)
EXTENDS Distribution, TLC

Symmetry == Permutations(ReceiptNodes)
=============================================================================
