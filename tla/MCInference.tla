----------------------------- MODULE MCInference -----------------------------
(* Small instances of Inference for TLC.                                   *)
EXTENDS Inference, TLC

CONSTANTS w1, w2, l1, l2, l3, l4

WorkerSymmetry == Permutations({w1, w2})
=============================================================================
