----------------------------- MODULE MCAdaptation -----------------------------
(* Three words of two bits at the rate 1/4: as for 157 words of 64 bits at *)
(* 0.001, no bit of a block is due at once and the period is longer than   *)
(* the vector.                                                             *)
EXTENDS Adaptation

MCRate == [num |-> 1, den |-> 4]
=============================================================================
