---------------------------- MODULE MCTailReader ----------------------------
(* Small instances of TailReader for TLC: one file long enough for an entry*)
(* to overflow, and one that competes with it for the channel.             *)
EXTENDS TailReader

CONSTANTS fa, fb

MCFileLen == [f \in Files |-> IF f = fa THEN 3 ELSE 1]
=============================================================================
