--------------------------- MODULE MCKnowledgeBase ---------------------------
(* Small instances of KnowledgeBase for TLC.                               *)
EXTENDS KnowledgeBase, TLC

CONSTANTS w1, w2, h1, h2

WorkerSymmetry == Permutations({w1, w2})
=============================================================================
