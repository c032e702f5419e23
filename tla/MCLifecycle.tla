----------------------------- MODULE MCLifecycle -----------------------------
(* Instances of Lifecycle for TLC; the constants are in the cfg files.     *)
EXTENDS Lifecycle
=============================================================================
