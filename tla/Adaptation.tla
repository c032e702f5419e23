------------------------------ MODULE Adaptation ------------------------------
(***************************************************************************)
(* The single baseline while the same healthy vector keeps arriving:       *)
(* UpdateBaseline (internal/domain/knowledge_base.go) blends it in each    *)
(* time at the rate of --decay-rate.                                       *)
(***************************************************************************)
EXTENDS Vectors

CONSTANT DecayRate   \* a fraction; 0 switches learning off, 1 replaces the baseline

VARIABLES
  baseline,  \* kb.Baseline
  healthy    \* the vector of the line that is now normal

vars == <<baseline, healthy>>

Init == baseline \in HVector /\ healthy \in HVector

UpdateBaseline ==
  /\ baseline' = DecayBlend(baseline, healthy, DecayRate)
  /\ UNCHANGED healthy

Next == UpdateBaseline

(* The line keeps coming.                                                  *)
FairSpec == Init /\ [][Next]_vars /\ WF_vars(UpdateBaseline)

(* The baseline adapts: "simulating gradual convergence" (decay.go:8),     *)
(* "on average, a bit flips after ~1000 identical updates" (decay.go:12).  *)
(* When int(alpha * 64) is 0 only every int(1/alpha)-th block moves, always*)
(* the same ones, and the others keep their bits for ever.                 *)
BaselineConverges == <>(baseline = healthy)
=============================================================================
