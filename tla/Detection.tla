------------------------------ MODULE Detection ------------------------------
(***************************************************************************)
(* What Inference.Run promises, without goroutines, channels or locks.     *)
(* Every line that is delivered is judged at most once and never forgotten;*)
(* the model learns healthy lines only, each at most once and in the order *)
(* in which they were accepted; the file holds a state the model was in;   *)
(* and the detector stops only when it owes nothing.                       *)
(***************************************************************************)
EXTENDS Naturals, Sequences

CONSTANTS Lines, Blank

VARIABLES
  delivered,   \* lines taken from the log files
  verdict,     \* what was decided about each
  pending,     \* accepted for learning, in order, and not yet learned
  learned,     \* updates blended into the model, in order
  stored,      \* the model last written to disk
  stopped      \* detection is over

vars == <<delivered, verdict, pending, learned, stored, stopped>>

Outcomes(l) == IF l \in Blank THEN {"blank"} ELSE {"anomaly", "healthy"}

Taken == {pending[i] : i \in DOMAIN pending} \cup {learned[i] : i \in DOMAIN learned}

Init ==
  /\ delivered = {}
  /\ verdict = [l \in Lines |-> "none"]
  /\ pending = <<>>
  /\ learned = <<>>
  /\ stored = <<>>
  /\ stopped = FALSE

Deliver(l) ==
  /\ ~stopped
  /\ l \notin delivered
  /\ delivered' = delivered \cup {l}
  /\ UNCHANGED <<verdict, pending, learned, stored, stopped>>

Judge(l) ==
  /\ ~stopped
  /\ l \in delivered
  /\ verdict[l] = "none"
  /\ \E v \in Outcomes(l) : verdict' = [verdict EXCEPT ![l] = v]
  /\ UNCHANGED <<delivered, pending, learned, stored, stopped>>

Accept(l) ==
  /\ ~stopped
  /\ verdict[l] = "healthy"
  /\ l \notin Taken
  /\ pending' = Append(pending, l)
  /\ UNCHANGED <<delivered, verdict, learned, stored, stopped>>

Learn ==
  /\ ~stopped
  /\ pending # <<>>
  /\ learned' = Append(learned, Head(pending))
  /\ pending' = Tail(pending)
  /\ UNCHANGED <<delivered, verdict, stored, stopped>>

Store ==
  /\ stored' = learned
  /\ UNCHANGED <<delivered, verdict, pending, learned, stopped>>

Stop ==
  /\ \A l \in delivered : verdict[l] # "none"
  /\ pending = <<>>
  /\ stopped' = TRUE
  /\ UNCHANGED <<delivered, verdict, pending, learned, stored>>

Next ==
  \/ \E l \in Lines : Deliver(l) \/ Judge(l) \/ Accept(l)
  \/ Learn
  \/ Store
  \/ Stop

Spec == Init /\ [][Next]_vars
=============================================================================
