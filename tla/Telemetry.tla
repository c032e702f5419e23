------------------------------ MODULE Telemetry ------------------------------
(***************************************************************************)
(* RealTelemetryClient (internal/infrastructure/grpc/telemetry_client.go): *)
(* every report and every heartbeat is a call in a goroutine of its own,   *)
(* with a deadline of two seconds and nobody who waits for it.  The        *)
(* control plane may answer, late, or never.                               *)
(***************************************************************************)
EXTENDS Naturals

CONSTANTS
  Agents,     \* the processes with a client
  Anomalies,  \* lines each may report
  Beat        \* the call that is a heartbeat; at most one is under way

VARIABLES
  calls,   \* what became of each agent's calls
  open     \* the agents whose connection is open

telemetryVars == <<calls, open>>

Calls == Anomalies \cup {Beat}

TelemetryInit ==
  /\ calls = [a \in Agents |-> [c \in Calls |-> "none"]]
  /\ open = {}

Dial(a) == open' = open \cup {a} /\ UNCHANGED calls

(* ReportAnomaly or SendHeartbeat: on a closed connection it fails at once.*)
Call(a, c) ==
  /\ calls[a][c] = "none" \/ (c = Beat /\ calls[a][c] # "flying")
  /\ calls' = [calls EXCEPT ![a][c] = IF a \in open THEN "flying" ELSE "failed"]
  /\ UNCHANGED open

Answer(a, c) ==
  /\ calls[a][c] = "flying"
  /\ calls' = [calls EXCEPT ![a][c] = "received"]
  /\ UNCHANGED open

(* The deadline, or the connection is refused.                             *)
Expire(a, c) ==
  /\ calls[a][c] = "flying"
  /\ calls' = [calls EXCEPT ![a][c] = "failed"]
  /\ UNCHANGED open

(* Close cancels what is in flight.                                        *)
Close(a) ==
  /\ open' = open \ {a}
  /\ calls' = [calls EXCEPT ![a] =
                 [c \in Calls |-> IF @[c] = "flying" THEN "failed" ELSE @[c]]]

TelemetryTypes ==
  /\ calls \in [Agents -> [Calls -> {"none", "flying", "received", "failed"}]]
  /\ open \subseteq Agents
=============================================================================
