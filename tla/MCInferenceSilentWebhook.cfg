\* One line, whose alert the webhook may leave unanswered.
SPECIFICATION SilentWebhookSpec
CONSTANTS
  l1 = l1
  l2 = l2
  l3 = l3
  l4 = l4
  w1 = w1
  w2 = w2
  NoLine = NoLine
  Lines = {l1}
  Blank = {}
  Workers = {w1}
  StreamCap = 1
  UpdatesCap = 1
  MaxAutoSaves = 0
  DecayOn = TRUE
  Persist = TRUE
  ClusterOn = TRUE
  TelemetryOn = TRUE
PROPERTIES
  ShutdownCompletes
