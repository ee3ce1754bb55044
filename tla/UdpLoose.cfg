SPECIFICATION Spec
CONSTANTS
  a = a
  b = b
  Flow <- TwoFlows
  NoFlow = NoFlow
  QueueLimit <- Limits12
  Patterns = {"rate"}
  Counts = {}
  Commands = {"ON", "MOD", "DST", "OFF"}
  Results = {"OK", "BLOCKED", "FAILED"}
  ValidateEvents = FALSE
  OpenMayFail = TRUE
  PendingMessageLimit = 1
  MaxPending = 2
  MaxReferences = 3
INVARIANTS RoundRobin
CHECK_DEADLOCK FALSE
