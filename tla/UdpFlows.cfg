SPECIFICATION Spec
CONSTANTS
  a = a
  b = b
  Flow <- TwoFlows
  NoFlow = NoFlow
  QueueLimit <- Limits11
  Patterns = {"rate", "fast"}
  Counts = {1}
  Commands = {"ON", "MOD", "DST", "OFF", "SUSPEND", "RESUME", "RESET"}
  Results = {"OK", "BLOCKED", "FAILED"}
  ValidateEvents = TRUE
  OpenMayFail = FALSE
  PendingMessageLimit = 1
  MaxPending = 2
  MaxReferences = 3
INVARIANTS ReferencesMatch BacklogQueued SuspendedTimerOff SentWithinCount
SYMMETRY Symmetric
CHECK_DEADLOCK FALSE
