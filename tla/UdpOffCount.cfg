SPECIFICATION FairSpec
CONSTANTS
  a = a
  b = b
  Flow <- TwoFlows
  NoFlow = NoFlow
  QueueLimit <- Limits12
  Patterns = {"rate"}
  Counts = {1}
  Commands = {"ON", "OFF"}
  Results = {"OK", "BLOCKED"}
  ValidateEvents = TRUE
  OpenMayFail = FALSE
  PendingMessageLimit = 1
  MaxPending = 3
  MaxReferences = 4
PROPERTIES OffCompletes
CHECK_DEADLOCK FALSE
