SPECIFICATION FairSpec
CONSTANTS
  a = a
  b = b
  Flow <- TwoFlows
  NoFlow = NoFlow
  QueueLimit <- Limits12
  Patterns = {"rate"}
  Counts = {}
  Commands = {"ON", "MOD", "DST", "OFF"}
  Results = {"OK", "BLOCKED", "FAILED"}
  ValidateEvents = TRUE
  OpenMayFail = FALSE
  PendingMessageLimit = 1
  MaxPending = 3
  MaxReferences = 4
PROPERTIES OffCompletes BacklogServed
CHECK_DEADLOCK FALSE
