SPECIFICATION FairSpec
CONSTANTS
  a = a
  b = b
  Flow <- TwoFlows
  NoFlow = NoFlow
  QueueLimit <- Limits10
  Fast = {b}
  Counts <- CountsMC
  RetryCount = 1
  Writes = {"whole", "part", "error", "lost"}
  Tidy = TRUE
  PendingMessageLimit <- NoLimit
  MaxPending = 1
  MaxFailures = 2
INVARIANTS ReferencesMatch OwnMessage NoGap NoLostWakeup
PROPERTIES OffCompletes
CHECK_DEADLOCK FALSE
