SPECIFICATION Spec
CONSTANTS
  a = a
  b = b
  Flow <- TwoFlows
  NoFlow = NoFlow
  QueueLimit <- Limits10
  Fast = {b}
  Counts <- CountsMC
  RetryCount = 1
  Writes = {"whole", "part", "error", "lost"}
  Tidy = FALSE
  PendingMessageLimit <- NoLimit
  MaxPending = 1
  MaxFailures = 2
INVARIANTS ClosedUnused
CHECK_DEADLOCK FALSE
