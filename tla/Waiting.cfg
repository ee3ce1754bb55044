SPECIFICATION MCSpec
CONSTANTS
  f1 = f1
  f2 = f2
  f3 = f3
  f4 = f4
  Flow <- TwoFlows
  NoFlow = NoFlow
  LinkedFlow <- FourFlows
  QueueLimit <- LimitOneNone
  Patterns = {"rate", "zero", "fast"}
  Counts = {}
  Commands = {"ON", "MOD", "DST", "OFF", "SUSPEND", "RESUME"}
  Results = {"OK", "BLOCKED"}
  ValidateEvents = TRUE
  OpenMayFail = FALSE
  PendingMessageLimit = 1
  MaxPending = 2
  MaxReferences = 3
  Transport = {t1, t2}
  NoTransport = NoTransport
  MovesWaiting = FALSE
  SinkLimit = 1
  MinSize = 3
  MaxSize = 5
  Lengths = {3, 5}
  PipeSize = 4
  Modulus = 6
  MaxWaiting = 2
INVARIANTS NoLostWakeup Framed
PROPERTIES RefinesQueues Arrives
CHECK_DEADLOCK FALSE
