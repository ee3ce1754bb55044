SPECIFICATION MCSpec
CONSTANTS
  Flow = {a, b}
  Drec = drec
  Times = {0, 1, 2}
  Offsets = {1}
  StartDelays = {1}
  LateNow = FALSE
  LateFlows = FALSE
  RetryDelays = {1}
  LateRetries = FALSE
  MaxEvents = 3
  MaxStarts = 2
  MaxFile = 6
  LineMax = 4
  MaxInput = 6
  MaxCommand = 3
  MaxCommands = 2
  EventLines <- SampleLines
  MaxPort = 8
  MaxByte = 3
  SequenceModulus = 8
  MIN_SIZE = 1
  MAX_SIZE = 8
  MIN_FRAG_SIZE = 2
  MAX_FLOW = 4
  DrecLines <- SampleDrecs
  PortModulus = 5
  Menu <- SampleMenu
  Scripts <- SampleScripts
  Pattern <- SamplePatterns
  Changed <- Periodic
  Draws = {1, 9}
  Delays = {0, 1}
  MaxCalls = 5
  Cloners = {"f", "g"}
  Modified = {"g"}
  CloneLines <- SampleCloned
  Recordings <- SampleTraces
  Second = 3
  MaxSent = 8
INVARIANTS OnceInOrder OnTime ReadAsWritten LinesMeant Overrides OneFormat SuspendedAsTold Paced
PROPERTIES AllExecuted
CHECK_DEADLOCK FALSE
