SPECIFICATION FairSpec
CONSTANTS
  Menu <- FewCommands
  Scripts <- SampleScripts
  MaxCommands = 2
  Peer = FALSE
PROPERTIES Answered
CHECK_DEADLOCK FALSE
