SPECIFICATION MCSpec
CONSTANTS
  Options = {"TOS", "TTL", "INTERFACE"}
  Sharers = {1, 2}
  Ports = {0, 5}
  Destinations <- HostAndGroup
  Values = {0, 2}
  Default = 1
  MovesWithTtl = FALSE
  MaxMade = 2
  Flow = {f}
  Group = {g1, g2}
  Port = {5000}
  Interface = {eth}
  NoInterface = none
  IP_MAX_MEMBERSHIPS = 2
  OpenAnswers = {TRUE}
  JoinAnswers = {TRUE, FALSE}
  Tidy = TRUE
  MaxTransports = 2
  MaxGroups = 3
INVARIANTS ReferencesMatch StillHeard ToldApplied
SYMMETRY Symmetric
CHECK_DEADLOCK FALSE
