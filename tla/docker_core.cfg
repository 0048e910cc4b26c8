SPECIFICATION Spec
CONSTANTS
  Configs <- MCConfigs
  FirstHost = 11
  Room = 5
  PortOverrides = {0}
  Answers = {99}
  RestartRaces = FALSE
  MayKill = TRUE
  MaxInits = 2
  MaxUps = 2
  MaxCrashes = 1
  MaxEdits = 1
INVARIANT AddressesAgree
 
PROPERTY SecretsAreKept
PROPERTY StackComesUp
CHECK_DEADLOCK FALSE
