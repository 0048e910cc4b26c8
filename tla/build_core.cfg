SPECIFICATION Spec
CONSTANTS
  Services <- MCServices
  EdgeName = 1
  Consumption <- MCConsumption
  Requests <- MCPlain
  DevRequests <- MCDev
  ClientOwnsItsTop = FALSE
  ConfigureMayFail = TRUE
  MayInterrupt = TRUE
  OtherTerminal = FALSE
  MaxEdits = 2
  MaxCommands = 2
INVARIANT RebuildReachesTheProcesses
 
PROPERTY BuildDelivers
PROPERTY ChangesAreTakenUp
CHECK_DEADLOCK FALSE
