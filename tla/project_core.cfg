SPECIFICATION Spec
CONSTANTS
  Names <- MCNames
  PointOrder <- MCPointOrder
  MeshPorts <- MCMeshPorts
  AddedTypes <- MCAddedTypes
  MonitorNames <- MCMonitorNames
  ConsoleOf <- MCConsoleOf
  EntityEdits <- MCEntityEdits
  TopEdits <- MCTopEdits
  WrittenPoints <- MCWrittenPoints
  WrittenBundles <- MCWrittenBundles
  WrittenRoutes <- MCWrittenRoutes
  PointConsumers <- MCPointConsumers
  ProviderEntities <- MCProviderEntities
  MaxEdits = 2
  MaxCommands = 2
CONSTRAINT OnePassing
CHECK_DEADLOCK FALSE
INVARIANT CheckedProjectGenerates
 
INVARIANT ConsoleIsOperatorsOnly
INVARIANT SecretsHaveOneKeeper
PROPERTY ScaffoldsOnlyAdd
PROPERTY CheckedStaysChecked
