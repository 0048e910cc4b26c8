SPECIFICATION InferSpec
CONSTANTS
  Entries <- MCEntities
  Client = "app"
  PointOwners = {"edge", "store"}
  Consumers <- MCConsumers
  FirstEdge = "edge"
  Statements <- MCStatements
  Lines <- MCLines
  MaxStatements = 3
  MaxLines = 1
 
INVARIANT EvidenceIsKept
INVARIANT InferredContractIsAccepted
 
CHECK_DEADLOCK FALSE
