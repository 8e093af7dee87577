SPECIFICATION ImpactSpec
CONSTANTS
  Services <- MCServices
  Resource = "table"
  Connections <- MCConnections
  Relations <- MCRelations
  MaxHops = 2
INVARIANT HardFailuresAreTheSyncChain
