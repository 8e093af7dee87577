SPECIFICATION Spec
CONSTANTS
  None = None
  Monolith = "skello-app"
  Service = "svc"
  Libs = "libs"
  Repos = {"skello-app", "svc"}
  SvcNamed = {"svc"}
  AbstractControllers = {"base"}
  Alike <- MCAlike
  References <- MCReferences
  Top = Top
  Absent = Absent
  MaxEdits = 2
  CodeStates <- MCStates
  Starts <- MCStarts
  FirstMachine <- MCFirst
  Listeners <- MCListeners
  Tables <- MCTables
  Services <- MCServices
  Resource = "table"
  Connections <- MCConnections
  Relations <- MCRelations
  MaxHops = 2
INVARIANT FindingsAreTheDrift
INVARIANT VerdictsAreTrue
INVARIANT AlsoChangesAreTheChains
INVARIANT ImpactIsExact
CHECK_DEADLOCK FALSE
