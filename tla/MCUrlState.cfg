SPECIFICATION Spec
CONSTANTS
  svc = svc
  area = area
  term = term
  flow = flow
  unit = unit
  store = store
  route = route
  flag = flag
  file = file
  resource = resource
  bucket = bucket
  call = call
  event = event
  team = team
  Gone = Gone
  flow2 = flow2
  MONOLITH = MONOLITH
  None = None
  Services <- MCServices
  Areas = {area}
  Teams = {team}
  Flows = {flow, flow2}
  Flags = {flag}
  Files = {file}
  Resources = {resource, bucket}
  FromService <- MCFromService
  AreaOfTerm <- MCAreaOfTerm
  FlowOfUnit <- MCFlowOfUnit
  ServiceOfEndpoint <- MCServiceOfEndpoint
  FlowNodes = {svc}
  Links <- MCLinks
  MaxEntries = 2
  MaxAsked = 2
INVARIANT EntryShowsWhatWasLeft
PROPERTY BackStaysInside
PROPERTY PickLandsOnItsPage
