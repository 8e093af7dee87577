SPECIFICATION DiscoverySpec
CONSTANTS
  Repos = {1, 2}
  CodeRepos = {1}
  Monolith = 1
  FlagSets <- ScriptFlags
  MaxCommit = 2
  Fetching = {TRUE}
  MaxRuns = 2
  Branched = {1}
  Moves = {"clone", "none"}
  OthersFetch = {}
  Wip = Wip
  Broken = Broken
  Absent = Absent
PROPERTY RefusesMissingMonolith
