SPECIFICATION DiscoverySpec
CONSTANTS
  Repos = {1, 2}
  CodeRepos = {1}
  Monolith = 1
  FlagSets <- ScriptFlags
  MaxCommit = 2
  Fetching = {TRUE}
  MaxRuns = 2
  Branched = {1}
  Moves = {"clone", "dir", "none"}
  OthersFetch = {}
  Wip = Wip
  Broken = Broken
  Absent = Absent
INVARIANT HonestFiles
INVARIANT GraphsOfTheSameCommit
PROPERTY GreenMeansBaseline
PROPERTY CutGraphStops
