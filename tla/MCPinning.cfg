SPECIFICATION Spec
CONSTANTS
  Repos = {1, 2}
  CodeRepos = {1}
  MaxCommit = 2
  Fetching = {TRUE, FALSE}
  Branched = {1}
  Moves = {"clone", "dir"}
  OthersFetch = {1}
  Wip = Wip
  Broken = Broken
  Absent = Absent
INVARIANT PinOnDisk
INVARIANT FreshPin
INVARIANT FailedPinLeavesNothing
INVARIANT GraphAtPinOrSkipped
INVARIANT EveryTargetAnswered
