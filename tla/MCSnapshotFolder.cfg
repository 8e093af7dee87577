SPECIFICATION FairSpec
CONSTANTS
  Writers = {w1, w2}
  Readers = {r1}
  Days = {1, 2}
  LastKey = 2
  MaxLate = 1
  Old = Old
  Absent = Absent
INVARIANT FoldersAreSnapshots
INVARIANT ReadIsOneSnapshot
PROPERTY ReplacesOnlyByAWhole
PROPERTY WritesEnd
CHECK_DEADLOCK FALSE
