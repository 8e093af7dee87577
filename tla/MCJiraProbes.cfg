SPECIFICATION FairSpec
CONSTANTS
  N = 4
  AtOnce = 3
  InFlight = 2
  Attempts = 2
  Nothing = Nothing
INVARIANT RequestsInBounds
PROPERTY LikeSequential
PROPERTY RoundSettles
CHECK_DEADLOCK FALSE
