SPECIFICATION FairSpec
CONSTANTS
  N = 5
  Limit = 3
  Nothing = Nothing
INVARIANT QuietOnceSettled
INVARIANT AtMostLimit
PROPERTY NoCallAfterFailure
PROPERTY LikeSequential
PROPERTY Settles
CHECK_DEADLOCK FALSE
