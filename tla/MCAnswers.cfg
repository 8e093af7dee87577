SPECIFICATION Spec
CONSTANTS
  Items = {1, 2, 3, 4, 5}
  Dropped = {3}
  PageSize = 2
  MaxEventPages = 2
  Attempts = 3
  Asked <- MCAsked
  Edits = 2
  Repeats = 3
  Null = Null
  Words <- MCWords
  LabelChars <- MCLabelChars
  MostLabels = 5
  FullAnswer = 2
  MaxPrefix = 2
  MaxCalls = 5
  Readers = {"areas", "area", "resource"}
  OverlayOf <- MCOverlayOf
  MaxMounts = 2
  NoOverlay = NoOverlay
  Sources = {"A", "B"}
  MaxTurns = 4
  MaxCopies = 2
  Nothing = Nothing
  Queues = {"documents-prod", "documents-sdbx"}
  Functions = {"known", "unknown"}
  Known = {"known"}
  Candidates = {"documents-prod", "documents-sdbx"}
  Bare <- MCBare
  Buckets = {"bucket"}
  Targets = {"target"}
  MaxFetches = 2
  MaxChanges = 2
INVARIANT FetchIsBounded
INVARIANT ReadsTheWholeList
INVARIANT ShiftsAreBounded
INVARIANT LabelsFoundUnlessCut
INVARIANT ReadersShowOneAnswer
INVARIANT DrawnIsWhatIsAsked
INVARIANT FindingsStood
PROPERTY DrawingArrives
CHECK_DEADLOCK FALSE
