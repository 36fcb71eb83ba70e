SPECIFICATION FairSpec
CONSTANTS
  Nil = Nil
  Malformed = Malformed
  Services = {auth, user}
  Ops = {a}
  Jobs = {j1, j2}
  InitialDirs <- AllDirs
  Serial = TRUE
  ApiBlips = FALSE
  HandPublications = 1
  PushFailures = 1
  HandMistakes = TRUE
INVARIANTS
  RecordedIsVerbatim
  AdditiveWithinMajor
PROPERTIES
  ImplementsStore
  EveryJobEnds
CHECK_DEADLOCK FALSE
