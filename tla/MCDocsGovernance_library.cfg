SPECIFICATION Spec
CONSTANTS
  Files <- SixFiles
  SpaceOf <- Home
  Start <- Library
  Options <- Values
  Slugs <- Owners
  MaxEdits = 2
  MaxDay = 1
INVARIANTS
  CitationReachesOneDocument
  ReplacedIsNotInForce
PROPERTIES
  TimeAloneNeverFails
CHECK_DEADLOCK FALSE
