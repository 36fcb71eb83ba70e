SPECIFICATION DiffSpec
CONSTANTS
  MaxCommits = 4
  MaxEvents = 2
  Edits <- Usual
INVARIANTS
  PinsBringNoSource
  EveryCommitIsDocs
  DocsBringNoCode
CHECK_DEADLOCK FALSE
