SPECIFICATION FairSpec
CONSTANTS
  Nil = Nil
  Vintages <- OneVintage
  Components <- OneProjection
  FirstVersion <- v100
  InitialRef <- OnlyRef
  LossPoints <- ButMove
  HandRefs <- NoRefs
  MaxCommit = 3
  Kinds = {"docs", "breaking"}
  CIFails = FALSE
  Scheduled = TRUE
  AnyOrder = FALSE
  HandMajor = TRUE
INVARIANTS
  TagsFollowHistory
  NothingBreakingUnderV1
PROPERTIES
  V1NeverMovesBack
  NoSilentDrift
CHECK_DEADLOCK FALSE
