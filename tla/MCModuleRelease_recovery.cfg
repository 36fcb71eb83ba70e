SPECIFICATION FairSpec
CONSTANTS
  Nil = Nil
  Consumers = {a, b}
  Seed <- v010
  PathMajor = 0
  Explicit <- NoVersion
  HandTags <- NoVersion
  DraftOnFailure = FALSE
  KillAfterPublish = FALSE
  ApiBlips = FALSE
  FullRerunOf <- AllButFanout
  MaxCommit = 2
  MaxAttempt = 4
INVARIANTS
  VersionsFollowHistory
  BreakingCrossesBoundary
  NoStrandedRelease
PROPERTIES
  NoSilentLoss
CHECK_DEADLOCK FALSE
