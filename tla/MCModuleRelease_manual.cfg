SPECIFICATION Spec
CONSTANTS
  Nil = Nil
  Consumers = {a}
  Seed <- v142
  PathMajor = 0
  Explicit <- OnlyV143V200
  HandTags <- OnlyV143
  DraftOnFailure = TRUE
  KillAfterPublish = TRUE
  ApiBlips = TRUE
  FullRerunOf <- Stages
  MaxCommit = 2
  MaxAttempt = 3
INVARIANTS
  OneCommitPerVersion
PROPERTIES
  ImplementsLedger
CHECK_DEADLOCK FALSE
