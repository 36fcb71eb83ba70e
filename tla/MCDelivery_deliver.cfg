SPECIFICATION FairSpec
CONSTANTS
  Services = {auth, user}
  MaxCommit = 2
  MaxContent = 1
  MaxRuns = 3
  LostAnswers = 1
  LossPoints <- Failing
  StopPoints <- Stoppable
  BuildsFail = TRUE
  CallerCancels = FALSE
  AnyOrder = FALSE
INVARIANTS
  NoForgottenCommit
  DevFollowsMain
PROPERTIES
  ImplementsRollout
  EveryRunEnds
CHECK_DEADLOCK FALSE
