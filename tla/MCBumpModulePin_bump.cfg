SPECIFICATION Spec
CONSTANTS
  Nil = Nil
  auth = auth
  user = user
  Modules = {auth}
  Claims <- OwnBranches
  Releases <- Pre1
  InitialPins <- From0
  HandPins <- Revert0
INVARIANTS
  NeverDowngrades
  MajorNeedsReview
  NoForgottenBump
CHECK_DEADLOCK FALSE
