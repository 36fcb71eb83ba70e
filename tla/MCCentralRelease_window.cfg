SPECIFICATION Spec
CONSTANTS
  Nil = Nil
  Vintages <- FourVintages
  Components <- ThreeProjections
  FirstVersion <- v100
  InitialRef <- Middle
  LossPoints <- ButMove
  HandRefs <- ByHand
  MaxCommit = 4
  Kinds = {"docs"}
  CIFails = FALSE
  Scheduled = FALSE
  AnyOrder = FALSE
  HandMajor = FALSE
INVARIANTS
  PreviousWasReleased
PROPERTIES
  NoFlagDay
CHECK_DEADLOCK FALSE
