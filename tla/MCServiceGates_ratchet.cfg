SPECIFICATION Spec
CONSTANTS
  Functions <- Fns
  FileOf <- FileOfFn
  TestFiles <- Tests
  MiddlewareFiles <- Middleware
  Operations <- Ops
  PathOf <- Paths
  MethodOf <- Methods
  SingleResourcePaths <- OnePath
  NonResourcePaths = {}
  ComponentNames <- Components
  AcceptedVintages <- Vintages
  GatewayNamed <- Edge
  EdgeNamed <- Edge
  Defaults <- DefaultYaml
  BaselineConfigs <- BaselineYaml
  YamlFiles <- AllYaml
  FloorRecorded = TRUE
  Repos <- FourRepos
  Start <- Trees
  Writable <- Commits
  Relocations <- MovesOf
  Renamable <- Renamed1
  MaxEdits = 2
INVARIANT
  RedMeansRaised
PROPERTIES
  OthersKeepTheirFreeze
  RefreezeRecovers
  SharingCostsNothing
  MovingHidesNothing
CHECK_DEADLOCK FALSE
