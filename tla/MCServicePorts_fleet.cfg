SPECIFICATION PortsSpec
CONSTANTS
  Services <- TwoServices
  Repos <- ThreeRepos
  Gateways <- OneGateway
  ServiceOf <- Declared
  Reads <- ReadsOld
  Compliant <- Fleet
  Alternatives <- Slips
  MaxWrites = 2
INVARIANTS
  CallersReachTheListener
  WorkstationHoldsTheFleet
  OneAnswer
CHECK_DEADLOCK FALSE
