SPECIFICATION Spec
CONSTANTS
  MaxCommits = 2
  MaxRuns = 3
  MaxCrashes = 1
  Catalog <- TwoKinds
  Fragile <- OneOfEach
  Breakable <- Varied
INVARIANTS
  WhatRunsIsBuilt
  WhatRunsIsClean
  NothingIsForgotten
CHECK_DEADLOCK FALSE
