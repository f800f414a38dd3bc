SPECIFICATION FairSpec
CONSTANTS
  PerDepthTimeout = 2
  MaxDependencyDepth = 5
INVARIANTS
  OnlyOverrunnersTimeOut
  CallerOutlivesCallback
PROPERTY InvocationEnds
CHECK_DEADLOCK FALSE
