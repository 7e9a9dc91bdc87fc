CONSTANTS
  Users <- MCUsers
  Fingers <- MCFingers
  Samples <- MCSamples
  FRRRows <- MCFRRRows
SPECIFICATION Spec
INVARIANT TypeOK HierarchyCountsEveryFalseReject
\* A replicate ends by returning its count: the run stops there.
CHECK_DEADLOCK FALSE
