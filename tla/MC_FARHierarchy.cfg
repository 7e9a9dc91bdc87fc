CONSTANTS
  Users <- MCUsers
  Fingers <- MCFingers
  Samples <- MCSamples
  FARRows <- MCFARRows
SPECIFICATION Spec
INVARIANT TypeOK HierarchyAgreesWithFlat
\* A replicate ends by returning its count: the run stops there.
CHECK_DEADLOCK FALSE
