CONSTANTS
  Versions <- MCVersions
  PatchLevels <- MCPatchLevels
  SubLevels <- MCSubLevels
  MaxLines = 3
  NoMatch = NoMatch
SPECIFICATION Spec
INVARIANT TypeOK VersionCodeOrdered VmlinuxHeaderMatchesDump SuccessMeansOutputs
\* The script returns: every invocation stops at its exit.
CHECK_DEADLOCK FALSE
