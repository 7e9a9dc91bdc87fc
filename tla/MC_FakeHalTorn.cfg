\* Two commands may run at once, and either may be killed part way.
CONSTANTS
  p1 = p1
  p2 = p2
  Absent = Absent
  Truncated = Truncated
  Invalid = Invalid
  Procs <- TwoProcs
  Running = 2
  MaxCameras = 2
SPECIFICATION KillSpec
INVARIANT NoPartiallyWrittenConfig
