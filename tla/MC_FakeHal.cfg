\* One command at a time.
CONSTANTS
  p1 = p1
  p2 = p2
  Absent = Absent
  Truncated = Truncated
  Invalid = Invalid
  Procs <- OneProc
  Running = 1
  MaxCameras = 3
SPECIFICATION Spec
INVARIANT TypeOK UniqueCameraIds
