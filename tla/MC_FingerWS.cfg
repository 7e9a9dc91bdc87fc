CONSTANTS
  c1 = c1
  c2 = c2
  NoValue = NoValue
  Conns <- OneConn
  MaxRequests = 2
  None <- NoValue
SPECIFICATION Spec
INVARIANT TypeOK
PROPERTY AbortOnlyWhenSuperseded RequestEventuallyTaken
\* The connection ends: handler closed and worker exited.
CHECK_DEADLOCK FALSE
