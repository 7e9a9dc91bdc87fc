CONSTANTS
  c1 = c1
  c2 = c2
  NoValue = NoValue
  Conns <- TwoConns
  MaxRequests = 1
  None <- NoValue
SPECIFICATION CooperativeUserSpec
PROPERTY RequestEventuallyTaken
\* The connections end: handlers closed and workers exited.
CHECK_DEADLOCK FALSE
