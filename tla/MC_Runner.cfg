CONSTANTS
  NumSamples = 3
  w1 = w1
  w2 = w2
  NoValue = NoValue
  Workers <- MCWorkers
  None <- NoValue
\* Worker processes may be killed, and replaced by the pool, while it runs.
SPECIFICATION CrashSpec
INVARIANT TypeOK IndependentReplicates 
PROPERTY RunReturnsUnlessTaskLost
\* run() returns its BootstrapResults: the run stops there.
CHECK_DEADLOCK FALSE
