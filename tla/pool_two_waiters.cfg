\* Two clients wait for the same job.
CONSTANTS
  Workers = {w1, w2}
  Clients = {c1, c2}
  Waiters = {c1, c2}
  Owners = {}
  MaxJobs = 1
  None = None
SPECIFICATION FairSpec
PROPERTY WaitReturns
\* Everybody asleep.
CHECK_DEADLOCK FALSE
