\* Three workers, two clients, one of which waits, and a destructor.
CONSTANTS
  Workers = {w1, w2, w3}
  Clients = {c1, c2}
  Waiters = {c1}
  Owners = {o}
  MaxJobs = 4
  None = None
SPECIFICATION FairSpec
INVARIANTS IdleNumExact WorkersWoken SoleWaiterWoken
PROPERTIES WaitCoversEarlierJobs JobsFinish DestructorReturns WaitReturns ImplementsService
\* The bounded clients fall silent.
CHECK_DEADLOCK FALSE
