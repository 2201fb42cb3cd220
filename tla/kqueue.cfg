\* One caller that makes two requests, through one client or two at either address, and
\* one descriptor that sockets come and go on; a batch holds fewer events than there are
\* sources.
CONSTANTS
  Callers = {c1}
  Timed = {c1}
  Easies = {e1, e2}
  Fds = {3}
  MaxRequests = 2
  MaxEvents = 2
  UserEvent = user
  TimerEvent = timer
  None = None
SPECIFICATION FairSpec
INVARIANTS NothingMissed LeftoverFilters NoLostWakeup TransferHasTimer
PROPERTY ImplementsService
\* The bounded caller falls silent, and a dead process stops.
CHECK_DEADLOCK FALSE
