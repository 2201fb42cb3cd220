CONSTANTS
  Callers = {c1, c2}
  Timed = {c1, c2}
  Easies = {e1, e2}
  MaxRequests = 1
  MaxEvents = 2
  TimerFd = timer_fd
  EventFd = event_fd
  None = None
SPECIFICATION FairSpec
PROPERTIES ImplementsService HandleReleased
CHECK_DEADLOCK FALSE
