\* Is a request complete when HandleRequest returns?
CONSTANTS
  Callers = {c1, c2}
  Timed = {c1, c2}
  Easies = {e1, e2}
  MaxRequests = 1
  MaxEvents = 3
  TimerFd = timer_fd
  EventFd = event_fd
  None = None
SPECIFICATION Spec
SYMMETRY Symmetry
INVARIANT CompleteOnReturn
CHECK_DEADLOCK FALSE
