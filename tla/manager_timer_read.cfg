\* Does TimerCallback always find the timer it was told about?
CONSTANTS
  Callers = {c1, c2}
  Timed = {c1, c2}
  Easies = {e1, e2}
  MaxRequests = 1
  MaxEvents = 3
  TimerFd = timer_fd
  EventFd = event_fd
  None = None
SPECIFICATION Spec
SYMMETRY Symmetry
INVARIANT TimerReadSucceeds
CHECK_DEADLOCK FALSE
