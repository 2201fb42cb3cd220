\* Two callers, two addresses (so an address is handed out again), two requests
\* each; a batch holds fewer events than there are sources.
CONSTANTS
  Callers = {c1, c2}
  Timed = {c1}
  Easies = {e1, e2}
  MaxRequests = 2
  MaxEvents = 2
  TimerFd = timer_fd
  EventFd = event_fd
  None = None
SPECIFICATION Spec
SYMMETRY AddressSymmetry
INVARIANTS AssertionsHold NoLostWakeup TransferHasTimer OwnResponse TransferHasWaiter
INVARIANTS BlockedHasRequest ReleaseWindow EntriesLive
\* The bounded callers fall silent, and a dead process stops.
CHECK_DEADLOCK FALSE
