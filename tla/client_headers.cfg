\* Does a request carry its own headers?
CONSTANTS
  Verbs = {"GET", "HEAD"}
  MaxCalls = 2
  None = None
SPECIFICATION Spec
INVARIANT HeadersAreOwn
CHECK_DEADLOCK FALSE
