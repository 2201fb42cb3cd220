\* Every sequence of four calls.
CONSTANTS
  Verbs = {"GET", "HEAD", "PUT", "POST", "DELETE"}
  MaxCalls = 4
  None = None
SPECIFICATION Spec
INVARIANTS WireMatchesCall LeftoverMethods MemoryIsOwn ReadResponseIsOwn WriteResponseIsOwn
\* The calls are bounded.
CHECK_DEADLOCK FALSE
