\* Three descriptors, 0 among them, and a kernel that watches two.
CONSTANTS
  Fds = {0, 3, 4}
  MaxWatches = 2
  None = None
SPECIFICATION Spec
INVARIANT WatchedAsWanted
PROPERTIES ZeroIsWatched OnlyRefusalIsFatal
\* A throw ends the process.
CHECK_DEADLOCK FALSE
