\* Two connections with two calls each; the addresses of MCExtension, two rows
\* in each file, a chunk of one row.
CONSTANTS
  Conns = {c1, c2}
  MaxCalls = 2
  None = none
  Ips <- MCIps
  Ips6 <- MCIps6
  Ntop <- MCNtop
  MaxRows = 2
  VectorSize = 1
SPECIFICATION Spec
INVARIANTS OverrideHolds BreaksOnlyOnRace PeersCounted EmittedOnce
PROPERTIES WasmStays SetTakesEffect
\* The connections have used up their calls.
CHECK_DEADLOCK FALSE
