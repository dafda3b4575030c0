SPECIFICATION FairSpec
CONSTANTS
  Old = 1
  Sensors = TRUE
  MaxWire = 1
  MaxFaults = 1
  MaxPending = 1
INVARIANTS LastSeenIsContact
PROPERTIES DeadNotOnline LiveShownOnline
