SPECIFICATION MemorySpec
CONSTANTS
  Refs = {r1, r2}
  ChangesMax = 2
  ScanMax = 2
  Backoffs = 1
  MaxChanges = 3
  MaxFaults = 2
INVARIANTS NothingIsPassedOver
CHECK_DEADLOCK FALSE
