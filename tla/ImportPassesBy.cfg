SPECIFICATION ImportSpec
CONSTANTS
  f1 = f1
  f2 = f2
  f3 = f3
  k1 = k1
  k2 = k2
  Transcripts = {f1, f2, f3}
  HostOf <- ImportHostOf
  VendorOf <- ImportVendorOf
  KeyOf <- ImportKeyOf
  Unregistered = {}
  MaxSessions = 2
  Undisturbed = FALSE
  MaxWritten <- TurnsWritten
  MaxImportFaults = 0
CHECK_DEADLOCK FALSE
INVARIANT NothingIsPassedBy
