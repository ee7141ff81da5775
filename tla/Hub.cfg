SPECIFICATION HubSpec
CONSTANTS
  Hubs = {h1, h2}
  MaxPresses = 1
  Overlaps = FALSE
  j1 = j1
  j2 = j2
  Jobs = {j1, j2}
  Early <- MCEarly
  Late <- MCLate
  NoJob = NoJob
  MaxFires = 1
  MaxFaults = 1
  Scripts <- AskingScripts
  Overlap = FALSE
  MaxConns = 2
  MaxSessionFaults = 1
  Delegated = {d1}
  Dispatched = {t1, t2}
  Shared = shared
  MaxTurns = 1
  MaxQueued = 1
  f1 = f1
  f2 = f2
  f3 = f3
  k1 = k1
  k2 = k2
  Transcripts = {f1, f2, f3}
  HostOf <- ImportHostOf
  VendorOf <- ImportVendorOf
  KeyOf <- ImportKeyOf
  Unregistered = {f2}
  MaxSessions = 2
  Undisturbed = FALSE
  MaxWritten <- TurnsWritten
  MaxImportFaults = 1
INVARIANTS
  JobsNeverOverlap
  OncePerDue
  ThreadReadsInOrder
  EndedTurnIsSettled
  
PROPERTIES
  DueJobsRun
  DecisionIsAnswered
CHECK_DEADLOCK FALSE
