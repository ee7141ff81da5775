SPECIFICATION GuardsSpec
CHECK_DEADLOCK FALSE
CONSTANTS
  a1 = a1
  a2 = a2
  c1 = c1
  t1 = t1
  t2 = t2
  x = x
  y = y
  Asks = {a1, a2}
  Confirms = {c1}
  Drafts <- MCDrafts
  Edits <- MCEdits
  Threads = {t1, t2}
  Texts = {x, y}
  Executors = {e1, e2}
  None = None
  KeepsDryRun = TRUE
  SendEnabled = TRUE
  MaxFaults = 1
  Hubs = {h1, h2}
  MaxPresses = 3
  Overlaps = FALSE
  
PROPERTIES  PressReachesAll
