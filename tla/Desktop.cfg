SPECIFICATION DesktopSpec
CONSTANTS
  a1 = a1
  a2 = a2
  i1 = i1
  Ids = {a1, a2}
  Items = {i1}
  NoItem = NoItem
  ItemOf <- MCItemOf
  Allowed <- MCAllowed
  Expiring = {a1}
  Deciders = {d1, d2}
  Executors = {e1, e2}
  Sweeping = TRUE
  None = None
  MaxFaults = 1
  t1 = t1
  t2 = t2
  Rows <- ThreadRows
  Nobody = Nobody
  MaxArchives = 3
  UndoMax = 2
  Reorders = FALSE
  MaxArchiveFaults = 1
  Approvals = {a1, a2}
  Tasks = {t1}
  Overtakes = FALSE
  MaxPresses = 3
  MaxToastFaults = 1
  s1 = s1
  s2 = s2
  Subjects <- TwoSubjects
  MaxWords = 3
  Hasty = FALSE
  Wanders = FALSE
  MaxComposeFaults = 1
  Tiers = {"narrow", "column"}
  MaxShellActs = 4
  MaxShellFaults = 1
  Entries = {x, y}
  Foreign = {odd}
  NoEntry = NoEntry
  Patient = TRUE
  Alone = TRUE
  ReadsAnswer = TRUE
  MaxSettingActs = 5
  MaxSettingFaults = 1
  k1 = k1
  k2 = k2
  KeyRows <- TwoRows
  NoRow = NoRow
  MaxKeyActs = 4
  c1 = c1
  c2 = c2
  c3 = c3
  Fingers = {f1}
  RailTiles <- ThreeTiles
  SwipeRows = {g1, g2}
  NoTarget = NoTarget
  BarTileLimit = 2
  Undisturbed = TRUE
  MaxGestures = 3
CHECK_DEADLOCK FALSE
INVARIANTS
  SentOnceAndApproved
  DraftFollowsDecision
  ScreenAgrees
  DrawnIsBacked
  
  LastGestureWins
  
PROPERTIES
  GateIsOneShot
  HeldIsSentOrUndone
  KeysKeepTheirPlace
  GesturesMeanWhatTheyShow
