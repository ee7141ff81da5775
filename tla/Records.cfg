SPECIFICATION RecordsSpec
CONSTANTS
  g1 = g1
  g2 = g2
  o1 = o1
  s1 = s1
  i1 = i1
  i2 = i2
  i3 = i3
  i4 = i4
  i5 = i5
  e1 = e1
  e2 = e2
  x1 = x1
  c1 = c1
  c2 = c2
  m1 = m1
  m2 = m2
  m3 = m3
  Accounts <- IdAccounts
  Items <- IdItems
  Handles <- IdHandles
  Addresses <- IdAddresses
  Mailboxes <- IdMailboxes
  Malformed <- IdMalformed
  ChannelOf <- IdChannelOf
  AccountOf <- IdAccountOf
  HandleOf <- IdHandleOf
  MaxPersons = 3
  MaxEdits = 2
  Chats <- PollChats
  Msgs <- PollMsgs
  ChatOf <- PollChatOf
  PageLimit = 2
  MaxGen = 3
  MaxFailures = 1
  t1 = t1
  Mails = {i1, i2}
  Threads = {t1}
  ThreadOf <- ArchiveThreadOf
  Bulk = {i1}
  Guarded = {}
  Runs = {r1}
  Restores = {u1}
  Nobody = Nobody
  MaxDay = 3
  UndoDays = 2
  ExclusionDays = 2
  Straddles = FALSE
  MaxAutoFaults = 1
  b1 = b1
  b2 = b2
  b3 = b3
  b4 = b4
  user = user
  voice = voice
  Patches = {b1, b2, b3, b4}
  NoPatch = NoPatch
  Queue <- PatchQueue
  FileOf <- PatchFileOf
  Touches <- PatchTouches
  Rival <- PatchRival
  Invalid = {}
  Suppressed = {}
  MaxProposed = 3
  Apart = TRUE
  MaxLoads = 3
  MaxModelFaults = 1
  Meetings = {1, 2}
  Months = {2}
  LastDay = 3
  Spends = {0, 8}
  Cards <- BriefCards
  SectionCap <- BriefCap
  Punctual = TRUE
  MaxNightFaults = 1
INVARIANTS FlatMerges   RestoreAllReaches AppliedIsRead NightIsTold
CHECK_DEADLOCK FALSE
