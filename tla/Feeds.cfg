SPECIFICATION FeedsSpec
CONSTANTS
  c1 = c1
  c2 = c2
  k1 = k1
  k2 = k2
  Chats <- CaptureChats
  Msgs <- CaptureMsgs
  ChatOf <- CaptureChatOf
  BatchMax = 2
  RelayRetries = 1
  MaxCaptureFaults = 2
  MaxMails = 3
  Notifications = {1}
  ListMax = 2
  PageMax = 2
  MaxRetries = 2
  Threshold = 2
  MaxMailFaults = 4
  Refs = {d1, d2}
  ChangesMax = 2
  ScanMax = 2
  Backoffs = 1
  MaxChanges = 3
  MaxFaults = 2
INVARIANTS AckedIsStored SavedIsReflected
PROPERTIES CapturedReachesInbox SettlesSearchable
CHECK_DEADLOCK FALSE
