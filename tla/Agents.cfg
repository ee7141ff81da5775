SPECIFICATION AgentsSpec
CHECK_DEADLOCK FALSE
CONSTANTS
  Ids = {1, 2}
  Offered = {1}
  FallbackOf <- SecondRetriesFirst
  RulesCover = {1}
  Handlers = {h1, h2}
  ListLimit = 2
  AnswersFirst = TRUE
  None = None
  MaxFaults = 2
  note1 = note1
  note2 = note2
  draft1 = draft1
  draft2 = draft2
  archive1 = archive1
  i1 = i1
  i2 = i2
  t1 = t1
  t2 = t2
  NoItem = NoItem
  Events = {note1, draft1, draft2, archive1}
  Threads = {t1, t2}
  Items = {i1, i2}
  ThreadOf <- MCThreadOf
  ItemOf <- MCItemOf
  FirstTier <- MCFirstTier
  Decides <- MCDecides
  ToolUsers = {draft1, draft2}
  FailureLimit = 2
  MaxArrivals = 2
  MaxLoopFaults = 1
INVARIANTS DoneMeansVerified LedgerBinds
PROPERTIES
  OneRunPerApproval
  
  HumanChoiceStands
  FailureIsShown
