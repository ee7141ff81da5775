SPECIFICATION Spec
CHECK_DEADLOCK FALSE
CONSTANTS
  Ids = {1, 2}
  Offered = {1}
  FallbackOf <- SecondRetriesFirst
  RulesCover = {2}
  Handlers = {h1, h2}
  ListLimit = 2
  AnswersFirst = TRUE
  None = None
  MaxFaults = 0
INVARIANT RetryWaitsForHuman
