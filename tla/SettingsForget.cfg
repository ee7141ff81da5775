SPECIFICATION SettingsSpec
CONSTANTS
  Entries = {x, y}
  Foreign = {odd}
  NoEntry = NoEntry
  Patient = TRUE
  Alone = TRUE
  ReadsAnswer = FALSE
  MaxSettingActs = 4
  MaxSettingFaults = 1
INVARIANT ForeignRulesStay
CHECK_DEADLOCK FALSE
