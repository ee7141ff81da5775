SPECIFICATION ShellSpec
CONSTANTS
  Tiers = {"narrow", "column"}
  MaxShellActs = 4
  MaxShellFaults = 1
CHECK_DEADLOCK FALSE
INVARIANT PaneDrawsWhatWasAsked
