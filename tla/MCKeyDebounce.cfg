SPECIFICATION PanelSpec
CONSTANTS
  Key = {KEY_UP, KEY_DOWN, KEY_ENTER}
  NoKey = KEY_NONE
  DebounceMs = 4
  TickMs = 1
  Patterns <- MCPatterns
  StartupTone <- MCStartup
  ConfirmTone <- MCConfirm
INVARIANTS ToneIsThePattern
PROPERTIES ReleasedBetweenEvents SteadyBeforeEvent PressIsHeard
