CONSTANTS
  Slot <- TwoSlots
  URB_TIME = 1
  CTRL_TIME = 1
  STOP_TIME = 2
  Plugged <- PluggedIn
  KeySlots = 2
  KeyReports <- SomeReports
  JoyBytes = {FALSE}
  F12 = "f12"
  ESC = "esc"
  MenuKeys <- DownKey
  Mod = "mod"
  NoKey = "none"
  QueueLength = 1
SPECIFICATION FairSpec
INVARIANTS
  OutBeforeFree
  JsMapExact
  NoGhostKey
PROPERTIES
  ListensAgain
