CONSTANTS
  MAX_TOKENS = 32
  MAX_TOKEN_LEN = 64
  MAX_NAME = 16
  MAX_ELEMENTS = 100
  SCRW = 80
  SCRH = 40
  PROGRAM_BUF_SIZE = 100
  Number = {0, 1, 2, 3, 4, 5, 6, 7, 8, 9, 10, 11, 12, 13, 14, 15, 16}
  Value = {0, 1}
  Command <- LoopCommands
  Typed <- LoopTyped
  Files <- LoopFiles
  Autorun <- LoopAutorun
  NoText = NoText
  NoVar = "none"
  Key = {"esc", "enter", "letter"}
  Esc = "esc"
  Enter = "enter"
  FOR_STACK = 2
  GOSUB_STACK = 2
  MaxKeys = 2
  MaxDepth = 1
SPECIFICATION FairSpec
INVARIANTS TypeOK Survives
PROPERTIES BreakStops LoopsEnd Assigned
