CONSTANTS
  MAX_TOKENS = 32
  MAX_TOKEN_LEN = 64
  MAX_NAME = 16
  MAX_ELEMENTS = 100
  SCRW = 80
  SCRH = 40
  PROGRAM_BUF_SIZE = 100
  Number = {0, 1, 2}
  Value = {0}
  Command <- FlowCommands
  Typed <- FlowTyped
  Files <- FlowFiles
  Autorun <- FlowFiles
  NoText = NoText
  NoVar = "none"
  Key = {"esc", "enter", "letter"}
  Esc = "esc"
  Enter = "enter"
  FOR_STACK = 3
  GOSUB_STACK = 2
  MaxKeys = 1
  MaxDepth = 2
SPECIFICATION Spec
PROPERTIES FlowSpec
