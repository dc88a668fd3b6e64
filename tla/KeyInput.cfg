CONSTANTS
  KEYBUF_SIZE = 2
  Key = {27, 130}
  NoKey = NoKey
  MaxMs = 1
  KeyCap <- EscapeAndLeft
  Shift = {}
  Control = {}
  FakeShift = FALSE
  MaxWire = 2
SPECIFICATION Spec
PROPERTIES KeyEndsWait
