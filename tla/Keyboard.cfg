CONSTANTS
  KeyCap <- Caps
  NoKey = NoKey
  Shift <- ShiftCaps
  Control <- ControlCaps
  FakeShift = TRUE
  MaxWire = 4
SPECIFICATION KbdSpec
INVARIANTS TypeOK ModifiersInStep KeystateTracksKeys
PROPERTIES TypedAsHeld
