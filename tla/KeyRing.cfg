CONSTANTS
  KEYBUF_SIZE = 4
  Key = {k1, k2}
  NoKey = NoKey
  MaxMs = 10
SPECIFICATION RingSpec
INVARIANTS TypeOK RingInv
PROPERTIES QueueSpec ReaderWakes DelayEnds
