CONSTANTS
  ALIGN = 8
  HEADER_SIZE = 24
  Base = 4
  Size = 148
  Client = {c1, c2, c3}
  Request = {5, 16, 60}
  Null = Null
  Junk = Junk
SYMMETRY ClientSymmetry
SPECIFICATION Spec
INVARIANTS TypeOK Tiling Ownership Contents WholeAgain
