CONSTANTS
  Sector = {s1, s2}
  Data = {d1, d2, d3}
  NoJob = NoJob
  NoData = NoData
  WritesFirst = FALSE
SYMMETRY DiskSymmetry
SPECIFICATION Spec
INVARIANTS TypeOK
PROPERTIES StoreSpec FailStop
