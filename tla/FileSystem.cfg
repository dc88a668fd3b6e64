CONSTANTS
  FS_MAX_FILES = 2
  SECTOR_SIZE = 2
  TotalSectors = 7
  Name <- Names
  Fold <- Folded
  Stored <- Whole
  Version = {v1, v2}
  Length = {0, 3}
  Buffer = {2, 4}
  NoName = NoName
  NoData = NoData
  NoFile = NoFile
  NoJob = NoJob
  Faults = FALSE
SYMMETRY VersionSymmetry
SPECIFICATION Spec
INVARIANTS TypeOK
PROPERTIES StoreSpec
