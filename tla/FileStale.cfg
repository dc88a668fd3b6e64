CONSTANTS
  FS_MAX_FILES = 3
  SECTOR_SIZE = 2
  TotalSectors = 7
  Name <- Plain
  Fold <- Folded
  Stored <- Whole
  Version = {v1, v2}
  Length = {1}
  Buffer = {4}
  NoName = NoName
  NoData = NoData
  NoFile = NoFile
  NoJob = NoJob
  Faults = TRUE
SYMMETRY VersionSymmetry
SPECIFICATION Spec
PROPERTY SavedIsLoaded
