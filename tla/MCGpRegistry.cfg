CONSTANTS
  MaxApplets = 2
  MaxSds = 2
  MaxLoadFiles = 1
  MaxInstances = 2
  Aids <- MCAids
  FileAids <- MCFileAids
  SdAids <- MCSdAids
  Levels <- MCLevels
  None = None
SPECIFICATION ContentSpec
INVARIANT UniqueAids
INVARIANT OwnerExists
INVARIANT LinkedIsReachable
