CONSTANTS
  Dfs <- MCDfs
  Efs <- MCEfs
  Mf = "MF"
  Adfs <- MCAdfs
  Kids <- MCKids
  Root <- MCRoot
  Fid <- MCFid
  MfFid = "3F00"
  CurAdfFid = "7FFF"
  Structure <- MCStructure
  Records <- MCRecords
  ValMax <- MCValMax
  TrackerCap = 0
  NoFile = NoFile
  Chans = {0}
  ReadAc <- MCReadAc
  UpdateAc <- MCUpdateAc
  HasSfi = {}
  Phonebook = NoFile
  Adn = NoFile
  Psc = NoFile
  Cc = NoFile
  Puid = NoFile
  PinSlots <- MCPins
  PinValues = {"1111", "8888"}
  Paths <- MCPaths
  NoRsp = NoRsp
  Closed = Closed
  Policy <- standard_reset_policy
SPECIFICATION SimSpec
INVARIANTS OutNeedsPins GsmOutNeedsPin
