CONSTANTS
  Dfs <- MCDfs
  Efs <- MCEfs
  Mf = "MF"
  Adfs <- MCAdfs
  Kids <- MCKids
  Root <- MCRoot
  Fid <- MCFid
  MfFid = "3F00"
  CurAdfFid = "7FFF"
  Structure <- MCStructure
  Records <- MCRecords
  ValMax <- MCValMax
  TrackerCap = 1
  NoFile = NoFile
  Chans = {0, 1}
  ReadAc <- MCReadAc
  UpdateAc <- MCUpdateAc
  HasSfi = {"AD", "ADN"}
  Phonebook = "PB"
  Adn = "ADN"
  Psc = "PSC"
  Cc = "CC"
  Puid = "PUID"
  PinSlots <- MCPins
  PinValues = {}
  Paths <- MCPaths
  NoRsp = NoRsp
  Closed = Closed
SPECIFICATION Spec
INVARIANTS SelectionSound SnapshotFaithful QueuedIsCurrent
PROPERTIES PhonebookSynchronised DeactivatedIsFrozen
