CONSTANTS
  MaxApplets = 3
  MaxSds = 1
  MaxLoadFiles = 0
  MaxInstances = 1
  Aids <- MCAids
  FileAids <- MCFileAids
  SdAids <- MCSdAids
  Levels <- MCLevels
  None = None
  MaxChannels = 2
  IsdAid <- MCIsdAid
  Requests <- MCRequests
SPECIFICATION ChannelsSpec
INVARIANT ChannelTypeOK
PROPERTY SelectsSelectable
PROPERTY ExactAidWins
PROPERTY RestoreKeepsContent
