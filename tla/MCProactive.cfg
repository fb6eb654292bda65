CONSTANTS
  Events <- MCEvents
  SmallEvents <- MCSmall
  Timers = {1}
  MaxSecs = 1
  Chans = {1, 2}
  SeqMax = 2
  MaxLen = 2
  NoCmd = NoCmd
  Garbled = Garbled
  NoEvent = NoEvent
SPECIFICATION FairSpec
INVARIANTS TypeOK FetchedIsQueued EventListAgreed ChannelsAgreed
PROPERTY CommandAnswered
CONSTRAINT Slice
