CONSTANTS
  RingSize = 8
  IndexMod = 16
  ByteMod = 3
  OutMax = 4
  Messages <- MCMessages
  Windows = {1, 2}
  Bytes <- MCBytes
  None = None
SPECIFICATION FairSpec
INVARIANT TypeOK
PROPERTY AnswerMatches
PROPERTY GuestIsAnswered
PROPERTY ImplementsLink
