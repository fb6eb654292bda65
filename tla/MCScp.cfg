CONSTANTS
  Versions = {"scp01", "scp02", "scp03"}
  SecurityLevels = {0, 1, 3}
  Commands = {a, b}
  WithData = {a}
  SeqMod = 2
  EncMod = 2
  MaxSessions = 2
  MaxInits = 3
  MaxCommands = 3
  None = None
SPECIFICATION Spec
INVARIANT TypeOK
INVARIANT SessionAgreement
INVARIANT AcceptedInOrder
PROPERTY CountersInStep
