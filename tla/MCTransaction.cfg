CONSTANTS
  HeapSize = 3
  Cap = 2
  Values = {0, 1}
  Bypass = {0}
SPECIFICATION JournalSpec
PROPERTY AbortRestores
