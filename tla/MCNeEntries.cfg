CONSTANTS
  Slot = 8
  Words = 6
  Inputs <- MCFiles

SPECIFICATION FairSpec

INVARIANTS
  FiledInOrder
  ExportsAreEntries

PROPERTIES
  Termination
