CONSTANTS
  Sym1 = Sym1
  Sym2 = Sym2
  ModA = ModA
  ModB = ModB
  Eof = Eof
  NoName = NoName
  Slot = 16
  Align = 4
  Wide = 2
  SystemArena = 128
  Inputs <- MCInputs

SPECIFICATION Spec

INVARIANTS
  TablesWalked
  FixupsLand
  ImportsUnique
  ExportsAreEntries
  ServicesAreFixedUp

PROPERTY AddressSpaceSpec
