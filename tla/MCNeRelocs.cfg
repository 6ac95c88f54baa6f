CONSTANTS
  Kernel = Kernel
  User = User
  Sym1 = Sym1
  Sym2 = Sym2
  Sym3 = Sym3
  Sym4 = Sym4
  Sym5 = Sym5
  Eof = Eof
  Empty = Empty
  NoName = NoName
  Slot = 8
  Paragraph = 2
  MaxJunkCount = 2
  Inputs <- MCFiles
  Modules <- MCModules
  Symbols <- MCSymbols
  Offsets <- MCOffsets
  Ordinals <- MCOrdinals
  OrdinalName <- MCOrdinalName

SPECIFICATION Spec

INVARIANTS
  IntactTablesWalked
  ImportsUnique
  PatchMatchesXref
  ImportsBound
