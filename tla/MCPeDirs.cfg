CONSTANTS
  Images <- MCImages
  MaxCallbacks <- Callbacks
  U16 <- Words
  Boundaries <- LinkerSymbols
  KindOf <- Compilers

SPECIFICATION Spec

INVARIANTS
  ImportsResolved
  ExportsResolved
  FunctionsFound
  ResourcesFound
