CONSTANTS
  MaxMapItems = 3
  CallSiteIds = 7
  MethodHandles = 8
  Types <- MCTypes
  Files <- MCFiles

SPECIFICATION Spec

INVARIANTS
  MapWellFormed
  SegmentsOneToOne
  GapFree
  TablesAreTheLoaders
  ProcessorFindsTheMap

PROPERTIES
  AddressSpaceSpec
