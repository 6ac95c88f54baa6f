CONSTANTS
  Images <- MCImages
  Byte = 2
  Pairs = {"hl"}
  Bits = {0}
  Unknown = Unknown
  Instructions <- MCInstructions
  Rom <- MCRom
  Mapped <- MCMapped
  Alu <- MCAlu

SPECIFICATION GameBoySpec

CONSTRAINT MCGameBoyFollowed

INVARIANTS
  ImageMappedOnce
  BanksShareWindows
  NamesAreInTheirBank
  KnownUntilLapsed
  ClaimsAreDeeds
  HandlersAreEnabled
  StoresAreReported
