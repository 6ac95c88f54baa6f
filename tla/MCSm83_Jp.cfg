CONSTANTS
  Byte = 2
  Pairs = {"hl"}
  Bits = {0}
  Unknown = Unknown
  Instructions <- MCJp
  Rom <- MCRom
  Mapped <- MCMapped
  Alu <- MCAlu

SPECIFICATION Spec

INVARIANT FlowKept
