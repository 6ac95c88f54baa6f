CONSTANT Images <- MCWramSymbol

SPECIFICATION GbSpec

INVARIANT DroppedAreUnmapped
