CONSTANTS
  Support = Support
  Activity = Activity
  Own = Own
  Plain = Plain
  Run = Run
  Shorty = Shorty
  Eof = Eof
  Bad = Bad
  NoName = NoName
  U64 = 1000
  U32 = 900
  TypeName <- MCTypeName
  Sanitized <- MCSanitized
  Prefixes <- MCPrefixes
  Inputs <- MCInputs

SPECIFICATION Spec

INVARIANTS
  NamesAreTheirOwn
  MethodsAreDeclared
  HandlersAreReached
