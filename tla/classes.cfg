SPECIFICATION Spec
CONSTANTS
  Names <- MCNames
  Basic <- MCBasic
  PointerSize = 8
  Headers <- MCHeaders
  VariableLines <- MCVariableLines
  FunctionLines <- MCFunctionLines
  MaxLines = 3
  MaxDepth = 2
  Defects = {}
INVARIANTS
  LayoutExtends
  VirtualCalls
  ConstructedOnce
  DestroyedInReverse
CHECK_DEADLOCK FALSE
