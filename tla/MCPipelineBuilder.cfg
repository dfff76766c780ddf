SPECIFICATION BuilderSpec
CONSTANTS
  a = a
  b = b
  c = c
  padded = padded
  RawKey = {a, b, c, padded}
  EmptyKey = EmptyKey
  Trim <- MCTrim
  MaxNodes = 3
INVARIANTS RestartNamesDescendants CompiledCanFinish
PROPERTIES CompiledStays
SYMMETRY MCSymmetry
