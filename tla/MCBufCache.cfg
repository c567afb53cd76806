SPECIFICATION Spec
CONSTANTS
  Blocks = {a, b, c}
  Data = {x, y}
  Lines <- MCLines
  BCDEPTH = 2
  line <- MCLine
  MaxRef = 2
INVARIANTS CacheExact
PROPERTIES HeldStays RefinesStore
SYMMETRY Symmetry
