CONSTANTS
  TopBit = 128
  PtrSize = 4
  Symbols = {"a", "b"}
  Ordinals = {1, 255}
  Specials = {}
  WriteKinds = {1}
  Addends = {}
  Segments = {0, 1, 2}
  Offsets = {4}
  Adds = {4}
  Scales = {}
  Counts = {1, 3}
  Skips <- MCSkips
  TableSizes = {}
  MaxOpcodes = 2
  Image <- MCImage
  Prologues <- MCPrologues
  Ranges <- MCRanges
SPECIFICATION ParseSpec
INVARIANTS
  NamelessFollowNamed
  CollectedExactly
