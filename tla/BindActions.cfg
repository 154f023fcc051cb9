CONSTANTS
  TopBit = 128
  PtrSize = 4
  Symbols = {"", "a", "b"}
  Ordinals = {1}
  Specials = {0, 1, 14}
  WriteKinds = {0, 1, 4}
  Addends = {2}
  Segments = {0}
  Offsets = {4, 132, 252}
  Adds <- MCAdds
  Scales = {2}
  Counts = {0, 1, 3}
  Skips <- MCSkips
  TableSizes = {0, 1}
  MaxOpcodes = 2
  Image <- MCImage
  Prologues <- MCPrologues
  Lists = {"Normal", "Lazy", "Weak"}
SPECIFICATION FairSpec
INVARIANTS
  StaysInBounds
  AddressesFollowStream
  ActionsAreComplete
  FatalErrorsStop
PROPERTIES
  Terminates
