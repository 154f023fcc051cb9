CONSTANTS
  TopBit = 128
  PtrSize = 4
  Offsets = {5, 253}
  Adds <- MCAdds
  Scales = {2}
  Counts = {1, 2, 3}
  Skips <- MCSkips
  Kinds = {0, 1, 4}
  MaxOpcodes = 4
SPECIFICATION FairSpec
INVARIANTS
  TypeOK
  AddressesFollowStream
  RebasesNeedSegmentAndKind
  FatalErrorsStop
PROPERTIES
  Terminates
