CONSTANTS
  Nodes = {1, 2, 3}
  Root = 1
  MaxChildren = 2
  MaxDepth = 4
  Null = Null
SPECIFICATION MCSpec
INVARIANTS
  TypeOK
  NoExportTwice
  WalkFollowsTrie
  EndMeansComplete
  RefusalsAreJustified
PROPERTIES
  Terminates
