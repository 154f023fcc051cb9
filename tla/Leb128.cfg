CONSTANTS
  TopBit = 64
  Base = 8
  LastWeight = 64
  MaxLeft = 4
SPECIFICATION LebSpec
INVARIANTS
  VerdictIsRight
  StaysInTheList
