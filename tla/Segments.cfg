CONSTANTS
  HeaderSize = 2
  SegmentSize = 4
  SectionSize = 2
  Alignments = {1, 2}
  MaxStorage = 17
  MaxCount = 2
  MaxCommand = 8
  SegmentRanges <- MCSegmentRanges
  Null = Null
  SectionRanges <- MCSectionRanges
  Asked <- MCAsked
SPECIFICATION Spec
INVARIANTS
  WalksWhatWasVerified
  VerdictIsRight
  DataIsInTheSegment
  LookupsAgree
