SPECIFICATION Spec
CONSTANTS
  Digit <- MCDigit
  Word <- MCWord
  Long <- MCLong
  WidestSize <- MCWidestSize
  HeaderSizes <- MCHeaderSizes
  InfoSize <- MCInfoSize
  SlideInfoSize <- MCSlideInfoSize
  AcceleratorSize <- MCAcceleratorSize
  MostMappings <- MCMostMappings
  Families <- MCFamilies
INVARIANTS
  ListIsTheSection
  EndIsRight
  ShownIsItsOwn
CHECK_DEADLOCK FALSE
