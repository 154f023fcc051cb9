CONSTANTS
  UInt32 = 16
  CommandLines <- MCCommandLines
  File = "FILE"
  Files <- MCFiles
  Pair = "SEG,SECT"
  Numerals <- MCNumerals
  ImagePaths = {"/a", "/b"}
SPECIFICATION Spec
INVARIANTS
  AcceptedIsSound
  RunsOnWhatWasAsked
  EndsHaveAReason
CHECK_DEADLOCK FALSE
