CONSTANTS
  MaxNodes = 6
  MaxSorted = 4
  Requirements = {"none", "kind", "section"}
  SortOptions = {TRUE, FALSE}
  Null = Null
SPECIFICATION FairSpec
INVARIANTS
  HeapIsSound
  TreeMatchesTrie
  ResultIsComplete
  SortedByComparator
PROPERTIES
  ImplementsOrderedTree
  Terminates
