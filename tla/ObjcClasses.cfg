CONSTANTS
  c1 = c1
  c2 = c2
  c3 = c3
  c4 = c4
  s1 = s1
  s2 = s2
  s3 = s3
  s4 = s4
  zero = zero
  Null = Null
  Node <- MCNode
  Class <- MCClass
  Slots <- MCSlots
  Zero <- zero
  NameOf <- MCNameOf
  External <- MCExternal
  Files <- MCFiles
SPECIFICATION FairSpec
INVARIANTS
  TreeIsTheImages
  TreeIsSound
  CategoriesHaveTheirClass
PROPERTIES
  Terminates
