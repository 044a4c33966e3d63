SPECIFICATION Spec
CONSTANTS
  Size = 12
  VecLists <- MCVecLists
  Max32 = 12
  Max64 = 6
  Failures = {"Io", "Interrupted"}
  Total = 3
  FileSize = 4
  Offsets = {0, 1, 3, 5}
  Names <- MCNames
  HeaderLen = 2
  BufLens = {0, 1, 2, 3, 4, 5, 7, 12}
  Strings <- MCStrings
  PointerLen = 1
  Pointers = {0, 2, 6, 11}
INVARIANTS
  ReadsLossless WritesExact DirectoryComplete ListsRead
