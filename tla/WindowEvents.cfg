CONSTANTS
  Names = {n1, n2}
  NoWindow = NoWindow
  Widths = {1, 65538, 65536}
  Sizes = {1, 2}
  Keys = {"a", "menu"}
  Codes = {8, 17, 62, 255}
  Mappings <- SmallMappings
  Pointer = {1, 2}
  MaxOpened = 2
  MaxEvents = 2
SPECIFICATION Spec
SYMMETRY NameSymmetry
INVARIANTS
  TypeOK
  ProjectionFollows
  FrameReadsOneWindow
PROPERTIES
  FirstComeStays
  InputTrue
\* After the loop there is nothing to do.
CHECK_DEADLOCK FALSE
