SPECIFICATION Spec

CONSTANTS
  Names = {a, b, c}
  NoName = NoName
  Empty = Empty
  Garbled = Garbled
  Slots = {1, 2}
  SlotSector <- OneFbSector
  NumSectors = 3
  DataArea = 2
  WriteLens = {1, 2}
  Methods = {"OVERRIDE", "APPEND"}
  ReadOnly = {TRUE, FALSE}
  Formats = TRUE
  Contract = {"finish", "attached", "new_name"}
  AnyTime = FALSE
  MaxLength = 4
  MaxCrashes = 1

SYMMETRY Symmetry

INVARIANT FilesAreServed
INVARIANT ProgramOnce
INVARIANT SpaceIsCounted
INVARIANT UniqueNames
PROPERTY ImplementsStore
