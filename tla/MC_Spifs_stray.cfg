SPECIFICATION Spec

CONSTANTS
  Names = {a, b}
  NoName = NoName
  Empty = Empty
  Garbled = Garbled
  Slots = {1, 2}
  SlotSector <- OneFbSector
  NumSectors = 2
  DataArea = 2
  WriteLens = {1, 2}
  Methods = {"OVERRIDE", "APPEND"}
  ReadOnly = {FALSE}
  Formats = FALSE
  Contract = {"attached", "new_name"}
  AnyTime = FALSE
  MaxLength = 2
  MaxCrashes = 0

SYMMETRY Symmetry

INVARIANT StaysInPartition
