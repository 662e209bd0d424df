SPECIFICATION Spec

CONSTANTS
  Names = {a, b}
  NoName = NoName
  Empty = Empty
  Garbled = Garbled
  Slots = {1, 2, 3}
  SlotSector <- TwoFbSectors
  NumSectors = 2
  DataArea = 1
  WriteLens = {1, 2}
  Methods = {"OVERRIDE", "APPEND"}
  ReadOnly = {FALSE}
  Formats = FALSE
  Contract = {"finish", "attached", "new_name"}
  AnyTime = FALSE
  MaxLength = 2
  MaxCrashes = 0

INVARIANT NoCrossLink
PROPERTY ImplementsStore
PROPERTY FinishSucceeds
PROPERTY Returns
