SPECIFICATION DrawSpec
CONSTANTS
  Sources <- Bytes
  Needles <- Letters
  MaxSource = 6
  MaxPacket = 3
  MaxDescription = 3
  Packets <- PacketBytes
  Descriptions <- Characters
  MaxNeedle = 4
  Numbers <- SmallInts
  Points <- Edges
  Sizes = {3, 4, 5, 8, 13, 16, 21}
  Words <- SmallWords
  MaxPairs = 2
  Lows = {50, 58}
  Zeros = {22, 28}
  Ones = {68, 75}
  MaxBits = 3
  Reach = 12
  Radii = {1, 2, 3, 4, 5, 6, 7, 8, 9, 10, 13, 20}
  Glyphs <- SomeGlyphs
  MaxText = 5
  Places <- Corners
  Lines <- SomeLines
  MaxLines = 7
INVARIANTS
  FoundAsWritten
  ReadAsWritten
  ShapesAreWhole
  
CHECK_DEADLOCK FALSE
