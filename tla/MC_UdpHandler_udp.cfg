SPECIFICATION UdpSpec

CONSTANTS
  Names = {a, b}
  NoName = NoName
  Empty = Empty
  Garbled = Garbled
  Slots = {1, 2}
  SlotSector <- OneFbSector
  NumSectors = 2
  DataArea = 3
  WriteLens = {1, 2}
  Methods = {"OVERRIDE", "APPEND"}
  ReadOnly = {FALSE}
  Formats = TRUE
  Contract = {}
  AnyTime = FALSE
  MaxLength = 4
  MaxCrashes = 1
  Section = 1
  MaxSize = 2
  TokenLife = 1
  Totals = {3, 4}
  Requests = {"connect", "disconnect", "upinfo", "updata", "downinfo", "downdata", "rename", "delete", "format", "config", "freeze", "REBOOT", "update", "inquire"}
  Client = {"one_transfer", "no_resume", "no_redo", "exact", "with_record", "format_all", "plain_info"}

SYMMETRY Symmetry

INVARIANT ServiceIsSound
INVARIANT ReadsTheAsked
INVARIANT StaysInPartition
PROPERTY AckMeansStored
PROPERTY RecordKept
