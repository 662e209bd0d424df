SPECIFICATION FairSpec
CONSTANTS
  LastStep = 2
  ReconnectMax = 2
  IdleMax = 2
  Faults <- RefusedOnly
  Presses <- ClickOnly
  Requests <- KeepingRequests
INVARIANTS
  NeverStalls
PROPERTIES
  LowBatteryTurnsOff
  SetupEnds
