SPECIFICATION Spec
CONSTANTS
  LastStep = 2
  ReconnectMax = 2
  IdleMax = 2
  Faults <- AllFaults
  Presses <- AllPresses
  Requests <- AllRequests
INVARIANTS
  ClockUnderFlag
  SleepsWithoutRadio
  ApNeverSleeps
  WaitIsTimed
PROPERTIES
  AnswersInTime
CHECK_DEADLOCK FALSE
