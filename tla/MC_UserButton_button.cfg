SPECIFICATION Spec
CONSTANTS
  LongClick = 4
  DoubleTimeout = 2
  SingleDelay = 3
  Wrap = 7
INVARIANTS
  KeyFollowsPin
  CountedIsPending
PROPERTIES
  ReportsArePresses
  ClickIsReported
