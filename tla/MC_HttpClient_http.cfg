SPECIFICATION Spec
CONSTANTS
  SubscriberMax = 6
  BufferSize = 2
  Answers <- SmallAnswers
  MaxChains = 2
INVARIANTS
  BufferIsKept
  OwnAnswer
  UpdateIsWhole
PROPERTIES
  UpdateEnds
  RefinesChain
CHECK_DEADLOCK FALSE
