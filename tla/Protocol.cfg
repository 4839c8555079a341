SPECIFICATION FairProtoSpec
CONSTANTS
  W = 2
  MaxMsgLen = 35
  Plans <- MCPlans
  Cap = 2
  Input = 4
  MaxObjects = 5
  ChunkSize = 2
CHECK_DEADLOCK FALSE
INVARIANTS Faithful  ReplyOrder
PROPERTIES ImplementsChannel Arrives RequestEnds
