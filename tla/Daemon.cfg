SPECIFICATION FairDaemonSpec
CONSTANTS
  Inst = {i1, i2}
  Link = {l1}
  MaxCrashes = 1
  MaxServe = 4
CHECK_DEADLOCK FALSE
INVARIANTS ReadyReachable CountedServed
PROPERTIES StopExits Handover DebugEnds StopTaken
