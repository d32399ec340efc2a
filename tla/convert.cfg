SPECIFICATION FairSpec
CONSTANTS
  p1 = p1
  p2 = p2
  p3 = p3
  v1 = v1
  v2 = v2
  Producers = {p1, p2, p3}
  Videos = {v1, v2}
  None = None
INVARIANTS
  IInv
  NothingLost
  NoMissedWakeup
  DrainedAtExit
  OnlyAMissedWakeupHangs
PROPERTIES
  ImplementsQueue
  ImplementsFairQueue
  ShutdownEnds
CHECK_DEADLOCK FALSE
