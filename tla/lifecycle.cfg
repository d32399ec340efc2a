SPECIFICATION FairSpec
CONSTANTS
  Config <- StaticConfig
  Uncommented <- WithCache
  MayThrow <- SomeThrow
  Requests = {r1, r2}
  Videos = {v1, v2}
  r1 = r1
  r2 = r2
  v1 = v1
  v2 = v2
  None = None
INVARIANTS
  IInv
  CallbackReachesConverter
  NothingLeftBehind
  WorkerKeepsItsStarter
PROPERTIES
  StartsUp
  Ends
CHECK_DEADLOCK FALSE
