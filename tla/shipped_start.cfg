SPECIFICATION FairSpec
CONSTANTS
  Config <- StaticConfig
  Uncommented <- AsShipped
  MayThrow <- NoneThrow
  Requests = {r1, r2}
  Videos = {v1, v2}
  r1 = r1
  r2 = r2
  v1 = v1
  v2 = v2
  None = None
PROPERTIES
  StartsUp
CHECK_DEADLOCK FALSE
