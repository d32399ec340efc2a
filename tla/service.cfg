SPECIFICATION FairSpec
CONSTANTS
  v1 = v1
  v2 = v2
  blockA = blockA
  blockB = blockB
  Videos = {v1}
  Blocks = {blockA}
  Lengths = {2, 3}
  None = None
  Watched = {v1}
  MaxUploads = 2
  MaxRestarts = 1
INVARIANTS
  IInv
  DirectoryIsOneConversion
  ServedWhole
  NotForgotten
PROPERTIES
  ObjectsStay
  SnapshotCompletes
  DeliveredIsPlayable
CHECK_DEADLOCK FALSE
