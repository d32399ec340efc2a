SPECIFICATION Spec
CONSTANTS
  t1 = t1
  t2 = t2
  t3 = t3
  t4 = t4
  blockA = blockA
  blockB = blockB
  blockC = blockC
  Tasks = {t1, t2, t3, t4}
  Blocks = {blockA, blockB}
  None = None
  Hole = Hole
  Requests <- TwoVideos
  Overlap = FALSE
  Resend = "failed"
  Faults = {"workspace", "open"}
  MaxRestarts = 1
SYMMETRY Symmetric
INVARIANTS
  FilesInv
  NoUseAfterFree
  NoBrokenBuild
  IndexInRange
  SkippedBlockIsStored
  RecordedBlocksStored
  PublishedIntact
  PartsHaveOwner
PROPERTIES
  ImplementsPromise
CHECK_DEADLOCK FALSE
