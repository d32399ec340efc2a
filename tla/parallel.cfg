SPECIFICATION FairSpec
CONSTANTS
  t1 = t1
  t2 = t2
  t3 = t3
  t4 = t4
  blockA = blockA
  blockB = blockB
  blockC = blockC
  Tasks = {t1, t2, t3}
  Blocks = {blockA, blockB, blockC}
  None = None
  Hole = Hole
  Requests <- LongVideo
  Overlap = TRUE
  Resend = "never"
  Faults = {}
  MaxRestarts = 0
INVARIANTS
  RecordedBlocksStored
PROPERTIES
  CompleteUploadPublished
CHECK_DEADLOCK FALSE
