SPECIFICATION Spec
CONSTANTS
  t1 = t1
  t2 = t2
  t3 = t3
  t4 = t4
  blockA = blockA
  blockB = blockB
  blockC = blockC
  Tasks = {t1, t2, t3}
  Blocks = {blockA, blockB}
  None = None
  Hole = Hole
  Requests <- OneVideo
  Overlap = FALSE
  Resend = "always"
  Faults = {"write"}
  MaxRestarts = 0
SYMMETRY Symmetric
INVARIANTS
  SkippedBlockIsStored
CHECK_DEADLOCK FALSE
