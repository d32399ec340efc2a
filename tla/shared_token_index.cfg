SPECIFICATION Spec
CONSTANTS
  t1 = t1
  t2 = t2
  t3 = t3
  t4 = t4
  blockA = blockA
  blockB = blockB
  blockC = blockC
  Tasks = {t1, t2}
  Blocks = {blockA, blockB, blockC}
  None = None
  Hole = Hole
  Requests <- LongFilesOneToken
  Overlap = FALSE
  Resend = "never"
  Faults = {}
  MaxRestarts = 0
SYMMETRY Symmetric
INVARIANTS
  IndexInRange
CHECK_DEADLOCK FALSE
