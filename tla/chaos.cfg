SPECIFICATION Spec
CONSTANTS
  t1 = t1
  t2 = t2
  t3 = t3
  t4 = t4
  blockA = blockA
  blockB = blockB
  blockC = blockC
  Tasks = {t1, t2, t3}
  Blocks = {blockA, blockB}
  None = None
  Hole = Hole
  Requests <- ShortFilesOneToken
  Overlap = TRUE
  Resend = "failed"
  Faults = {"workspace", "open", "write", "result", "remove"}
  MaxRestarts = 1
SYMMETRY Symmetric
INVARIANTS
  IInv
  MapNeverDangles
  DestroyedOnce
  NoLostCompletion
CHECK_DEADLOCK FALSE
