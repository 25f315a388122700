SPECIFICATION Spec
CONSTANTS
  Unit = 2
  SegmentSize = 4
  Bodies = {ordinary, jumping}
  JumpBodies = {jumping}
  Programs <- MCPrograms
INVARIANTS
  FramesConsistent
PROPERTIES
  VaReadsLive
  BudgetShared
