SPECIFICATION Spec
CONSTANTS
  f = f
  g = g
  h = h
  None = None
  Functions <- MCFunctions
  Programs <- MCPrograms
  MaxCalls = 3
INVARIANTS
  CallsLand
  CapturedFinal
  LoadConsistent
PROPERTIES
  LoadEnds
  KeepsLinkage
CHECK_DEADLOCK FALSE
