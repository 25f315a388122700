SPECIFICATION Spec
CONSTANTS
  Blocks = {1, 2, 3}
  Entry = 1
  Labels = {2, 3}
  Properties = {"empty", "int", "any"}
  NoProperties = "empty"
  Flow <- MCFlow
  Size <- MCSize
  Capacity = 3
  MaxAttempts = 5
  None = None
INVARIANTS
  GateLeadsToCode
  RuntimeConsistent
PROPERTIES
  FirstVersionStable
  CompileReturns
  KeepsLinkage
