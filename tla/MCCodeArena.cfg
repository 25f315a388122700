SPECIFICATION Spec
CONSTANTS
  Align = 2
  Page = 4
  SizeMax = 15
  MaxBatches = 2
  Payloads = {p, q}
  Requests <- MCRequests
  Capacities <- MCCapacities
INVARIANTS
  PublishedIntact
  IInv
PROPERTIES
  PublishedStable
  KeepsPromise
CHECK_DEADLOCK FALSE
SYMMETRY MCSymmetry
