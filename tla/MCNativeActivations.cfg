SPECIFICATION Spec
CONSTANTS
  mixed = mixed
  lazy = lazy
  interpreted = interpreted
  Programs <- MCPrograms
  Native <- MCNative
  Interpreting <- MCInterpreting
  Boundary <- MCBoundary
  Limit = 2
  MaxStack = 8
  MaxErrors = 2
INVARIANTS
  ThreadConsistent
  FirstErrorKept
  RecoverySafe
PROPERTIES
  KeepsStructure
