SPECIFICATION Spec
CONSTANTS
  Unspellable <- MCUnspellable
  Base = 4
  Wide = 3
  Inline = 2
  SymbolNames <- MCNames
  Signatures <- MCSignatures
  Scripts <- MCScripts
  Functions <- MCFunctions
  MaxCalls = 2
INVARIANTS TableExact FormatsReadBack VerifiedLinks
PROPERTY FailureAtomic
CHECK_DEADLOCK FALSE
