SPECIFICATION Spec
CONSTANTS
  Half = 2
  BlockSize = 10
  TableSize = 3
  MinMatch = 2
  MaxLiterals = 5
  HashRange = 7
  Inputs <- MCInputs
  Limits <- MCLimits
  Damaged <- MCDamaged
INVARIANTS RoundTrip DecoderBounded
CHECK_DEADLOCK FALSE
