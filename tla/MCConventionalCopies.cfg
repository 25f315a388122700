CONSTANTS
    Registers <- MCRegisters
    Hardware = {"h"}
    Starts <- MCCopied
    Arguments <- MCArguments
    Templates <- MCTemplates
SPECIFICATION Spec
INVARIANTS OptimizedAsWritten
CHECK_DEADLOCK FALSE
