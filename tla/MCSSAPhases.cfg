CONSTANTS
    Registers <- MCRegisters
    Hardware = {"h"}
    Starts <- MCStarts
    Arguments <- MCArguments
    Templates <- MCTemplates
SPECIFICATION Spec
INVARIANTS EditsVerify SourceKept StoredGraphExact
CHECK_DEADLOCK FALSE
