SPECIFICATION Spec
CONSTANTS
    Registers = {"r1", "r2", "r3"}
    Hardware = {"r2"}
    Batches = {a, b}
    Starts <- MCStarts
    Templates <- MCTemplates
    Names = {"n"}
SYMMETRY Symmetry
INVARIANTS
    HandlesExact
    StatusMeansVerified
    AnalysesFresh
PROPERTIES
    FailureQuiet
CHECK_DEADLOCK FALSE
