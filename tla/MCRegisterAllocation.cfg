CONSTANTS
    Physical = 8
    Virtual = 6
    ScanLimit = 10000
    CallClobbered = {0, 7}
    PartlyKept = {4}
    Reserved = {2, 3, 5, 6}
    Binding <- Bindings
    Globals = {1, 7}
    Wide = {10}
    MemoryBacked = {11}
    WideRegisters = {4, 5, 6}
    NarrowTemporaries <- NarrowPair
    WideTemporaries <- WidePair
    NearUnits = 2
    Compilations <- MCCompilations
SPECIFICATION Spec
INVARIANTS
    GraphExact
    LivenessExact
    ConflictsKept
    LocationsDisjoint
    CodeSound
    StagesAgree
CHECK_DEADLOCK FALSE
