SPECIFICATION Spec
CONSTANTS
    Streams = {1}
    WriteErrorsIn = {"stop"}
    Wires <- TargetWires
    Transparent = FALSE
    FinAfterStop = FALSE
INVARIANTS NothingUsedAfterDestruction
