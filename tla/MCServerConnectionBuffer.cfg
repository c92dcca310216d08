SPECIFICATION Spec
CONSTANTS
    Streams = {1}
    WriteErrorsIn = {}
    Wires <- TargetWires
    Transparent = FALSE
    FinAfterStop = TRUE
INVARIANTS BufferOutlivesItsUse
