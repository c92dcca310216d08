SPECIFICATION Spec
CONSTANTS
    Streams = {1, 2}
    WriteErrorsIn = {"write", "reset"}
    Wires <- TransparentWires
    Transparent = TRUE
    FinAfterStop = FALSE
INVARIANTS ConnectionInv NothingUsedAfterDestruction SocketsReleased DialOnlyAuthenticated  
