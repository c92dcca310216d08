SPECIFICATION FairSpec
CONSTANTS
    MaxStreams = 2
    Streams <- MCStreams
    Tcps = {t1, t2, t3}
    WriteErrorsIn = {"write", "reset", "read"}
INVARIANTS ConnectionInv NothingUsedAfterDestruction NothingLeftAtWork OneOwnerPerTcp NoTcpStranded
PROPERTIES GarbageDestroyed
