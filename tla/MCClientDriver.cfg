SPECIFICATION FairSpec
CONSTANTS
    UdpSockets = 1
    ConnPerUdp = 2
    MaxTcps = 4
INVARIANTS DriverInv WriterOutlivesConnections WakeupArmed ListenerHasOneWakeup LiveIsPooled
PROPERTIES QueueIsServed
