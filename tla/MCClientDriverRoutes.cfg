SPECIFICATION Spec
CONSTANTS
    UdpSockets = 1
    ConnPerUdp = 1
    MaxTcps = 2
INVARIANTS RoutesLeadToConnections
