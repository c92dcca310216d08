SPECIFICATION LiveSpec
CONSTANTS
    MaxQueued = 2
    Retry = 2
    FlushWait = 3
    MaxDown = 3
    MaxUp = 2
INVARIANTS TunnelInv ContractsKept NothingForgotten UplinkComplete
PROPERTIES  FlushEnds FinEndsTunnel
