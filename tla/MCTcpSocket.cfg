CONSTANTS
    Driver = Driver
    Sockets = {s1, s2}
    Listeners = {s1, s2, Driver}
    Fds = {f1, f2}
    DriverFd = f1
    NoFd = NoFd
    NoHandle = 0
    NoListener = NoListener
    Handles = {1, 2, 3, 4}
    SendSize = 2
    MaxCalls = 2
SPECIFICATION FairSpec
INVARIANTS SocketInv CompletionsAreTrue
PROPERTIES OperationsComplete
