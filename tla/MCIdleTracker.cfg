SPECIFICATION Spec
CONSTANTS
    t1 = t1
    t2 = t2
    c1 = c1
    Tunnels = {t1, t2}
    Connections = {c1}
    ConnOf <- MCConnOf
    Timeout = 2
    StalledTimeout = 1
    MaxNow = 4
INVARIANTS TrackerInv
PROPERTIES SweepMissesNobody SweepReapsOnlyQuiet SweepTerminates
