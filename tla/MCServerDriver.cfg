SPECIFICATION Spec
CONSTANTS
    c1 = c1
    c2 = c2
    c3 = c3
    c4 = c4
    Ids = {c1, c2, c3, c4}
    MaxConcurrent = 3
    Budget = 2
INVARIANTS ConnectionsBounded CreationBudgeted ListedAreAlive WakeupArmed
PROPERTIES BlockedIsServed
