SPECIFICATION Spec
CONSTANTS
    c1 = c1
    c2 = c2
    c3 = c3
    Conns <- MCConns
    MaxTickets = 2
    MaxTokens = 2
    Lifetime = 1
    MaxTime = 2
SYMMETRY Symmetry
INVARIANTS ResumptionIsConsistent  RejectedNotRetried
