CONSTANTS
    r1 = r1
    r2 = r2
    r3 = r3
    r4 = r4
    ta = ta
    tb = tb
    Requests <- MCRequests
    Decides <- MCDecides
    TenantOf <- MCTenantOf
    Rank <- MCRank
    Keep = 2
    MaxClock = 1
    MaxFaults = 1
SYMMETRY MCSymmetry
SPECIFICATION Spec
INVARIANTS
    AnsweredIsRecorded
    RingIsRecent
    LoneDecisionExplained
    PagesCoverTrail
CHECK_DEADLOCK FALSE
