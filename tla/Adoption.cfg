SPECIFICATION Spec
CONSTANTS
    t1 = t1  
    Terminal = {t1}
    Absent = Absent
    Bridgeable = {1, 2}
    Unsafe = {3}
    FaultAt = {"review", "journal", "create", "write", "undo", "restore", "consume", "routes"}
    EditsAt = {"review"}
    MaxEdits = 2
    MaxFaults = 1
    MaxCommands = 4
CHECK_DEADLOCK FALSE
INVARIANTS AppliesReviewedPlan FailedInitUndone RollbackRestores
