SPECIFICATION Spec
CONSTANTS
    w1 = w1
    w2 = w2
    o1 = o1
    t1 = t1
    t2 = t2
    e1 = e1
    e2 = e2
    e3 = e3
    e4 = e4
    p1 = p1
    None = None
    RoleOf <- SameRole
    Worker = {w1, w2}
    Operator = {o1}
    SeedTask = {}
    Bootstrap = {}
    Event = {e1, e2, e3}
    Ref = {p1}
    Limit = 2
    PostTypes = {"hypothesis_ready_for_experiment"}
    WriteStatuses = {}
    MaxFaults = 1
SYMMETRY MCSymmetry
INVARIANTS
    OneClaimPerOpening
    RunnerOwnsTask
PROPERTIES
    DoneStaysDone
    ImplementsBoard
CHECK_DEADLOCK FALSE
