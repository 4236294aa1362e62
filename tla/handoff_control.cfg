SPECIFICATION Spec
CONSTANTS
    w1 = w1
    w2 = w2
    o1 = o1
    t1 = t1
    t2 = t2
    e1 = e1
    e2 = e2
    e3 = e3
    e4 = e4
    p1 = p1
    None = None
    RoleOf <- OneWorker
    Worker = {w1}
    Operator = {o1}
    SeedTask = {t1}
    Bootstrap = {}
    Event = {e1, e2}
    Ref = {p1}
    Limit = 2
    PostTypes = {"agent_blocked", "agent_recovered", "task_retry_requested", "task_requeued", "review_approved", "other"}
    WriteStatuses = {"retry"}
    MaxFaults = 0
SYMMETRY MCSymmetry
INVARIANTS
    TypeOK
    DownstreamCommitted
CHECK_DEADLOCK FALSE
