SPECIFICATION Spec
CONSTANTS
    r1 = r1
    r2 = r2
    o1 = o1
    t1 = t1
    t2 = t2
    a1 = a1
    v1 = v1
    v2 = v2
    None = None
    Owner = {a1}
    OwnerOf <- OneOwner
    Runner = {r1, r2}
    Operator = {o1}
    Task = {t1}
    Worktree = {v1, v2}
    Requests = {"release", "cleanup", "done", "blocked", "todo", "in_progress"}
    MaxRequests = 3
    MaxFaults = 0
INVARIANTS
    AgentReleased
SYMMETRY MCSymmetry
CHECK_DEADLOCK FALSE
