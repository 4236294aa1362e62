SPECIFICATION FairSpec
CONSTANTS
    r1 = r1
    r2 = r2
    o1 = o1
    t1 = t1
    t2 = t2
    a1 = a1
    v1 = v1
    v2 = v2
    None = None
    Owner = {a1}
    OwnerOf <- OneOwner
    Runner = {r1}
    Operator = {o1}
    Task = {t1, t2}
    Worktree = {v1, v2}
    Requests = {"blocked", "todo"}
    MaxRequests = 2
    MaxFaults = 1
INVARIANTS
    WorkspaceSound
    HooksTrue
PROPERTIES
    DoneIsCleaned
CHECK_DEADLOCK FALSE
