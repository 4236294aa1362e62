SPECIFICATION FairSpec
CONSTANTS
    w1 = w1
    w2 = w2
    o1 = o1
    t1 = t1
    t2 = t2
    e1 = e1
    e2 = e2
    e3 = e3
    e4 = e4
    p1 = p1
    None = None
    RoleOf <- Chain
    Worker = {w1, w2}
    Operator = {}
    SeedTask = {t1, t2}
    Bootstrap = {t1, t2}
    Event = {e1, e2, e3, e4}
    Ref = {p1}
    Limit = 2
    PostTypes = {}
    WriteStatuses = {}
    MaxFaults = 0
PROPERTIES
    EventsConsumed
CHECK_DEADLOCK FALSE
