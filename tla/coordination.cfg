SPECIFICATION FairMCSpec
CONSTANTS
    h1 = h1
    h2 = h2
    h3 = h3
    f1 = f1
    f2 = f2
    r1 = r1
    r2 = r2
    Parts = {"pool", "review"}
    Handle = {h1, h2, h3}
    Fetch = {f1, f2}
    MaxWorkers = 2
    MaxChanges = 3
    Runner = {r1}
    MaxPosts = 2
INVARIANTS
    PoolSound
    LoopInOrder
PROPERTIES
    PoolConverges
    StopReturns
    ReviewEnds
    ReviewOutcome
CHECK_DEADLOCK FALSE
