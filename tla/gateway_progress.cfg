SPECIFICATION FairMCSpec
CONSTANTS
    s1 = s1
    s2 = s2
    m1 = m1
    m2 = m2
    m3 = m3
    m4 = m4
    t1 = t1
    t2 = t2
    k1 = k1
    d1 = d1
    d2 = d2
    Parts = {"lanes", "followups", "wakes"}
    Main = Main
    NoRun = NoRun
    Session = {s1, s2}
    Run = {1, 2, 3}
    SessionOf <- TwoSessions
    Widths = {1, 2}
    MaxRestarts = 2
    Message = {m1, m2, m3}
    OriginOf <- TwoChannels
    Cap = 2
    Settings <- ThreeSettings
    NoQueue = NoQueue
    MaxClears = 1
    Target = {t1, t2}
    MaxRunners = 2
    NoRunner = NoRunner
    NoTarget = NoTarget
    Delivery = {1, 2}
    BestEffort = {2}
    Reported = {2}
    Mirrored = {1}
    Pass = {11, 12}
    MaxRetries = 2
    MaxFaults = 1
    NoFile = NoFile
    NoDelivery = NoDelivery
    Key = {k1}
    Dispatch = {d1, d2}
    KeyOf <- OneKey
PROPERTIES
    RunsSettle
    ServesAgain
    QueuedDrains
    WakesRun
CHECK_DEADLOCK FALSE
