SPECIFICATION MCSpec
CONSTANTS
    d1 = d1
    d2 = d2
    c1 = c1
    c2 = c2
    c3 = c3
    s1 = s1
    s2 = s2
    Parts = {"packages"}
    Client = {c1, c2}
    Source = {s1, s2}
    Truncated = Truncated
    MaxVersion = 2
    Caller = {d1, d2}
    InitialState = {"draft", "assembling"}
    MaxArtifacts = 2
    Reader = {d1, d2}
    GivenStatuses = {"derived", "acked", "pending"}
    MaxRequests = 3
INVARIANTS
    ManifestAgrees
CHECK_DEADLOCK FALSE
