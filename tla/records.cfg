SPECIFICATION MCSpec
CONSTANTS
    d1 = d1
    d2 = d2
    c1 = c1
    c2 = c2
    c3 = c3
    s1 = s1
    s2 = s2
    Parts = {"packages", "artifacts", "messages"}
    Client = {c1, c2, c3}
    Source = {s1, s2}
    Truncated = Truncated
    MaxVersion = 3
    Caller = {d1, d2}
    InitialState = {"draft", "assembling"}
    MaxArtifacts = 2
    Reader = {d1, d2}
    GivenStatuses = {"derived", "acked", "pending"}
    MaxRequests = 3
SYMMETRY Symmetry
INVARIANTS
    TypeOK
    UnsharedAgrees
    ArtifactsSound
    MessagesSound
PROPERTIES
    LogSpec
    UnracedMovesLegal
    ReceiptsKept
CHECK_DEADLOCK FALSE
