\* Two sessions that may both be accepted by the user or by the event loop,
\* one file that may be tried twice, senders with the resume extension.
SPECIFICATION ReceiveSpec
CONSTANTS
    s1 = s1
    s2 = s2
    f1 = f1
    f2 = f2
    r1 = r1
    r2 = r2
    NoSession = NoSession
    NoFile = NoFile
    NoRequest = NoRequest
    Sessions = {s1, s2}
    Files = {f1}
    Requests = {r1}
    MaxAttempts = 2
    FeatureSets <- MCResume
    Digested = {f1}
    ChannelCapacity = 2
    AutoAccept = TRUE
SYMMETRY MCSymmetry
VIEW MCView
\* Every session identifier is used once: the system comes to rest.
CHECK_DEADLOCK FALSE
INVARIANTS
    ReceiveTypeOK
    SessionIsKnown
    UndisturbedEnds
    DiskAgrees
PROPERTIES
    FinalStays
