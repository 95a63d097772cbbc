\* A transfer of two files, one upload at a time, a receiver with a PIN.
SPECIFICATION FairSendSpec
CONSTANTS
    s1 = s1
    s2 = s2
    f1 = f1
    f2 = f2
    r1 = r1
    r2 = r2
    NoSession = NoSession
    NoFile = NoFile
    NoRequest = NoRequest
    Sessions = {s1}
    Files = {f1, f2}
    Requests = {r1}
    MaxAttempts = 2
    FeatureSets <- MCExtended
    Digested = {}
    ChannelCapacity = 1
    CreateChecksums = TRUE
    PinRequired = TRUE
    MaxPinFailures = 1
    Parallel = 1
\* Every session identifier is used once: the system comes to rest.
CHECK_DEADLOCK FALSE
PROPERTIES
    UploadsEnd
    CancelEnds
    OrphanReleased
