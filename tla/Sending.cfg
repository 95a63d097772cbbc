\* A transfer of two files that may be tried twice, senders with and without
\* the extensions; a second sender finds the slot free or taken.
SPECIFICATION SendSpec
CONSTANTS
    s1 = s1
    s2 = s2
    f1 = f1
    f2 = f2
    r1 = r1
    r2 = r2
    NoSession = NoSession
    NoFile = NoFile
    NoRequest = NoRequest
    Sessions = {s1, s2}
    Files = {f1, f2}
    Requests = {r1, r2}
    MaxAttempts = 2
    FeatureSets <- MCFeatureSets
    Digested = {}
    ChannelCapacity = 1
    CreateChecksums = TRUE
    PinRequired = FALSE
    MaxPinFailures = 1
    Parallel = 2
CONSTRAINT MCOther
SYMMETRY MCSymmetry
VIEW MCView
\* Every session identifier is used once: the system comes to rest.
CHECK_DEADLOCK FALSE
INVARIANTS
    SendTypeOK
    CallIsWelcome
    SentIsReceived
    OutcomeIsTrue
