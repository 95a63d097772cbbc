\* One session with two files, one of which carries its digest up front, and
\* two concurrent requests.  Every file may be tried twice.
SPECIFICATION FairSpec
CONSTANTS
    s1 = s1
    s2 = s2
    f1 = f1
    f2 = f2
    r1 = r1
    r2 = r2
    NoSession = NoSession
    NoFile = NoFile
    NoRequest = NoRequest
    Sessions = {s1}
    Files = {f1, f2}
    Requests = {r1, r2}
    MaxAttempts = 2
    FeatureSets <- MCFeatureSets
    Digested = {f1}
    ChannelCapacity = 2
\* Every session identifier is used once: the system comes to rest.
CHECK_DEADLOCK FALSE
INVARIANTS
    TypeOK
    FileOwnership
    EndIsLast
    ToldIsPlacedOrHeld
PROPERTIES
    HandlersEnd
    SlotReleased
    WithdrawnReleased
