\* Two senders one after the other, one file that may be tried twice and confirmed, a terminal
\* that may or may not be asked.
SPECIFICATION CliSpec
CONSTANTS
    s1 = s1
    s2 = s2
    f1 = f1
    r2 = r2
    r1 = r1
    NoSession = NoSession
    NoFile = NoFile
    NoRequest = NoRequest
    Sessions = {s1, s2}
    Files = {f1}
    Requests = {r1, r2}
    MaxAttempts = 2
    FeatureSets <- MCFeatures
    Digested = {}
    ChannelCapacity = 2
    AutoAccepts = {TRUE, FALSE}
SYMMETRY MCSymmetry
VIEW MCView
\* Every session identifier is used once: the system comes to rest.
CHECK_DEADLOCK FALSE
INVARIANTS
    CliTypeOK
    SessionKnown
    ReportIsTrue
PROPERTIES
    SlotRefined
