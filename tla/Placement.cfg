\* Two sessions of one sender that offer files of one name, every conflict policy, a crash.
SPECIFICATION PlacementSpec
CONSTANTS
    s1 = s1
    s2 = s2
    f1 = f1
    f2 = f2
    a = a
    b = b
    name = name
    peer = peer
    Mine = Mine
    Hole = Hole
    None = None
    Refused = Refused
    Sessions = {s1, s2}
    Files = {f1, f2}
    Names = {name}
    Contents = {a, b}
    Offers <- MCOffers
    SenderOf <- MCSenderOf
    NameOf <- MCNameOf
    ContentOf <- MCContentOf
    Policies = {"rename", "overwrite", "ask"}
    MaxNumber = 2
    MaxTries = 2
    MaxInodes = 5
    MaxCrashes = 1
CONSTRAINT MCBounded
CHECK_DEADLOCK FALSE
INVARIANTS
    PlacementTypeOK
    FinishedIsIntact
    MineIsKept
    SharedOnlyUnreserved
