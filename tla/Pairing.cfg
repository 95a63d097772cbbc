\* Two devices and two requests to pair, in either direction: withdrawals, restarts and
\* failing writes.
SPECIFICATION PairingSpec
CONSTANTS
    a = a
    b = b
    c1 = c1
    c2 = c2
    None = None
    Devices = {a, b}
    Calls = {c1, c2}
    MaxWithdrawn = 2
    MaxFailures = 1
    MaxRestarts = 1
CONSTRAINT MCBounded
SYMMETRY MCSymmetry
CHECK_DEADLOCK FALSE
INVARIANTS
    PairingTypeOK
    ListsAgree
    TrustIsMutual
