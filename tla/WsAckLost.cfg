SPECIFICATION Spec
CONSTANTS
    Client = {c1, c2}
    Topic = {t1}
    None = None
    MaxUpdates = 1
    MaxRequests = 3
    PeerFaults = {"leave"}
SYMMETRY MCSymmetry
INVARIANTS
    AckedIsSubscribed
CHECK_DEADLOCK FALSE
