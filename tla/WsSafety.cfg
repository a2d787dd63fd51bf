SPECIFICATION Spec
CONSTANTS
    Client = {c1, c2}
    Topic = {t1}
    None = None
    MaxUpdates = 1
    MaxRequests = 2
    PeerFaults = {"stall"}
SYMMETRY MCSymmetry
INVARIANTS
    TypeOK
    UpdatesOnlyToSubscribers
    StoppedIsForgotten
    SendsBelongToBroadcast
    AckedUnlessReplaced
CHECK_DEADLOCK FALSE
