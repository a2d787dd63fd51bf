SPECIFICATION FairSpec
CONSTANTS
    Client = {c1}
    Topic = {t1, t2}
    None = None
    MaxUpdates = 2
    MaxRequests = 3
    PeerFaults = {"leave", "stall", "pong"}
PROPERTIES
    PumpFollowsReader
    UpdateEnds
    PanickedIsForgotten
CHECK_DEADLOCK FALSE
