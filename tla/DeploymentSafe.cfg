SPECIFICATION FairSpec
CONSTANTS
    alice = alice
    up = up  down = down
    key = key  other = other
    build1 = build1  build2 = build2  short = short
    Unreadable = Unreadable
    NoKey = NoKey
    ChainFiles <- MCChainFiles
    RpcFiles <- MCRpcFiles
    SdkChains = {1101, 8453}
    GoodUrls = {up}
    Keys = {key, other}
    ValidKeys = {key}
    Builds = {build1, short}
    GoodBuilds = {build1}
    Orders <- MCOrders
    MaxEdits = 2
    MaxFaults = 1
    MaxSigned = 1
INVARIANTS
    TypeOK
    ServedIsComplete
    KeySurvives
    SignedTopicIsAccepted
PROPERTIES
    ServesAgain
CHECK_DEADLOCK FALSE
