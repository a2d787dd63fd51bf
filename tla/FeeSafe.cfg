SPECIFICATION Spec
CONSTANTS
    zkevm = zkevm  xlayer = xlayer
    Request = {r1, r2}
    Trader = {alice, bob}
    Chain = {zkevm, xlayer}
    AnyChain = AnyChain
    Levels <- MCLevels
    Settings <- MCSettings
    BaseFee = 60
    Expiry = 1
    None = None
    Failures = {"get", "set", "rest", "expire", "broker"}
SYMMETRY MCSymmetry
INVARIANTS
    TypeOK
    ReductionIsEarned
    LevelExpires
    SanePricesAreSafe
CHECK_DEADLOCK FALSE
