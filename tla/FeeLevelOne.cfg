SPECIFICATION Spec
CONSTANTS
    zkevm = zkevm  xlayer = xlayer
    Request = {r1}
    Trader = {alice, bob}
    Chain = {zkevm, xlayer}
    AnyChain = AnyChain
    Levels = {0, 1, 2}
    Settings <- MCSettings
    BaseFee = 60
    Expiry = 1
    None = None
    Failures = {}
SYMMETRY MCSymmetry
INVARIANTS
    FeeOfLevel
CHECK_DEADLOCK FALSE
