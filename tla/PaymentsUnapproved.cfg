SPECIFICATION Spec
CONSTANTS
    here = here  elsewhere = elsewhere
    usdc = usdc  weth = weth
    alice = alice  mallory = mallory  multipay = multipay
    r1 = r1  r2 = r2  r3 = r3
    None = None
    Request = {r1, r2, r3}
    Chain = {here, elsewhere}
    Token = {usdc, weth}
    Payment <- MCPayment
    MultiPay <- MCMultiPay
    Executors <- MCExecutors
    Expiry = 1
    MaxTime = 2
INVARIANTS
    SignedIsApproved
CHECK_DEADLOCK FALSE
