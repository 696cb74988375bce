\* No faults; the ledger runs only calls that name what they touch.
SPECIFICATION JobSpec
CONSTANTS
    Accounts = {u1}
    Creator = admin
    MaxUInt = 4
    MinBalance = 0
    DailyInterestBps = 0
    BpsScale = 2
    MicroalgosPerAlgo = 1
    MinAuraForUnsecured = 1
    LimitBpsOfAura = 4
    SecondsPerDay = 2
    PaymentAmounts = {3}
    LoanAmounts = {3}
    ShareAmounts = {}
    UsdcAmounts = {1, 2}
    LoanDays = {1}
    MaxFunding = 0
    MaxAgain = 0
    MaxTime = 4
    Users = {u1, w2}
    MinSwapUsdc = 2
    ResourcesChecked = TRUE
    MaxSkew = 1
    MaxFaults = 0
PROPERTIES
    OverdueLiquidated
