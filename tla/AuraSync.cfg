\* One wallet, one request after the other; a loan of 2 for a day earns one point
\* of AURA.  Collateral and unsecured loans play no part.
\* The ledger runs any call the AURA application accepts.
SPECIFICATION AuraSpec
CONSTANTS
    Accounts = {u1}
    Creator = admin
    MaxUInt = 7
    MinBalance = 0
    DailyInterestBps = 1
    BpsScale = 2
    MicroalgosPerAlgo = 1
    MinAuraForUnsecured = 8
    LimitBpsOfAura = 4
    SecondsPerDay = 1
    PaymentAmounts = {3}
    LoanAmounts = {2}
    ShareAmounts = {}
    UsdcAmounts = {0}
    LoanDays = {1}
    MaxFunding = 0
    MaxAgain = 0
    MaxTime = 2
    Requests = {r1}
    Overlap = FALSE
    ResourcesChecked = FALSE
    MaxFaults = 2
    MaxPaid = 3
INVARIANTS
    AuraTypeOK
    NotOvercounted
PROPERTIES
    RepaymentReachesSync
