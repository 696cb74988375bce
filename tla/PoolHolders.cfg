\* A deposit while part of the pool is lent out.
SPECIFICATION Spec
CONSTANTS
    Accounts = {u1, u2}
    Creator = admin
    MaxUInt = 12
    MinBalance = 1
    DailyInterestBps = 1
    BpsScale = 2
    MicroalgosPerAlgo = 1
    MinAuraForUnsecured = 1
    LimitBpsOfAura = 4
    SecondsPerDay = 1
    PaymentAmounts = {2, 3}
    LoanAmounts = {2}
    ShareAmounts = {1, 2}
    UsdcAmounts = {1}
    LoanDays = {1}
    MaxFunding = 2
    MaxAgain = 0
    MaxTime = 2
PROPERTIES
    HoldersKeepTheirAssets
